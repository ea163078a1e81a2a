----------------------------- MODULE Leader_proofs -----------------------------
(***************************************************************************)
(* There is one leader at a time, for any number of workers and any times  *)
(* that keep LeaderAssumption.                                             *)
(***************************************************************************)
EXTENDS Leader, FiniteSetTheorems, TLAPS

-----------------------------------------------------------------------------
(* The helpers *)

\* The slack, and what one failure takes from it.
LEMMA SlackFacts ==
  ASSUME NEW f \in Nat, f <= MaxFails
  PROVE  /\ Slack(f) \in Nat
         /\ Slack(f) + RoundTime + Period < Ttl
         /\ f < MaxFails => Slack(f) = Slack(f + 1) + Period
<1>1. Period \in Nat /\ MaxFails - f \in Nat
  BY LeaderAssumption DEF Period
<1>2. \A a, b, p \in Nat : a <= b => a * p \in Nat /\ a * p <= b * p
  OBVIOUS
<1>3. \A a, p \in Nat : (a + 1) * p = a * p + p
  OBVIOUS
<1>4. Slack(f) \in Nat /\ Slack(f) <= MaxFails * Period
  BY <1>1, <1>2, LeaderAssumption DEF Slack
<1>5. (MaxFails + 1) * Period = MaxFails * Period + Period
  BY <1>1, <1>3, LeaderAssumption
<1>6. MaxFails * Period \in Nat
  BY <1>1, <1>2, LeaderAssumption
<1>7. Ttl > RoundTime + (MaxFails + 1) * Period /\ Ttl \in Nat /\ RoundTime \in Nat
  BY LeaderAssumption DEF Period
<1>8. ASSUME f < MaxFails PROVE Slack(f) = Slack(f + 1) + Period
  <2>1. MaxFails - (f + 1) \in Nat /\ MaxFails - f = (MaxFails - (f + 1)) + 1
    BY <1>8, LeaderAssumption
  <2> QED  BY <1>1, <1>3, <2>1 DEF Slack
<1>9. Slack(f) + RoundTime + Period < Ttl
  BY <1>1, <1>4, <1>5, <1>6, <1>7
<1> QED  BY <1>4, <1>8, <1>9

LEMMA GotoFacts ==
  ASSUME TypeOK, NEW w \in Worker, NEW l \in Loop, NEW place \in Places,
         Goto(w, l, place)
  PROVE  /\ pc' \in [Worker -> [Loop -> Places]]
         /\ pc'[w][l] = place
         /\ \A v \in Worker, k \in Loop : <<v, k>> # <<w, l>> => pc'[v][k] = pc[v][k]
<1>1. pc \in [Worker -> [Loop -> Places]] /\ pc[w] \in [Loop -> Places]
  BY DEF TypeOK
<1>2. pc' = [pc EXCEPT ![w] = [pc[w] EXCEPT ![l] = place]]
  BY DEF Goto
<1>3. [pc[w] EXCEPT ![l] = place] \in [Loop -> Places]
  BY <1>1
<1>4. pc' \in [Worker -> [Loop -> Places]]
  BY <1>1, <1>2, <1>3
<1>5. pc'[w] = [pc[w] EXCEPT ![l] = place] /\ \A v \in Worker : v # w => pc'[v] = pc[v]
  BY <1>1, <1>2
<1> QED  BY <1>1, <1>4, <1>5

LEMMA RestartFacts ==
  ASSUME TypeOK, NEW w \in Worker, NEW l \in Loop, Restart(w, l)
  PROVE  /\ age' \in [Worker -> Nat]
         /\ l = "requeue" => age'[w] = 0
         /\ \A v \in Worker : v # w \/ l # "requeue" => age'[v] = age[v]
BY DEF TypeOK, Restart

LEMMA GetsThroughFacts ==
  ASSUME TypeOK, NEW w \in Worker, NEW l \in Loop, GetsThrough(w, l)
  PROVE  /\ fails' \in [Worker -> 0 .. MaxFails]
         /\ \A v \in Worker : v # w \/ l # "requeue" => fails'[v] = fails[v]
BY LeaderAssumption DEF TypeOK, GetsThrough

LEMMA RequeueIsLoop == "requeue" \in Loop
BY DEF Loop

\* LeaderAssumption without its product.
LEMMA ConstantFacts ==
  /\ None \notin Worker
  /\ Interval \in Nat /\ RoundTime \in Nat /\ MaxFails \in Nat /\ Ttl \in Nat
BY LeaderAssumption

\* While a worker lives, its requeue loop extends the key within this time.
LEMMA WaitBound ==
  ASSUME TypeOK, AgeBounded, NEW w \in Worker, Alive(w)
  PROVE  Wait(w) \in Nat /\ Wait(w) <= RoundTime + Period
BY ConstantFacts DEF TypeOK, AgeBounded, Wait, Period

-----------------------------------------------------------------------------
(* Types, ages, and workers that are down *)

Basic == TypeOK /\ AgeBounded /\ DownTogether

LEMMA InitInv == Init => Inv
<1> SUFFICES ASSUME Init PROVE Inv
  OBVIOUS
<1>1. TypeOK
  BY ConstantFacts DEF Init, TypeOK, Places
<1>2. \A w \in Worker, l \in Loop : At(w, l, "asleep")
  BY DEF Init, At
<1>3. AgeBounded /\ DownTogether
  BY <1>2, RequeueIsLoop, ConstantFacts DEF Init, AgeBounded, DownTogether, Alive, At
<1>4. KeyOutlivesWait
  BY <1>2, ConstantFacts DEF Init, KeyOutlivesWait
<1>5. Stranded = {}
  BY <1>2 DEF Stranded, Leading, At
<1>6. StrandedByStalls
  BY <1>5, FS_EmptySet DEF Init, StrandedByStalls
<1> QED  BY <1>1, <1>3, <1>4, <1>6 DEF Inv

LEMMA NextBasic == ASSUME Basic, [Next]_vars PROVE Basic'
<1> USE ConstantFacts, RequeueIsLoop
<1>0. TypeOK /\ AgeBounded /\ DownTogether
  BY DEF Basic
<1>1. ASSUME NEW w \in Worker, NEW l \in Loop, NEW place \in Places \ {"down"},
             Goto(w, l, place), ~At(w, l, "down"),
             \/ Restart(w, l)
             \/ UNCHANGED age /\ ~At(w, l, "asleep") /\ place # "asleep"
      PROVE  AgeBounded' /\ DownTogether' /\ age' \in [Worker -> Nat]
  <2>1. age' \in [Worker -> Nat]
    BY <1>0, <1>1, RestartFacts DEF TypeOK
  <2>2. \A v \in Worker : Alive(v)' <=> Alive(v)
    <3>1. Alive(w)
      BY <1>0, <1>1 DEF DownTogether
    <3> QED  BY <1>0, <1>1, <3>1, GotoFacts DEF Alive, At
  <2>3. DownTogether'
    BY <1>0, <1>1, <2>2, GotoFacts DEF DownTogether, At
  <2>4. AgeBounded'
    <3>1. ASSUME NEW v \in Worker, v # w \/ l # "requeue"
          PROVE  pc'[v]["requeue"] = pc[v]["requeue"] /\ age'[v] = age[v]
      BY <1>0, <1>1, <3>1, GotoFacts, RestartFacts
    <3>2. ASSUME l = "requeue", Alive(w)
          PROVE  age'[w] <= IF At(w, "requeue", "asleep")' THEN Interval ELSE RoundTime
      <4>1. CASE Restart(w, l)
        BY <1>0, <3>2, <4>1, RestartFacts DEF At
      <4>2. CASE UNCHANGED age /\ ~At(w, l, "asleep") /\ place # "asleep"
        BY <1>0, <1>1, <3>2, <4>2, GotoFacts DEF AgeBounded, At
      <4> QED  BY <1>1, <4>1, <4>2
    <3> QED  BY <1>0, <2>2, <3>1, <3>2 DEF AgeBounded, At
  <2> QED  BY <2>1, <2>3, <2>4
<1>2. ASSUME NEW w \in Worker, NEW l \in Loop, TrySet(w, l) PROVE Basic'
  <2>1. PICK place \in {"renew", "get"} : Goto(w, l, place)
    BY <1>2 DEF TrySet
  <2>2. AgeBounded' /\ DownTogether' /\ age' \in [Worker -> Nat]
    BY <1>1, <1>2, <2>1 DEF TrySet, Due, At, Places
  <2>3. /\ holder' \in Worker \cup {None} /\ ttl' \in 0 .. Ttl
        /\ holder' = None => ttl' = 0
    BY <1>0, <1>2 DEF TrySet, Life, TypeOK
  <2>4. pc' \in [Worker -> [Loop -> Places]]
    BY <1>0, <2>1, GotoFacts DEF Places
  <2> QED  BY <1>0, <1>2, <2>2, <2>3, <2>4 DEF TrySet, Basic, TypeOK
<1>3. ASSUME NEW w \in Worker, NEW l \in Loop, TryGet(w, l) PROVE Basic'
  <2>1. PICK place \in {"renew", "asleep"} :
          /\ Goto(w, l, place)
          /\ Restart(w, l) \/ (UNCHANGED age /\ place # "asleep")
    <3>1. CASE Leads(w)
      BY <1>3, <3>1 DEF TryGet
    <3>2. CASE ~Leads(w)
      BY <1>3, <3>2 DEF TryGet
    <3> QED  BY <3>1, <3>2
  <2>2. AgeBounded' /\ DownTogether' /\ age' \in [Worker -> Nat]
    BY <1>1, <1>3, <2>1 DEF TryGet, At, Places
  <2>3. fails' \in [Worker -> 0 .. MaxFails]
    BY <1>0, <1>3, GetsThroughFacts DEF TryGet, TypeOK
  <2> QED  BY <1>0, <1>3, <2>1, <2>2, <2>3, GotoFacts DEF TryGet, Basic, TypeOK, Places
<1>4. ASSUME NEW w \in Worker, NEW l \in Loop, RenewGet(w, l) PROVE Basic'
  <2>1. PICK place \in {"extend", "work"} : Goto(w, l, place)
    BY <1>4 DEF RenewGet
  <2>2. AgeBounded' /\ DownTogether' /\ age' \in [Worker -> Nat]
    BY <1>1, <1>4, <2>1 DEF RenewGet, At, Places
  <2>3. fails' \in [Worker -> 0 .. MaxFails]
    BY <1>0, <1>4, GetsThroughFacts DEF RenewGet, TypeOK
  <2> QED  BY <1>0, <1>4, <2>1, <2>2, <2>3, GotoFacts DEF RenewGet, Basic, TypeOK, Places
<1>5. ASSUME NEW w \in Worker, NEW l \in Loop, Extend(w, l) PROVE Basic'
  <2>2. AgeBounded' /\ DownTogether' /\ age' \in [Worker -> Nat]
    BY <1>1, <1>5 DEF Extend, At, Places
  <2>3. ttl' \in 0 .. Ttl /\ (holder' = None => ttl' = 0)
    BY <1>0, <1>5 DEF Extend, Extended, TypeOK
  <2>4. pc' \in [Worker -> [Loop -> Places]]
    BY <1>0, <1>5, GotoFacts DEF Extend, Places
  <2>5. fails' \in [Worker -> 0 .. MaxFails]
    BY <1>0, <1>5, GetsThroughFacts DEF Extend
  <2> QED  BY <1>0, <1>5, <2>2, <2>3, <2>4, <2>5 DEF Extend, Basic, TypeOK
<1>6. ASSUME NEW w \in Worker, NEW l \in Loop, Finish(w, l) PROVE Basic'
  <2>2. AgeBounded' /\ DownTogether' /\ age' \in [Worker -> Nat]
    BY <1>1, <1>6 DEF Finish, At, Places
  <2> QED  BY <1>0, <1>6, <2>2, GotoFacts DEF Finish, Basic, TypeOK, Places
<1>7. ASSUME NEW w \in Worker, NEW l \in Loop, RoundFails(w, l) PROVE Basic'
  <2>1. AgeBounded' /\ DownTogether' /\ age' \in [Worker -> Nat]
    BY <1>1, <1>7 DEF RoundFails, Due, At, Places
  <2>2. fails' \in [Worker -> 0 .. MaxFails]
    BY <1>0, <1>7 DEF RoundFails, TypeOK
  <2> QED  BY <1>0, <1>7, <2>1, <2>2, GotoFacts DEF RoundFails, Basic, TypeOK, Places
<1>8. ASSUME NEW w \in Worker, Crash(w) PROVE Basic'
  <2>1. /\ pc' \in [Worker -> [Loop -> Places]]
        /\ \A l \in Loop : pc'[w][l] = "down"
        /\ \A v \in Worker \ {w} : pc'[v] = pc[v]
    BY <1>0, <1>8 DEF Crash, TypeOK, Places
  <2>2. TypeOK'
    BY <1>0, <1>8, <2>1 DEF Crash, TypeOK
  <2>3. \A v \in Worker : Alive(v)' => v # w /\ Alive(v)
    BY <2>1 DEF Alive, At
  <2>4. AgeBounded'
    BY <1>0, <1>8, <2>1, <2>3 DEF Crash, AgeBounded, At
  <2>5. DownTogether'
    BY <1>0, <2>1 DEF DownTogether, Alive, At
  <2> QED  BY <2>2, <2>4, <2>5 DEF Basic
<1>9. CASE Stall
  <2>2. TypeOK'
    BY <1>0, <1>9 DEF Stall, TypeOK
  <2>3. AgeBounded' /\ DownTogether'
    BY <1>0, <1>9 DEF Stall, AgeBounded, DownTogether, Alive, At
  <2> QED  BY <2>2, <2>3 DEF Basic
<1>10. CASE Tick
  <2>1. /\ ttl' \in 0 .. Ttl /\ holder' \in Worker \cup {None}
        /\ holder' = None => ttl' = 0
    BY <1>0, <1>10 DEF Tick, TypeOK
  <2>2. age' \in [Worker -> Nat]
    BY <1>0, <1>10 DEF Tick, TypeOK
  <2>3. AgeBounded'
    BY <1>0, <1>10 DEF Tick, TypeOK, AgeBounded, Alive, At
  <2>4. TypeOK'
    BY <1>0, <1>10, <2>1, <2>2 DEF Tick, TypeOK
  <2>5. DownTogether'
    BY <1>0, <1>10 DEF Tick, DownTogether, Alive, At
  <2> QED  BY <2>3, <2>4, <2>5 DEF Basic
<1>11. CASE UNCHANGED vars
  BY <1>11 DEF vars, Basic, TypeOK, AgeBounded, DownTogether, Alive, At
<1> QED
  BY <1>2, <1>3, <1>4, <1>5, <1>6, <1>7, <1>8, <1>9, <1>10, <1>11 DEF Next, LoopStep

-----------------------------------------------------------------------------
(* The key outlives the wait *)

\* The key of a worker that lives has more than a tick left when one may pass.
LEMMA LeaderHasTime ==
  ASSUME Basic, KeyOutlivesWait, holder # None, Alive(holder)
  PROVE  /\ holder \in Worker
         /\ Wait(holder) \in Nat /\ Slack(fails[holder]) \in Nat
         /\ ttl > Wait(holder) + Slack(fails[holder])
<1>1. holder \in Worker
  BY DEF Basic, TypeOK
<1>2. fails[holder] \in Nat /\ fails[holder] <= MaxFails
  BY <1>1 DEF Basic, TypeOK
<1> QED  BY <1>1, <1>2, WaitBound, SlackFacts DEF Basic, KeyOutlivesWait

\* A step of one loop that leaves the key alone keeps it long enough, when it costs
\* the requeue loop of the holder no time it does not have.
LEMMA StepKeeps ==
  ASSUME Basic, Basic', KeyOutlivesWait, UNCHANGED <<holder, ttl>>,
         NEW w \in Worker, NEW l \in Loop, NEW place \in Places,
         Goto(w, l, place), Restart(w, l) \/ UNCHANGED age,
         Alive(w)' => Alive(w),
         \A v \in Worker : v # w \/ l # "requeue" => fails'[v] = fails[v],
         l = "requeue" /\ holder = w =>
           Wait(w)' + Slack(fails'[w]) <= Wait(w) + Slack(fails[w])
  PROVE  KeyOutlivesWait'
<1> USE RequeueIsLoop
<1>1. TypeOK /\ KeyOutlivesWait
  BY DEF Basic
<1>2. /\ \A v \in Worker : /\ fails[v] \in Nat /\ fails[v] <= MaxFails
                            /\ fails'[v] \in Nat /\ fails'[v] <= MaxFails
      /\ ttl \in Nat
  BY ConstantFacts DEF Basic, TypeOK
<1>4. ASSUME NEW v \in Worker, holder' = v, Alive(v)'
      PROVE  ttl' > Wait(v)' + Slack(fails'[v])
  <2>1. /\ Slack(fails[v]) \in Nat /\ Slack(fails'[v]) \in Nat
    BY <1>2, SlackFacts
  <2>2. Wait(v)' \in Nat
    BY <1>4, ConstantFacts DEF Basic, TypeOK, AgeBounded, Wait, Alive, At, Period
  <2>3. CASE v = w /\ l = "requeue"
    <3>1. Alive(w) /\ holder = w
      BY <1>4, <2>3
    <3>2. Wait(w) \in Nat
      BY <3>1, WaitBound DEF Basic
    <3> QED  BY <1>1, <1>2, <2>1, <2>2, <2>3, <3>1, <3>2 DEF KeyOutlivesWait
  <2>4. CASE v # w \/ l # "requeue"
    <3>1. pc'[v]["requeue"] = pc[v]["requeue"] /\ age'[v] = age[v]
      BY <1>1, <2>4, GotoFacts, RestartFacts
    <3>2. Alive(v) /\ holder = v /\ Wait(v)' = Wait(v)
      BY <1>4, <3>1 DEF Alive, At, Wait
    <3>3. ttl > Wait(v) + Slack(fails[v]) /\ fails'[v] = fails[v]
      BY <1>1, <2>4, <3>2 DEF KeyOutlivesWait
    <3> QED  BY <1>2, <2>1, <2>2, <3>2, <3>3
  <2> QED  BY <2>3, <2>4
<1> QED  BY <1>4 DEF KeyOutlivesWait

\* A worker that gets or extends the key has all the time it may need.
LEMMA FreshKey ==
  ASSUME Basic', holder' # None => ttl' = Ttl
  PROVE  KeyOutlivesWait'
<1>1. \A v \in Worker : fails'[v] \in Nat /\ fails'[v] <= MaxFails
  BY ConstantFacts DEF Basic, TypeOK
<1>2. ASSUME NEW v \in Worker, holder' = v, Alive(v)'
      PROVE  ttl' > Wait(v)' + Slack(fails'[v])
  <2>1. Wait(v)' \in Nat /\ Wait(v)' <= RoundTime + Period
    BY <1>2, ConstantFacts
       DEF Basic, TypeOK, AgeBounded, Wait, Alive, At, Period
  <2>2. /\ Slack(fails'[v]) \in Nat
        /\ Slack(fails'[v]) + RoundTime + Period < Ttl
    BY <1>1, SlackFacts
  <2>3. RoundTime \in Nat /\ Period \in Nat /\ Ttl \in Nat /\ ttl' = Ttl
    BY <1>2, ConstantFacts DEF Period
  <2> QED  BY <2>1, <2>2, <2>3
<1> QED  BY <1>2 DEF KeyOutlivesWait

LEMMA NextOutlives ==
  ASSUME Basic, Basic', KeyOutlivesWait, [Next]_vars
  PROVE  KeyOutlivesWait'
<1> USE RequeueIsLoop
<1>0. /\ TypeOK /\ KeyOutlivesWait
      /\ \A w \in Worker : /\ fails[w] \in Nat /\ fails[w] <= MaxFails
                            /\ Slack(fails[w]) \in Nat
      /\ Period \in Nat /\ Interval \in Nat /\ RoundTime \in Nat
  BY ConstantFacts, SlackFacts DEF Basic, TypeOK, Period
<1>1. ASSUME NEW w \in Worker, age[w] \in Nat PROVE Wait(w) \in Int
  BY <1>0, <1>1 DEF Wait
<1>a. \A w \in Worker : age[w] \in Nat
  BY <1>0 DEF TypeOK
<1>2. ASSUME NEW w \in Worker, NEW l \in Loop, TrySet(w, l) PROVE KeyOutlivesWait'
  <2>1. CASE holder = None
    <3>1. ttl' = Ttl
      BY <1>2, <2>1 DEF TrySet, Life
    <3> QED  BY <3>1, FreshKey
  <2>2. CASE holder # None
    <3>1. /\ Goto(w, l, "get") /\ UNCHANGED <<holder, ttl, fails>>
          /\ Restart(w, l) /\ Due(w, l)
      BY <1>2, <2>2 DEF TrySet
    <3>2. /\ pc[w][l] = "asleep" /\ pc'[w][l] = "get"
          /\ l = "requeue" => age[w] = Interval /\ age'[w] = 0
      BY <1>0, <3>1, GotoFacts, RestartFacts DEF Due, At, Places
    <3>3. l = "requeue" => Wait(w)' = Wait(w)
      BY <1>0, <3>2 DEF Wait, At
    <3>4. l # "requeue" => pc'[w]["requeue"] = pc[w]["requeue"]
      BY <1>0, <3>1, GotoFacts DEF Places
    <3>5. Alive(w)' => Alive(w)
      BY <3>2, <3>4 DEF Alive, At
    <3> QED  BY <1>0, <1>1, <1>a, <3>1, <3>3, <3>5, StepKeeps DEF Places
  <2> QED  BY <2>1, <2>2
<1>3. ASSUME NEW w \in Worker, NEW l \in Loop, TryGet(w, l) PROVE KeyOutlivesWait'
  <2>1. CASE Leads(w)
    <3>1. Goto(w, l, "renew") /\ UNCHANGED <<holder, ttl, fails, age>> /\ holder = w
      BY <1>3, <2>1 DEF TryGet, Leads
    <3>2. pc[w][l] = "get" /\ pc'[w][l] = "renew"
      BY <1>0, <1>3, <3>1, GotoFacts DEF TryGet, At, Places
    <3>3. l = "requeue" => Wait(w)' = Wait(w)
      BY <3>1, <3>2 DEF Wait, At
    <3>4. l # "requeue" => pc'[w]["requeue"] = pc[w]["requeue"]
      BY <1>0, <3>1, GotoFacts DEF Places
    <3>5. Alive(w)' => Alive(w)
      BY <3>2, <3>4 DEF Alive, At
    <3> QED  BY <1>0, <1>1, <1>a, <3>1, <3>3, <3>5, StepKeeps DEF Places
  <2>2. CASE ~Leads(w)
    <3>1. /\ Goto(w, l, "asleep") /\ UNCHANGED <<holder, ttl>> /\ Restart(w, l)
          /\ GetsThrough(w, l) /\ holder # w
      BY <1>3, <2>2 DEF TryGet, Leads
    <3>2. pc[w][l] = "get"
      BY <1>3 DEF TryGet, At
    <3>4. l # "requeue" => pc'[w]["requeue"] = pc[w]["requeue"]
      BY <1>0, <3>1, GotoFacts DEF Places
    <3>5. Alive(w)' => Alive(w)
      BY <3>2, <3>4 DEF Alive, At
    <3> QED  BY <1>0, <3>1, <3>5, GetsThroughFacts, StepKeeps DEF Places
  <2> QED  BY <2>1, <2>2
<1>4. ASSUME NEW w \in Worker, NEW l \in Loop, RenewGet(w, l) PROVE KeyOutlivesWait'
  <2>1. PICK place \in {"extend", "work"} :
          /\ Goto(w, l, place) /\ UNCHANGED <<holder, ttl, age>>
          /\ pc[w][l] = "renew" /\ (holder = w => place = "extend" /\ UNCHANGED fails)
          /\ holder # w => GetsThrough(w, l)
    BY <1>4 DEF RenewGet, At
  <2>2. pc'[w][l] = place
    BY <1>0, <2>1, GotoFacts DEF Places
  <2>3. l = "requeue" /\ holder = w => Wait(w)' = Wait(w)
    BY <2>1, <2>2 DEF Wait, At
  <2>4. l # "requeue" => pc'[w]["requeue"] = pc[w]["requeue"]
    BY <1>0, <2>1, GotoFacts DEF Places
  <2>5. Alive(w)' => Alive(w)
    BY <2>1, <2>4 DEF Alive, At
  <2>6. \A v \in Worker : v # w \/ l # "requeue" => fails'[v] = fails[v]
    BY <1>0, <2>1, GetsThroughFacts
  <2> QED  BY <1>0, <1>1, <1>a, <2>1, <2>3, <2>5, <2>6, StepKeeps DEF Places
<1>5. ASSUME NEW w \in Worker, NEW l \in Loop, Extend(w, l) PROVE KeyOutlivesWait'
  <2>1. holder' # None => ttl' = Ttl
    BY <1>5 DEF Extend, Extended
  <2> QED  BY <2>1, FreshKey
<1>6. ASSUME NEW w \in Worker, NEW l \in Loop, Finish(w, l) PROVE KeyOutlivesWait'
  <2>1. /\ Goto(w, l, "asleep") /\ UNCHANGED <<holder, ttl, fails>> /\ Restart(w, l)
        /\ pc[w][l] = "work"
    BY <1>6 DEF Finish, At
  <2>2. pc'[w][l] = "asleep" /\ (l = "requeue" => age'[w] = 0)
    BY <1>0, <2>1, GotoFacts, RestartFacts DEF Places
  <2>3. l # "requeue" => pc'[w]["requeue"] = pc[w]["requeue"]
    BY <1>0, <2>1, GotoFacts DEF Places
  <2>4. Alive(w)' => Alive(w)
    BY <2>1, <2>3 DEF Alive, At
  <2>5. ASSUME l = "requeue" PROVE Wait(w)' <= Wait(w)
    <3>1. age[w] \in Nat /\ age[w] <= RoundTime
      BY <1>a, <2>1, <2>5 DEF Basic, AgeBounded, Alive, At
    <3> QED  BY <1>0, <2>1, <2>2, <2>5, <3>1 DEF Wait, At, Period
  <2>6. Wait(w) \in Int /\ Wait(w)' \in Int
    <3>1. age'[w] \in Nat
      BY DEF Basic, TypeOK
    <3> QED  BY <1>0, <1>1, <1>a, <3>1 DEF Wait, Period
  <2> QED  BY <1>0, <2>1, <2>4, <2>5, <2>6, StepKeeps DEF Places
<1>7. ASSUME NEW w \in Worker, NEW l \in Loop, RoundFails(w, l) PROVE KeyOutlivesWait'
  <2>1. /\ Goto(w, l, "asleep") /\ UNCHANGED <<holder, ttl>> /\ Restart(w, l)
        /\ pc[w][l] \in {"asleep", "get", "renew", "extend"}
        /\ Due(w, l) \/ pc[w][l] # "asleep"
        /\ \A v \in Worker : v # w \/ l # "requeue" => fails'[v] = fails[v]
        /\ l = "requeue" => fails[w] < MaxFails /\ fails'[w] = fails[w] + 1
    BY <1>0, <1>7 DEF RoundFails, Due, At, TypeOK
  <2>2. pc'[w][l] = "asleep" /\ (l = "requeue" => age'[w] = 0)
    BY <1>0, <2>1, GotoFacts, RestartFacts DEF Places
  <2>3. l # "requeue" => pc'[w]["requeue"] = pc[w]["requeue"]
    BY <1>0, <2>1, GotoFacts DEF Places
  <2>4. Alive(w)' => Alive(w)
    BY <2>1, <2>3 DEF Alive, At
  <2>5. ASSUME l = "requeue"
        PROVE  Slack(fails[w]) = Slack(fails'[w]) + Period /\ Slack(fails'[w]) \in Nat
    <3>1. fails'[w] \in Nat /\ fails'[w] <= MaxFails
      BY ConstantFacts DEF Basic, TypeOK
    <3> QED  BY <1>0, <2>1, <2>5, <3>1, SlackFacts
  <2>6. ASSUME l = "requeue" PROVE Wait(w)' <= Wait(w) + Period
    <3>1. Alive(w)
      BY <2>1, <2>6 DEF Alive, At
    <3>2. Wait(w) \in Nat
      BY <3>1, WaitBound DEF Basic
    <3>3. Wait(w)' = Period
      BY <1>0, <2>2, <2>6 DEF Wait, At, Period
    <3> QED  BY <1>0, <3>2, <3>3
  <2>7. Wait(w) \in Int /\ Wait(w)' \in Int
    <3>1. age'[w] \in Nat
      BY DEF Basic, TypeOK
    <3> QED  BY <1>0, <1>1, <1>a, <3>1 DEF Wait, Period
  <2>8. l = "requeue" => Wait(w)' + Slack(fails'[w]) <= Wait(w) + Slack(fails[w])
    BY <1>0, <2>5, <2>6, <2>7
  <2> QED  BY <2>1, <2>4, <2>8, StepKeeps DEF Places
<1>8. ASSUME NEW w \in Worker, Crash(w) PROVE KeyOutlivesWait'
  <2>1. /\ \A l \in Loop : pc'[w][l] = "down"
        /\ \A v \in Worker \ {w} : pc'[v] = pc[v]
        /\ UNCHANGED <<holder, ttl, age, fails>>
    BY <1>0, <1>8 DEF Crash, TypeOK
  <2>2. \A v \in Worker : Alive(v)' => v # w /\ Alive(v) /\ Wait(v)' = Wait(v)
    BY <2>1 DEF Alive, At, Wait
  <2> QED  BY <1>0, <2>1, <2>2 DEF KeyOutlivesWait
<1>9. CASE Stall
  BY <1>9, FreshKey DEF Stall
<1>10. CASE Tick
  <2>1. UNCHANGED <<pc, fails>>
    BY <1>10 DEF Tick
  <2>2. ASSUME NEW v \in Worker, holder = v, Alive(v)
        PROVE  holder' = v /\ ttl' > Wait(v)' + Slack(fails'[v])
    <3>1. ttl > Wait(v) + Slack(fails[v]) /\ ttl \in Nat
      BY <1>0, <2>2, ConstantFacts DEF KeyOutlivesWait, TypeOK
    <3>2. /\ age[v] \in Nat /\ age'[v] = age[v] + 1
          /\ age[v] < IF At(v, "requeue", "asleep") THEN Interval ELSE RoundTime
      BY <1>0, <1>10, <2>2 DEF Tick, TypeOK
    <3>3. Wait(v) \in Nat /\ Wait(v) > 0 /\ Wait(v)' = Wait(v) - 1
      BY <1>0, <2>1, <3>2 DEF Wait, At
    <3>4. ttl > 1
      BY <1>0, <3>1, <3>3
    <3>5. holder' = v /\ ttl' = ttl - 1
      BY <1>10, <2>2, <3>1, <3>4 DEF Tick
    <3> QED  BY <1>0, <2>1, <3>1, <3>3, <3>5
  <2>3. ASSUME NEW v \in Worker, holder' = v, Alive(v)'
        PROVE  ttl' > Wait(v)' + Slack(fails'[v])
    <3>1. holder = v /\ Alive(v)
      BY <1>10, <2>1, <2>3, ConstantFacts DEF Tick, Alive, At
    <3> QED  BY <2>2, <3>1
  <2> QED  BY <2>3 DEF KeyOutlivesWait
<1>11. CASE UNCHANGED vars
  BY <1>0, <1>11
     DEF vars, KeyOutlivesWait, Alive, At, Wait
<1> QED
  BY <1>2, <1>3, <1>4, <1>5, <1>6, <1>7, <1>8, <1>9, <1>10, <1>11 DEF Next, LoopStep

-----------------------------------------------------------------------------
(* Who is stranded *)

\* A tick takes the key only from a worker that is dead.
LEMMA TickSparesTheLiving ==
  ASSUME Basic, KeyOutlivesWait, Tick, holder # None, holder' # holder
  PROVE  ~Alive(holder)
<1> SUFFICES ASSUME Alive(holder) PROVE FALSE
  OBVIOUS
<1>1. ttl = 1
  BY DEF Tick
<1>2. /\ holder \in Worker
      /\ Wait(holder) \in Nat /\ Slack(fails[holder]) \in Nat
      /\ ttl > Wait(holder) + Slack(fails[holder])
  BY LeaderHasTime
<1>3. /\ age[holder] \in Nat
      /\ age[holder] < IF At(holder, "requeue", "asleep") THEN Interval
                       ELSE RoundTime
  BY <1>2 DEF Tick, Basic, TypeOK
<1>4. Wait(holder) > 0
  BY <1>3, ConstantFacts DEF Wait, Period
<1> QED  BY <1>1, <1>2, <1>4

\* Whoever leads is alive.
LEMMA LeadingAlive ==
  ASSUME Basic, NEW w \in Worker, NEW l \in Loop, Leading(w, l)
  PROVE  Alive(w)
BY DEF Basic, DownTogether, Leading, At

\* A step of one loop strands nobody: who starts to lead holds the key.
LEMMA LoopStrands ==
  ASSUME Basic, NEW w \in Worker, NEW l \in Loop, LoopStep(w, l) \/ RoundFails(w, l)
  PROVE  Stranded' \subseteq Stranded
<1>1. PICK place \in Places :
        /\ Goto(w, l, place)
        /\ holder' = holder \/ (holder = None /\ holder' = w)
        /\ place \in {"renew", "extend", "work"} => holder' = w \/ Leading(w, l)
  BY DEF LoopStep, TrySet, TryGet, Leads, RenewGet, Extend, Finish, RoundFails,
         Leading, At, Places
<1> SUFFICES ASSUME NEW v \in Worker, v # holder', NEW k \in Loop, Leading(v, k)'
             PROVE  v \in Stranded
  BY DEF Stranded
<1>2. Leading(v, k)
  BY <1>1, GotoFacts DEF Basic, Leading
<1>3. v # holder
  BY <1>1, ConstantFacts
<1> QED  BY <1>2, <1>3 DEF Stranded

\* Only a stall strands a worker, the holder; every other change of hands is from a
\* dead worker or from none.
LEMMA NextStrands ==
  ASSUME Basic, KeyOutlivesWait, [Next]_vars
  PROVE  \/ Stranded' \subseteq Stranded /\ stalls' = stalls
         \/ /\ Stranded' \subseteq Stranded \cup {holder}
            /\ stalls' = stalls + 1
<1>1. CASE Stall
  <2>1. stalls' = stalls + 1 /\ UNCHANGED pc
    BY <1>1 DEF Stall, Basic, TypeOK
  <2> QED  BY <2>1 DEF Stranded, Leading
<1>2. ASSUME NEW w \in Worker, NEW l \in Loop, LoopStep(w, l) \/ RoundFails(w, l)
      PROVE  Stranded' \subseteq Stranded /\ stalls' = stalls
  <2>1. stalls' = stalls
    BY <1>2
       DEF LoopStep, TrySet, TryGet, RenewGet, Extend, Finish, RoundFails, Basic, TypeOK
  <2> QED  BY <1>2, <2>1, LoopStrands
<1>3. ASSUME NEW w \in Worker, Crash(w)
      PROVE  Stranded' \subseteq Stranded /\ stalls' = stalls
  <2>1. /\ \A l \in Loop : pc'[w][l] = "down"
        /\ \A v \in Worker \ {w} : pc'[v] = pc[v]
        /\ UNCHANGED <<holder, stalls>>
    BY <1>3 DEF Crash, Basic, TypeOK
  <2> QED  BY <2>1 DEF Stranded, Leading
<1>4. CASE Tick
  <2> SUFFICES ASSUME NEW v \in Worker, v # holder', NEW l \in Loop, Leading(v, l)'
               PROVE  v \in Stranded
    BY <1>4 DEF Stranded, Tick
  <2>1. Leading(v, l) /\ Alive(v)
    BY <1>4, LeadingAlive DEF Tick, Leading
  <2>2. v # holder
    BY <1>4, <2>1, TickSparesTheLiving, ConstantFacts
  <2> QED  BY <2>1, <2>2 DEF Stranded
<1>5. CASE UNCHANGED vars
  BY <1>5 DEF vars, Stranded, Leading
<1> QED  BY <1>1, <1>2, <1>3, <1>4, <1>5 DEF Next

LEMMA NextInv == ASSUME Inv, [Next]_vars PROVE Inv'
<1>1. Basic /\ KeyOutlivesWait /\ StrandedByStalls
  BY DEF Inv, Basic
<1>2. Basic' /\ KeyOutlivesWait'
  BY <1>1, NextBasic, NextOutlives
<1>3. StrandedByStalls'
  <2>1. IsFiniteSet(Stranded) /\ Cardinality(Stranded) \in Nat
    BY FS_Subset, FS_CardinalityType, LeaderAssumption DEF Stranded
  <2>2. IsFiniteSet(Stranded') /\ Cardinality(Stranded') \in Nat
    BY FS_Subset, FS_CardinalityType, LeaderAssumption DEF Stranded
  <2>3. stalls \in Nat
    BY <1>1 DEF Basic, TypeOK
  <2>4. CASE Stranded' \subseteq Stranded /\ stalls' = stalls
    <3>1. Cardinality(Stranded') <= Cardinality(Stranded)
      BY <2>1, <2>4, FS_Subset
    <3> QED  BY <1>1, <2>1, <2>2, <2>3, <2>4, <3>1 DEF StrandedByStalls
  <2>5. CASE /\ Stranded' \subseteq Stranded \cup {holder}
             /\ stalls' = stalls + 1
    <3>1. /\ IsFiniteSet(Stranded \cup {holder})
          /\ Cardinality(Stranded \cup {holder}) <= Cardinality(Stranded) + 1
          /\ Cardinality(Stranded \cup {holder}) \in Nat
      <4>1. /\ IsFiniteSet(Stranded \cup {holder})
            /\ Cardinality(Stranded \cup {holder})
                 = IF holder \in Stranded THEN Cardinality(Stranded)
                                          ELSE Cardinality(Stranded) + 1
        BY <2>1, FS_AddElement
      <4> QED  BY <2>1, <4>1
    <3>2. Cardinality(Stranded') <= Cardinality(Stranded \cup {holder})
      BY <2>5, <3>1, FS_Subset
    <3> QED  BY <1>1, <2>1, <2>2, <2>3, <2>5, <3>1, <3>2 DEF StrandedByStalls
  <2> QED  BY <1>1, <2>4, <2>5, NextStrands
<1> QED  BY <1>2, <1>3 DEF Inv, Basic

THEOREM LeaderSafety == Spec => []Inv
<1>1. Inv /\ [Next]_vars => Inv'
  BY NextInv
<1> QED  BY InitInv, <1>1, PTL DEF Spec

\* Each stall leaves at most one worker behind that works as leader without the key,
\* for any number of workers, stalls, deaths and failed rounds.
THEOREM StallsStrand == Spec => []StrandedByStalls
<1>1. Inv => StrandedByStalls
  BY DEF Inv
<1> QED  BY LeaderSafety, <1>1, PTL

\* One worker at a time leads, as long as none is held up for the life of the key.
THEOREM OneLeader == Spec => []SoleLeader
<1>1. ASSUME Inv, stalls = 0 PROVE LeadersAgree
  <2>1. IsFiniteSet(Stranded) /\ Cardinality(Stranded) \in Nat
    BY FS_Subset, FS_CardinalityType, LeaderAssumption DEF Stranded
  <2>2. Cardinality(Stranded) = 0
    BY <1>1, <2>1 DEF Inv, StrandedByStalls
  <2>3. Stranded = {}
    BY <2>1, <2>2, FS_EmptySet
  <2>4. \A w \in Worker, l \in Loop : Leading(w, l) => w = holder
    BY <2>3 DEF Stranded
  <2> QED  BY <2>4 DEF LeadersAgree
<1>2. Inv => SoleLeader
  BY <1>1 DEF SoleLeader
<1> QED  BY LeaderSafety, <1>2, PTL

\* And it leads until it dies or is held up, whatever was held up before.
THEOREM LeadsUntilDeath == Spec => HandsOverAfterDeath
<1>1. ASSUME Inv, [Next]_vars, holder # None, holder' # holder, Alive(holder)
      PROVE  stalls' # stalls
  <2>1. Basic /\ KeyOutlivesWait
    BY <1>1 DEF Inv, Basic
  <2>2. CASE Tick
    BY <1>1, <2>1, <2>2, TickSparesTheLiving
  <2>3. CASE Stall
    <3>1. stalls \in Nat /\ stalls' = stalls + 1
      BY <2>1, <2>3 DEF Stall, Basic, TypeOK
    <3> QED  BY <3>1
  <2>4. CASE UNCHANGED vars
    BY <1>1, <2>4 DEF vars
  <2>5. ASSUME NEW w \in Worker, Crash(w) PROVE FALSE
    BY <1>1, <2>5 DEF Crash
  <2>6. ASSUME NEW w \in Worker, NEW l \in Loop, LoopStep(w, l) \/ RoundFails(w, l)
        PROVE  FALSE
    BY <1>1, <2>6
       DEF LoopStep, TrySet, TryGet, RenewGet, Extend, Finish, RoundFails
  <2> QED  BY <1>1, <2>2, <2>3, <2>4, <2>5, <2>6 DEF Next
<1>2. Inv /\ [Next]_vars =>
        [holder # None /\ holder' # holder =>
           ~Alive(holder) \/ stalls' # stalls]_vars
  BY <1>1
<1> QED  BY LeaderSafety, <1>2, PTL DEF Spec, HandsOverAfterDeath

\* The key, its life and the loops keep their types.
THEOREM LeaderTypes == Spec => []TypeOK
<1>1. Inv => TypeOK
  BY DEF Inv
<1> QED  BY LeaderSafety, <1>1, PTL

=============================================================================
