-------------------------------- MODULE Leader --------------------------------
(***************************************************************************)
(* Leader election among the workers of the server (app/cache/keydb.py,    *)
(* try_become_leader and renew_leadership) as the background loops use it  *)
(* (app/background/tasks.py).                                              *)
(*                                                                         *)
(* The key pool:leader names a worker and lives for 30 s.  Each worker     *)
(* runs several loops; each round of a loop asks whether its worker leads, *)
(* extends the key and does its work, whatever the extension answered.     *)
(* Only the requeue loop comes back often enough (every 5 s) to keep the   *)
(* key alive; the others ask every few minutes and may take any time.      *)
(* Time passes in ticks.                                                   *)
(***************************************************************************)
EXTENDS Integers, FiniteSets

CONSTANTS
  Worker,     \* the processes of the server
  SlowLoop,   \* the loops other than requeue: "persist", "telegram"
  None,       \* no worker: the key does not exist
  Ttl,        \* _LEADER_TTL, in ticks
  Interval,   \* REQUEUE_INTERVAL, in ticks
  RoundTime,  \* the longest that a round of the requeue loop takes, in ticks
  MaxFails,   \* bound: requeue rounds of a worker cut short by exceptions in a row
  MaxStalls   \* bound: times the key expires because its worker is held up

Loop == {"requeue"} \cup SlowLoop

\* The key outlives the requeue rounds that may fail in a row, and one more.
ASSUME LeaderAssumption ==
  /\ IsFiniteSet(Worker)
  /\ SlowLoop \subseteq {"persist", "telegram"}
  /\ None \notin Worker
  /\ Interval \in Nat /\ RoundTime \in Nat /\ MaxFails \in Nat /\ MaxStalls \in Nat
  /\ Ttl \in Nat
  /\ Ttl > RoundTime + (MaxFails + 1) * (Interval + RoundTime)

VARIABLES
  holder,   \* the value of pool:leader
  ttl,      \* the ticks it has left; 0: it does not expire
  pc,       \* where each loop of each worker is
  age,      \* ticks since the requeue loop fell asleep, or woke up
  fails,    \* for each worker: its requeue rounds in a row that were cut short
  stalls    \* how often the key has expired because its worker was held up

vars == <<holder, ttl, pc, age, fails, stalls>>

At(w, l, place) == pc[w][l] = place
Alive(w) == ~At(w, "requeue", "down")

\* The requeue loop sleeps for its interval, a slow loop for any time.
Due(w, l) == At(w, l, "asleep") /\ (l = "requeue" => age[w] = Interval)

\* Loop l of w goes to a place; the clock of the requeue loop restarts when it
\* falls asleep or wakes up.
Goto(w, l, place) == pc' = [pc EXCEPT ![w] = [@ EXCEPT ![l] = place]]
Restart(w, l) == age' = IF l = "requeue" THEN [age EXCEPT ![w] = 0] ELSE age

\* The round of loop l has come to its work, or to the end without leading.
GetsThrough(w, l) ==
  fails' = IF l = "requeue" THEN [fails EXCEPT ![w] = 0] ELSE fails

Init ==
  /\ holder = None /\ ttl = 0
  /\ pc = [w \in Worker |-> [l \in Loop |-> "asleep"]]
  /\ age \in [Worker -> 0 .. Interval]
  /\ fails = [w \in Worker |-> 0] /\ stalls = 0

-----------------------------------------------------------------------------
(* One round of a loop.  The definition before one that is used is a variant *)
(* with a bug.                                                               *)

\* The key's life after SET NX EX and after EXPIRE.
LifeForever == 0
Life == Ttl

\* SET pool:leader NX EX.
TrySet(w, l) ==
  /\ Due(w, l)
  /\ IF holder = None
     THEN holder' = w /\ ttl' = Life /\ Goto(w, l, "renew")
     ELSE UNCHANGED <<holder, ttl>> /\ Goto(w, l, "get")
  /\ Restart(w, l)
  /\ UNCHANGED <<fails, stalls>>

LeadsAnyone(w) == holder # None
Leads(w) == holder = w

\* SET found a key: does it name this worker?
TryGet(w, l) ==
  /\ At(w, l, "get")
  /\ \/ Leads(w) /\ Goto(w, l, "renew") /\ UNCHANGED <<age, fails>>
     \/ ~Leads(w) /\ Goto(w, l, "asleep") /\ Restart(w, l) /\ GetsThrough(w, l)
  /\ UNCHANGED <<holder, ttl, stalls>>

\* renew_leadership reads the key again.  The loops do not look at its result.
RenewGet(w, l) ==
  /\ At(w, l, "renew")
  /\ \/ holder = w /\ Goto(w, l, "extend") /\ UNCHANGED fails
     \/ holder # w /\ Goto(w, l, "work") /\ GetsThrough(w, l)
  /\ UNCHANGED <<holder, ttl, age, stalls>>

ExtendedNot == ttl
ExtendedAnyway == Ttl
Extended == IF holder = None THEN ttl ELSE Ttl

\* EXPIRE, whoever the key names by now; none if it is gone.
Extend(w, l) ==
  /\ At(w, l, "extend")
  /\ ttl' = Extended
  /\ Goto(w, l, "work") /\ GetsThrough(w, l)
  /\ UNCHANGED <<holder, age, stalls>>

\* The work is done, or raises.
Finish(w, l) ==
  /\ At(w, l, "work")
  /\ Goto(w, l, "asleep") /\ Restart(w, l)
  /\ UNCHANGED <<holder, ttl, fails, stalls>>

\* A call to KeyDB raises: the loop logs it and sleeps for its interval.  A slow
\* loop may fail any number of times in a row.
RoundFails(w, l) ==
  /\ Due(w, l) \/ pc[w][l] \in {"get", "renew", "extend"}
  /\ \/ /\ l = "requeue" /\ fails[w] < MaxFails
        /\ fails' = [fails EXCEPT ![w] = @ + 1]
     \/ l # "requeue" /\ UNCHANGED fails
  /\ Goto(w, l, "asleep") /\ Restart(w, l)
  /\ UNCHANGED <<holder, ttl, stalls>>

-----------------------------------------------------------------------------
(* What happens to the workers and the key *)

\* A worker dies.  One started in its place has a pid of its own: it is another.
Crash(w) ==
  /\ Alive(w)
  /\ pc' = [pc EXCEPT ![w] = [l \in Loop |-> "down"]]
  /\ UNCHANGED <<holder, ttl, age, fails, stalls>>

\* The key expires although its worker lives: it was held up, or cut off, for
\* longer than Ttl.
Stall ==
  /\ holder # None
  /\ stalls < MaxStalls /\ stalls' = stalls + 1
  /\ holder' = None /\ ttl' = 0
  /\ UNCHANGED <<pc, age, fails>>

\* A tick passes when no requeue loop has to act first.
Tick ==
  /\ \A w \in Worker : Alive(w) =>
       age[w] < IF At(w, "requeue", "asleep") THEN Interval ELSE RoundTime
  /\ holder' = IF ttl = 1 THEN None ELSE holder
  /\ ttl' = IF ttl = 0 THEN 0 ELSE ttl - 1
  /\ age' = [w \in Worker |-> IF Alive(w) THEN age[w] + 1 ELSE age[w]]
  /\ UNCHANGED <<pc, fails, stalls>>

-----------------------------------------------------------------------------
LoopStep(w, l) ==
  \/ TrySet(w, l)
  \/ TryGet(w, l)
  \/ RenewGet(w, l)
  \/ Extend(w, l)
  \/ Finish(w, l)

Next ==
  \/ \E w \in Worker, l \in Loop : LoopStep(w, l) \/ RoundFails(w, l)
  \/ \E w \in Worker : Crash(w)
  \/ Stall
  \/ Tick

Spec == Init /\ [][Next]_vars

\* asyncio runs every loop on, and time passes.
Fairness ==
  /\ WF_vars(Tick)
  /\ \A w \in Worker, l \in Loop : WF_vars(LoopStep(w, l))

FairSpec == Spec /\ Fairness

-----------------------------------------------------------------------------
(* Properties *)

Places == {"asleep", "get", "renew", "extend", "work", "down"}

\* Type correctness; a key that nobody wrote has no life left.
TypeOK ==
  /\ holder \in Worker \cup {None} /\ ttl \in 0 .. Ttl
  /\ holder = None => ttl = 0
  /\ pc \in [Worker -> [Loop -> Places]]
  /\ age \in [Worker -> Nat]
  /\ fails \in [Worker -> 0 .. MaxFails] /\ stalls \in Nat

\* The loop has been told that its worker leads, and has not finished.
Leading(w, l) == pc[w][l] \in {"renew", "extend", "work"}

LeadersAgree ==
  \A v, w \in Worker, k, l \in Loop : Leading(v, k) /\ Leading(w, l) => v = w

\* As long as no worker is held up for the life of the key, only one worker works
\* as leader: the requeue loop keeps the key alive for the slow loops, however long
\* they take and even when some of its rounds fail.
SoleLeader == stalls = 0 => LeadersAgree

\* Those who work as leader although the key does not name them.
Stranded == {w \in Worker : w # holder /\ \E l \in Loop : Leading(w, l)}

\* Each time a worker is held up leaves at most one worker behind that still works as
\* leader: rounds that fail, workers that die and EXPIREs that land on the key of a
\* successor add none.
StrandedByStalls == Cardinality(Stranded) <= stalls

\* The leadership passes on only when the leader has died, or is held up now: also
\* after it was taken over from one that was.
HandsOverAfterDeath ==
  [][holder # None /\ holder' # holder =>
       ~Alive(holder) \/ stalls' # stalls]_vars

\* Whatever workers die, requeue rounds go on as long as one lives.
RequeueGoesOn ==
  []<>((\A w \in Worker : ~Alive(w)) \/ \E w \in Worker : At(w, "requeue", "work"))

\* After a stall two workers may both work as leaders, but not for ever.
LeadersAgreeAgain == <>[]LeadersAgree

-----------------------------------------------------------------------------
(* What these rest on: the key outlives the time that the requeue loop of its *)
(* worker may take to extend it.                                              *)

Period == Interval + RoundTime

\* The ticks the requeue loop of w may still take to its next EXPIRE.
Wait(w) ==
  IF At(w, "requeue", "asleep") THEN Interval - age[w] + RoundTime
  ELSE IF At(w, "requeue", "work") THEN RoundTime - age[w] + Period
  ELSE RoundTime - age[w]

AgeBounded ==
  \A w \in Worker : Alive(w) =>
    age[w] <= IF At(w, "requeue", "asleep") THEN Interval ELSE RoundTime

\* The ticks that rounds still to fail may cost, after n in a row.
Slack(n) == (MaxFails - n) * Period

KeyOutlivesWait ==
  \A w \in Worker : holder = w /\ Alive(w) => ttl > Wait(w) + Slack(fails[w])

DownTogether == \A w \in Worker : ~Alive(w) => \A l \in Loop : At(w, l, "down")

Inv ==
  TypeOK /\ AgeBounded /\ DownTogether /\ KeyOutlivesWait /\ StrandedByStalls

=============================================================================
