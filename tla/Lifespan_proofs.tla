--------------------------- MODULE Lifespan_proofs ---------------------------
(***************************************************************************)
(* What the shutdown and the pool of connections promise, for any number   *)
(* of workers, tasks and connections.                                      *)
(*                                                                         *)
(* The inductive invariant says of each worker where its connections are,  *)
(* that _in_flight counts the tasks that hold one, and that _all_returned  *)
(* is set during a shutdown only after all of the earlier ones returned.   *)
(* The first administrator needs an invariant of its own.                  *)
(***************************************************************************)
EXTENDS Lifespan, FiniteSetTheorems, TLAPS

\* The tasks that hold a connection according to u, the use of one worker.
HoldersIn(u) == {t \in Task : u[t].pc \in {"hold", "discard"}}

\* Every connection is in the queue F, closed C, closing g or in the use u, and only there.
Places(F, C, g, u) ==
  /\ F \cap C = {} /\ g \notin F \cup C
  /\ \A t \in Task : /\ u[t].conn \notin F \cup C
                     /\ u[t].conn # None => u[t].conn # g
                     /\ \A s \in Task : u[s].conn = u[t].conn /\ u[s].conn # None => s = t
  /\ \A c \in Conn : c \in F \cup C \/ c = g \/ \E t \in Task : u[t].conn = c

Placed(w) ==
  /\ Places(free[w], closed[w], closing[w], use[w])
  /\ life[w] = "down" => free[w] = {}
Counted(w) == inFlight[w] = Cardinality(HoldersIn(use[w]))

\* What is left of those that had a connection when the shutdown began.
Drains(w) ==
  /\ early[w] \subseteq HoldersIn(use[w])
  /\ life[w] \in {"drain", "close", "down"} => w \in overdue \/ early[w] = {}
  /\ life[w] = "wait" /\ returned[w] => w \in overdue \/ early[w] = {}

PoolInv == \A w \in Worker : Placed(w) /\ Counted(w) /\ Drains(w)
Inv == LifespanTypeOK /\ PoolInv

-----------------------------------------------------------------------------
(* Lemmas about one pool *)

\* The use of a pool.
Uses == [Task -> UseState]

LEMMA FreshPlaces ==
  ASSUME NEW F \in SUBSET Conn
  PROVE  Places(F, Conn \ F, None, [t \in Task |-> Free])
BY LifespanAssumption DEF Places, Free

LEMMA TakePlaces ==
  ASSUME NEW F \in SUBSET Conn, NEW C \in SUBSET Conn, NEW g \in Conn \cup {None},
         NEW u \in Uses, Places(F, C, g, u), NEW t \in Task, u[t].conn = None, NEW c \in F
  PROVE  Places(F \ {c}, C, g, [u EXCEPT ![t] = [pc |-> "hold", conn |-> c]])
<1> DEFINE v == [u EXCEPT ![t] = [pc |-> "hold", conn |-> c]]
<1>1. v[t].conn = c /\ \A s \in Task \ {t} : v[s] = u[s]
  BY DEF Uses
<1> None \notin Conn
  BY LifespanAssumption
<1> HIDE DEF v
<1>2. \A s \in Task \ {t} : u[s].conn # c
  BY DEF Places
<1>3. \A d \in Conn : \/ d \in (F \ {c}) \cup C \/ d = g
                     \/ \E s \in Task : v[s].conn = d
  BY <1>1 DEF Places
<1>4. /\ (F \ {c}) \cap C = {} /\ g \notin (F \ {c}) \cup C
      /\ c # g /\ c \notin C
  BY DEF Places
<1>5. ASSUME NEW s \in Task
      PROVE  /\ v[s].conn \notin (F \ {c}) \cup C
             /\ v[s].conn # None => v[s].conn # g
             /\ \A r \in Task : v[r].conn = v[s].conn /\ v[r].conn # None => r = s
  BY <1>1, <1>2, <1>4 DEF Places
<1> QED
  BY <1>3, <1>4, <1>5 DEF Places, v

LEMMA GivePlaces ==
  ASSUME NEW F \in SUBSET Conn, NEW C \in SUBSET Conn, NEW g \in Conn \cup {None},
         NEW u \in Uses, Places(F, C, g, u), NEW t \in Task, u[t].conn \in Conn
  PROVE  LET v == [u EXCEPT ![t] = [pc |-> "out", conn |-> None]]
         IN  /\ Places(F \cup {u[t].conn}, C, g, v)
             /\ Places(F, C \cup {u[t].conn}, g, v)
<1> DEFINE v == [u EXCEPT ![t] = [pc |-> "out", conn |-> None]]
<1>1. v[t].conn = None /\ \A s \in Task \ {t} : v[s] = u[s]
  BY DEF Uses
<1> None \notin Conn
  BY LifespanAssumption
<1> HIDE DEF v
<1>2. Places(F \cup {u[t].conn}, C, g, v)
  BY <1>1 DEF Places
<1>3. Places(F, C \cup {u[t].conn}, g, v)
  BY <1>1 DEF Places
<1> QED
  BY <1>2, <1>3 DEF v

LEMMA KeepPlaces ==
  ASSUME NEW F, NEW C, NEW g, NEW u \in Uses, Places(F, C, g, u), NEW t \in Task, NEW p
  PROVE  Places(F, C, g, [u EXCEPT ![t] = [pc |-> p, conn |-> u[t].conn]])
<1> DEFINE v == [u EXCEPT ![t] = [pc |-> p, conn |-> u[t].conn]]
<1>1. \A s \in Task : v[s].conn = u[s].conn
  BY DEF Uses
<1> HIDE DEF v
<1> QED
  BY <1>1 DEF Places

LEMMA ClosePlaces ==
  ASSUME NEW F \in SUBSET Conn, NEW C \in SUBSET Conn, NEW u \in Uses,
         Places(F, C, None, u), NEW c \in F
  PROVE  Places(F \ {c}, C, c, u)
BY LifespanAssumption DEF Places

LEMMA ClosedPlaces ==
  ASSUME NEW F \in SUBSET Conn, NEW C \in SUBSET Conn, NEW u \in Uses, NEW g \in Conn,
         Places(F, C, g, u)
  PROVE  Places(F, C \cup {g}, None, u)
<1> None \notin Conn
  BY LifespanAssumption
<1> QED
  BY DEF Places

\* How the holders, and their number, follow a task.
LEMMA HoldersFresh == HoldersIn([t \in Task |-> Free]) = {} /\ Cardinality({}) = 0
BY FS_EmptySet DEF HoldersIn, Free

LEMMA HoldersFinite ==
  ASSUME NEW u
  PROVE  IsFiniteSet(HoldersIn(u)) /\ Cardinality(HoldersIn(u)) \in Nat
<1>1. HoldersIn(u) \subseteq Task /\ IsFiniteSet(Task)
  BY LifespanAssumption DEF HoldersIn
<1> QED
  BY <1>1, FS_Subset, FS_CardinalityType

LEMMA HoldersGain ==
  ASSUME NEW u \in Uses, NEW t \in Task, t \notin HoldersIn(u), NEW c
  PROVE  LET v == [u EXCEPT ![t] = [pc |-> "hold", conn |-> c]]
         IN  /\ HoldersIn(v) = HoldersIn(u) \cup {t}
             /\ Cardinality(HoldersIn(v)) = Cardinality(HoldersIn(u)) + 1
<1> DEFINE v == [u EXCEPT ![t] = [pc |-> "hold", conn |-> c]]
<1>1. v[t].pc = "hold" /\ \A s \in Task \ {t} : v[s] = u[s]
  BY DEF Uses
<1> HIDE DEF v
<1>2. HoldersIn(v) = HoldersIn(u) \cup {t}
  BY <1>1 DEF HoldersIn
<1> QED
  BY <1>2, HoldersFinite, FS_AddElement DEF v

LEMMA HoldersLose ==
  ASSUME NEW u \in Uses, NEW t \in HoldersIn(u), NEW c
  PROVE  LET v == [u EXCEPT ![t] = [pc |-> "out", conn |-> c]]
         IN  /\ HoldersIn(v) = HoldersIn(u) \ {t}
             /\ Cardinality(HoldersIn(v)) = Cardinality(HoldersIn(u)) - 1
             /\ Cardinality(HoldersIn(u)) >= 1
             /\ Cardinality(HoldersIn(v)) <= 0 => HoldersIn(v) = {}
<1> DEFINE v == [u EXCEPT ![t] = [pc |-> "out", conn |-> c]]
<1> t \in Task
  BY DEF HoldersIn
<1>1. v[t].pc = "out" /\ \A s \in Task \ {t} : v[s] = u[s]
  BY DEF Uses
<1> HIDE DEF v
<1>2. HoldersIn(v) = HoldersIn(u) \ {t}
  BY <1>1 DEF HoldersIn
<1>3. Cardinality(HoldersIn(v)) = Cardinality(HoldersIn(u)) - 1
  BY <1>2, HoldersFinite, FS_RemoveElement
<1>4. Cardinality(HoldersIn(v)) \in Nat /\ Cardinality(HoldersIn(u)) \in Nat
  BY HoldersFinite
<1>5. Cardinality(HoldersIn(v)) = 0 => HoldersIn(v) = {}
  BY HoldersFinite, FS_EmptySet
<1>6. /\ Cardinality(HoldersIn(u)) >= 1
      /\ Cardinality(HoldersIn(v)) <= 0 => HoldersIn(v) = {}
  BY <1>3, <1>4, <1>5
<1> QED
  BY <1>2, <1>3, <1>6 DEF v

-----------------------------------------------------------------------------
(* Each action *)

\* What the steps of one worker leave to the others.
LEMMA OthersKeep ==
  ASSUME PoolInv, NEW w \in Worker,
         \A v \in Worker \ {w} :
           /\ life'[v] = life[v] /\ free'[v] = free[v] /\ closed'[v] = closed[v]
           /\ closing'[v] = closing[v] /\ inFlight'[v] = inFlight[v]
           /\ returned'[v] = returned[v] /\ use'[v] = use[v] /\ early'[v] = early[v]
           /\ v \in overdue' <=> v \in overdue,
         Placed(w)', Counted(w)', Drains(w)'
  PROVE  PoolInv'
<1> SUFFICES ASSUME NEW v \in Worker \ {w}
             PROVE  Placed(v)' /\ Counted(v)' /\ Drains(v)'
  BY DEF PoolInv
<1>1. Placed(v) /\ Counted(v) /\ Drains(v)
  BY DEF PoolInv
<1>2. Placed(v)'
  BY <1>1 DEF Placed
<1>3. Counted(v)'
  BY <1>1 DEF Counted
<1>4. Drains(v)'
  BY <1>1 DEF Drains
<1> QED
  BY <1>2, <1>3, <1>4

\* The worker w is replaced by a process, or by none.
LEMMA ProcessKeeps ==
  ASSUME Inv, NEW w \in Worker, NEW F \in SUBSET Conn, Process(w, F), NEW l, Goes(w, l),
         \/ l = "down" /\ F = {}
         \/ l = "list"
  PROVE  PoolInv' /\ life' \in [Worker -> Life] /\ free' \in [Worker -> SUBSET Conn]
         /\ closed' \in [Worker -> SUBSET Conn] /\ closing' \in [Worker -> Conn \cup {None}]
         /\ (\A v \in Worker : life'[v] = "close" <=> closing'[v] # None)
         /\ inFlight' \in [Worker -> Nat] /\ returned' \in [Worker -> BOOLEAN]
         /\ use' \in [Worker -> [Task -> UseState]]
         /\ early' \in [Worker -> SUBSET Task] /\ overdue' \subseteq Worker
<1> USE DEF Inv, LifespanTypeOK, Process, Goes
<1>1. /\ free'[w] = F /\ closed'[w] = Conn \ F /\ closing'[w] = None /\ inFlight'[w] = 0
      /\ use'[w] = [t \in Task |-> Free] /\ early'[w] = {} /\ life'[w] = l
  OBVIOUS
<1>2. Placed(w)'
  BY <1>1, FreshPlaces DEF Placed
<1>3. Counted(w)'
  BY <1>1, HoldersFresh DEF Counted
<1>4. Drains(w)'
  BY <1>1 DEF Drains
<1>5. PoolInv'
  BY <1>2, <1>3, <1>4, OthersKeep
<1>6. [t \in Task |-> Free] \in [Task -> UseState]
  BY DEF UseState
<1>7. \A v \in Worker : life'[v] = "close" <=> closing'[v] # None
  BY <1>1
<1> QED
  BY <1>5, <1>6, <1>7 DEF Life

LEMMA InvInit == Init => Inv
<1> SUFFICES ASSUME Init PROVE Inv
  OBVIOUS
<1> USE DEF Init
<1>1. LifespanTypeOK
  BY LifespanAssumption DEF LifespanTypeOK, UseState, Free, Life
<1>2. ASSUME NEW w \in Worker PROVE Placed(w) /\ Counted(w) /\ Drains(w)
  <2>1. Placed(w)
    <3>1. Places({}, Conn \ {}, None, [t \in Task |-> Free])
      BY FreshPlaces
    <3> QED
      BY <3>1 DEF Placed
  <2>2. Counted(w) /\ Drains(w)
    BY HoldersFresh DEF Counted, Drains
  <2> QED
    BY <2>1, <2>2
<1> QED
  BY <1>1, <1>2 DEF Inv, PoolInv

\* Starting leaves the pool alone once it has been opened.
LEMMA StartKeeps ==
  ASSUME Inv, NEW w \in Worker, StartStep(w)
  PROVE  Inv'
<1>1. CASE Launch(w)
  BY <1>1, ProcessKeeps DEF Launch, Inv, LifespanTypeOK, dbVars
<1>2. CASE CreateUserFails(w)
  BY <1>2, ProcessKeeps DEF CreateUserFails, Inv, LifespanTypeOK, dbVars
<1>3. CASE ListUsers(w) \/ CreateUser(w) \/ CreateKey(w)
  <2>1. PICK l \in {"serve", "create", "key"} : Goes(w, l)
    BY <1>3 DEF ListUsers, CreateUser, CreateKey
  <2>2. life[w] \in {"list", "create", "key"} /\ UNCHANGED poolVars
    BY <1>3 DEF ListUsers, CreateUser, CreateKey
  <2>3. LifespanTypeOK'
    BY <1>3, <2>1, <2>2
    DEF Inv, LifespanTypeOK, Life, Goes, poolVars, ListUsers, CreateUser, CreateKey, dbVars
  <2>4. Placed(w)' /\ Counted(w)' /\ Drains(w)'
    BY <2>1, <2>2
    DEF Inv, LifespanTypeOK, PoolInv, Placed, Counted, Drains, Goes, poolVars
  <2>5. PoolInv'
    BY <2>1, <2>2, <2>4, OthersKeep DEF Inv, LifespanTypeOK, Goes, poolVars
  <2> QED
    BY <2>3, <2>5 DEF Inv
<1> QED
  BY <1>1, <1>2, <1>3 DEF StartStep

LEMMA CrashKeeps ==
  ASSUME Inv, NEW w \in Worker, Crash(w)
  PROVE  Inv'
BY ProcessKeeps DEF Crash, Inv, LifespanTypeOK, dbVars

\* A shutdown notes who has a connection, and waits only if somebody has.
LEMMA StopKeeps ==
  ASSUME Inv, NEW w \in Worker, Stop(w)
  PROVE  Inv'
<1> USE DEF Inv, LifespanTypeOK
<1>1. /\ life'[w] = (IF inFlight[w] > 0 THEN "wait" ELSE "drain")
      /\ early'[w] = HoldersIn(use[w])
      /\ returned'[w] = (returned[w] /\ inFlight[w] = 0)
  BY DEF Stop, Goes, Holders, Holds, HoldersIn
<1>2. LifespanTypeOK'
  BY <1>1 DEF Stop, Goes, Life, Holders, dbVars
<1>3. Placed(w)' /\ Counted(w)'
  BY <1>1 DEF Stop, PoolInv, Placed, Counted
<1>4. inFlight[w] = 0 => HoldersIn(use[w]) = {}
  BY HoldersFinite, FS_EmptySet DEF PoolInv, Counted
<1>5. /\ life'[w] = "drain" => early'[w] = {}
      /\ life'[w] = "wait" => ~returned'[w]
      /\ life'[w] \in {"wait", "drain"}
  <2>1. inFlight[w] \in Nat
    OBVIOUS
  <2>2. CASE inFlight[w] = 0
    <3>1. life'[w] = "drain"
      BY <1>1, <2>2
    <3>2. early'[w] = {}
      BY <1>1, <1>4, <2>2
    <3> QED
      BY <3>1, <3>2
  <2>3. CASE inFlight[w] > 0
    <3>1. life'[w] = "wait" /\ inFlight[w] # 0
      BY <1>1, <2>1, <2>3
    <3>2. ~returned'[w]
      BY <1>1, <3>1
    <3> QED
      BY <3>1, <3>2
  <2> QED
    BY <2>1, <2>2, <2>3
<1>6. use' = use
  BY DEF Stop
<1>7. Drains(w)'
  BY <1>1, <1>5, <1>6 DEF Drains
<1> QED
  BY <1>2, <1>3, <1>7, OthersKeep DEF Stop, Goes

LEMMA EndKeeps ==
  ASSUME Inv, NEW w \in Worker, EndStep(w)
  PROVE  Inv'
<1> USE DEF Inv, LifespanTypeOK
<1>0. Placed(w) /\ Counted(w) /\ Drains(w)
  BY DEF PoolInv
<1>1. CASE AllReturned(w) \/ StillInUse(w)
  <2>1. /\ life[w] = "wait" /\ life' = [life EXCEPT ![w] = "drain"]
        /\ UNCHANGED <<dbVars, free, closing, closed, inFlight, returned, use, early, stops,
                       crashes, orphaned>>
        /\ overdue' \in {overdue, overdue \cup {w}}
        /\ w \in overdue' \/ returned[w]
    BY <1>1 DEF AllReturned, StillInUse, Goes, poolVars
  <2>2. LifespanTypeOK'
    BY <2>1 DEF Life, dbVars
  <2>3. Placed(w)' /\ Counted(w)' /\ Drains(w)'
    BY <1>0, <2>1 DEF Placed, Counted, Drains
  <2> QED
    BY <2>1, <2>2, <2>3, OthersKeep
<1>2. CASE CloseNext(w)
  <2>1. PICK c \in free[w] : /\ free' = [free EXCEPT ![w] = @ \ {c}]
                             /\ closing' = [closing EXCEPT ![w] = c]
    BY <1>2 DEF CloseNext
  <2>2. life[w] = "drain" /\ life' = [life EXCEPT ![w] = "close"]
    BY <1>2 DEF CloseNext, Goes
  <2>3. UNCHANGED <<dbVars, closed, inFlight, returned, use, stops, crashes, early, overdue,
                    orphaned>>
    BY <1>2 DEF CloseNext
  <2>4. closing[w] = None /\ c # None
    BY <2>2, LifespanAssumption
  <2>5. LifespanTypeOK'
    BY <2>1, <2>2, <2>3, <2>4 DEF Life, dbVars
  <2>6. Placed(w)'
    BY <1>0, <2>1, <2>2, <2>3, <2>4, ClosePlaces DEF Placed, Uses
  <2>7. Counted(w)' /\ Drains(w)'
    BY <1>0, <2>2, <2>3 DEF Counted, Drains
  <2> QED
    BY <2>1, <2>2, <2>3, <2>5, <2>6, <2>7, OthersKeep
<1>3. CASE Closed(w)
  <2>1. /\ closed' = [closed EXCEPT ![w] = @ \cup {closing[w]}]
        /\ closing' = [closing EXCEPT ![w] = None]
        /\ life[w] = "close" /\ life' = [life EXCEPT ![w] = "drain"]
        /\ UNCHANGED <<dbVars, free, inFlight, returned, use, stops, crashes, early,
                       overdue, orphaned>>
    BY <1>3 DEF Closed, Goes
  <2>2. closing[w] \in Conn
    BY <2>1
  <2>3. LifespanTypeOK'
    BY <2>1, <2>2 DEF Life, dbVars
  <2>4. Placed(w)'
    BY <1>0, <2>1, <2>2, ClosedPlaces DEF Placed, Uses
  <2>5. Counted(w)' /\ Drains(w)'
    BY <1>0, <2>1 DEF Counted, Drains
  <2> QED
    BY <2>1, <2>3, <2>4, <2>5, OthersKeep
<1>4. CASE Gone(w)
  <2>1. /\ life[w] = "drain" /\ free[w] = {} /\ life' = [life EXCEPT ![w] = "down"]
        /\ UNCHANGED <<dbVars, poolVars, stops, crashes, orphaned>>
    BY <1>4 DEF Gone, Goes
  <2>2. LifespanTypeOK'
    BY <2>1 DEF Life, dbVars, poolVars
  <2>3. Placed(w)' /\ Counted(w)' /\ Drains(w)'
    BY <1>0, <2>1 DEF Placed, Counted, Drains, poolVars
  <2> QED
    BY <2>1, <2>2, <2>3, OthersKeep DEF poolVars
<1> QED
  BY <1>1, <1>2, <1>3, <1>4 DEF EndStep

\* A connection is taken out of the queue.
LEMMA TakeKeeps ==
  ASSUME Inv, NEW w \in Worker, NEW t \in Task, TakeAtOnce(w, t) \/ TakeLater(w, t)
  PROVE  Inv'
<1> USE DEF Inv, LifespanTypeOK
<1>1. /\ use[w][t].pc \notin {"hold", "discard"} /\ use[w][t].conn = None
      /\ inFlight' = [inFlight EXCEPT ![w] = @ + 1]
      /\ UNCHANGED <<dbVars, life, closing, closed, returned, stops, crashes, early, overdue,
                     orphaned>>
  <2> use[w][t] \in UseState
    OBVIOUS
  <2> QED
    BY DEF TakeAtOnce, TakeLater, Free, UseState
<1>2. PICK c \in free[w] : /\ free' = [free EXCEPT ![w] = @ \ {c}]
                           /\ Becomes(w, t, "hold", c)
  BY DEF TakeAtOnce, TakeLater
<1>3. use'[w] = [use[w] EXCEPT ![t] = [pc |-> "hold", conn |-> c]]
  BY <1>2 DEF Becomes
<1>4. use' \in [Worker -> [Task -> UseState]]
  BY <1>2 DEF Becomes, UseState
<1>5. LifespanTypeOK'
  <2>1. free' \in [Worker -> SUBSET Conn]
    BY <1>2
  <2>2. inFlight' \in [Worker -> Nat]
    BY <1>1
  <2> QED
    BY <1>1, <1>4, <2>1, <2>2 DEF dbVars
<1>6. Placed(w) /\ Counted(w) /\ Drains(w) /\ use[w] \in Uses /\ t \notin HoldersIn(use[w])
  BY <1>1 DEF PoolInv, Uses, HoldersIn
<1>7. Placed(w)'
  <2>1. /\ Places(free[w], closed[w], closing[w], use[w])
        /\ free[w] \in SUBSET Conn /\ closed[w] \in SUBSET Conn
        /\ closing[w] \in Conn \cup {None}
    BY <1>6 DEF Placed
  <2>2. Places(free[w] \ {c}, closed[w], closing[w],
               [use[w] EXCEPT ![t] = [pc |-> "hold", conn |-> c]])
    BY <1>1, <1>6, <2>1, TakePlaces
  <2>3. free'[w] = free[w] \ {c} /\ closed' = closed /\ closing' = closing /\ life' = life
    BY <1>1, <1>2
  <2> QED
    BY <1>3, <1>6, <2>2, <2>3 DEF Placed
<1>8. Counted(w)' /\ Drains(w)'
  <2>1. /\ HoldersIn(use'[w]) = HoldersIn(use[w]) \cup {t}
        /\ Cardinality(HoldersIn(use'[w])) = Cardinality(HoldersIn(use[w])) + 1
    <3>1. LET v == [use[w] EXCEPT ![t] = [pc |-> "hold", conn |-> c]]
          IN  /\ HoldersIn(v) = HoldersIn(use[w]) \cup {t}
              /\ Cardinality(HoldersIn(v)) = Cardinality(HoldersIn(use[w])) + 1
      BY <1>6, HoldersGain
    <3> QED
      BY <1>3, <3>1
  <2> QED
    BY <1>1, <1>6, <2>1 DEF Counted, Drains
<1>9. \A v \in Worker \ {w} : use'[v] = use[v] /\ free'[v] = free[v]
  BY <1>2 DEF Becomes
<1> QED
  BY <1>1, <1>5, <1>7, <1>8, <1>9, OthersKeep

\* A task changes its place in get_db without taking or returning a connection.
LEMMA KeepKeeps ==
  ASSUME Inv, NEW w \in Worker, NEW t \in Task, Wait(w, t) \/ GiveUp(w, t) \/ Discard(w, t)
  PROVE  Inv'
<1> USE DEF Inv, LifespanTypeOK
<1>0. use[w][t] \in UseState
  OBVIOUS
<1>1. UNCHANGED <<dbVars, life, free, closing, closed, inFlight, returned, stops, crashes,
                  early, overdue, orphaned>>
  BY DEF Wait, GiveUp, Discard
<1>2. PICK p \in {"wait", "out", "discard"} :
        /\ Becomes(w, t, p, use[w][t].conn)
        /\ p \in {"hold", "discard"} <=> use[w][t].pc \in {"hold", "discard"}
        /\ [pc |-> p, conn |-> use[w][t].conn] \in UseState
  <2>1. CASE Wait(w, t)
    BY <2>1 DEF Wait, Free, UseState
  <2>2. CASE GiveUp(w, t)
    BY <1>0, <2>2 DEF GiveUp, Free, UseState
  <2>3. CASE Discard(w, t)
    BY <1>0, <2>3 DEF Discard, Free, UseState
  <2> QED
    BY <2>1, <2>2, <2>3
<1>3. /\ use'[w] = [use[w] EXCEPT ![t] = [pc |-> p, conn |-> use[w][t].conn]]
      /\ \A v \in Worker \ {w} : use'[v] = use[v]
      /\ use' \in [Worker -> [Task -> UseState]]
  BY <1>2 DEF Becomes
<1>4. Placed(w) /\ Counted(w) /\ Drains(w) /\ use[w] \in Uses
  BY DEF PoolInv, Uses
<1>5. Placed(w)'
  <2>1. Places(free[w], closed[w], closing[w],
               [use[w] EXCEPT ![t] = [pc |-> p, conn |-> use[w][t].conn]])
    BY <1>4, KeepPlaces DEF Placed
  <2> QED
    BY <1>1, <1>3, <1>4, <2>1 DEF Placed
<1>6. Counted(w)' /\ Drains(w)'
  <2>1. HoldersIn(use'[w]) = HoldersIn(use[w])
    <3>1. use'[w][t].pc = p /\ \A s \in Task \ {t} : use'[w][s] = use[w][s]
      BY <1>3, <1>4 DEF Uses
    <3> QED
      BY <1>2, <3>1 DEF HoldersIn
  <2> QED
    BY <1>1, <1>3, <1>4, <2>1 DEF Counted, Drains
<1>7. LifespanTypeOK'
  BY <1>1, <1>3 DEF dbVars
<1> QED
  BY <1>1, <1>3, <1>5, <1>6, <1>7, OthersKeep

\* A connection comes back, to the queue or to be closed.
LEMMA ReturnKeeps ==
  ASSUME Inv, NEW w \in Worker, NEW t \in Task, GiveBack(w, t) \/ Discarded(w, t)
  PROVE  Inv'
<1> USE DEF Inv, LifespanTypeOK
<1>0. use[w][t] \in UseState
  OBVIOUS
<1>1. Lands(w, t) /\ UNCHANGED <<dbVars, life, closing, stops, crashes, overdue, orphaned>>
  BY DEF GiveBack, Discarded
<1>2. use[w][t].pc \in {"hold", "discard"} /\ use[w][t].conn \in Conn
  BY <1>0 DEF GiveBack, Discarded, UseState, Free
<1>3. /\ use'[w] = [use[w] EXCEPT ![t] = [pc |-> "out", conn |-> None]]
      /\ \A v \in Worker \ {w} : use'[v] = use[v]
      /\ use' \in [Worker -> [Task -> UseState]]
  BY <1>1 DEF Lands, Becomes, UseState, Free
<1>4. /\ Placed(w) /\ Counted(w) /\ Drains(w) /\ use[w] \in Uses
      /\ t \in HoldersIn(use[w])
  BY <1>2 DEF PoolInv, Uses, HoldersIn
<1>5. /\ HoldersIn(use'[w]) = HoldersIn(use[w]) \ {t}
      /\ Cardinality(HoldersIn(use'[w])) = Cardinality(HoldersIn(use[w])) - 1
      /\ Cardinality(HoldersIn(use[w])) >= 1
      /\ Cardinality(HoldersIn(use'[w])) <= 0 => HoldersIn(use'[w]) = {}
  <2>1. LET v == [use[w] EXCEPT ![t] = [pc |-> "out", conn |-> None]]
        IN  /\ HoldersIn(v) = HoldersIn(use[w]) \ {t}
            /\ Cardinality(HoldersIn(v)) = Cardinality(HoldersIn(use[w])) - 1
            /\ Cardinality(HoldersIn(use[w])) >= 1
            /\ Cardinality(HoldersIn(v)) <= 0 => HoldersIn(v) = {}
    BY <1>4, HoldersLose
  <2> QED
    BY <1>3, <2>1
<1>6. inFlight[w] >= 1 /\ inFlight'[w] = inFlight[w] - 1
  BY <1>1, <1>4, <1>5 DEF Lands, Counted
<1>7. Counted(w)'
  BY <1>4, <1>5, <1>6 DEF Counted
<1>8. Drains(w)'
  <2>1. early'[w] = early[w] \ {t} /\ early'[w] \subseteq HoldersIn(use'[w])
    BY <1>1, <1>4, <1>5 DEF Lands, Drains
  <2>2. returned'[w] => returned[w] \/ HoldersIn(use'[w]) = {}
    BY <1>1, <1>5, <1>6, <1>7 DEF Lands, Counted
  <2> QED
    BY <1>1, <1>4, <2>1, <2>2 DEF Drains
<1>8a. /\ Places(free[w] \cup {use[w][t].conn}, closed[w], closing[w], use'[w])
       /\ Places(free[w], closed[w] \cup {use[w][t].conn}, closing[w], use'[w])
  <2>1. /\ Places(free[w], closed[w], closing[w], use[w])
        /\ free[w] \in SUBSET Conn /\ closed[w] \in SUBSET Conn
        /\ closing[w] \in Conn \cup {None}
    BY <1>4 DEF Placed
  <2>2. LET v == [use[w] EXCEPT ![t] = [pc |-> "out", conn |-> None]]
        IN  /\ Places(free[w] \cup {use[w][t].conn}, closed[w], closing[w], v)
            /\ Places(free[w], closed[w] \cup {use[w][t].conn}, closing[w], v)
    BY <1>2, <1>4, <2>1, GivePlaces
  <2> QED
    BY <1>3, <2>2
<1>9. /\ Placed(w)' /\ free' \in [Worker -> SUBSET Conn] /\ closed' \in [Worker -> SUBSET Conn]
      /\ \A v \in Worker \ {w} : free'[v] = free[v] /\ closed'[v] = closed[v]
  <2>1. CASE GiveBack(w, t)
    <3>1. /\ free' = [free EXCEPT ![w] = @ \cup {use[w][t].conn}] /\ closed' = closed
          /\ life[w] # "down"
      BY <2>1 DEF GiveBack
    <3>2. Places(free'[w], closed[w], closing[w], use'[w])
      BY <1>8a, <3>1
    <3> QED
      BY <1>1, <1>2, <3>1, <3>2 DEF Placed
  <2>2. CASE Discarded(w, t)
    <3>1. closed' = [closed EXCEPT ![w] = @ \cup {use[w][t].conn}] /\ free' = free
      BY <2>2 DEF Discarded
    <3>2. Places(free[w], closed'[w], closing[w], use'[w])
      BY <1>8a, <3>1
    <3> QED
      BY <1>1, <1>2, <1>4, <3>1, <3>2 DEF Placed
  <2> QED
    BY <2>1, <2>2
<1>10. LifespanTypeOK'
  <2>1. inFlight' \in [Worker -> Nat] /\ returned' \in [Worker -> BOOLEAN]
    BY <1>1, <1>6 DEF Lands
  <2>2. early' \in [Worker -> SUBSET Task]
    BY <1>1 DEF Lands
  <2> QED
    BY <1>1, <1>3, <1>9, <2>1, <2>2 DEF dbVars
<1>11. \A v \in Worker \ {w} : /\ inFlight'[v] = inFlight[v] /\ returned'[v] = returned[v]
                               /\ early'[v] = early[v]
  BY <1>1 DEF Lands
<1> QED
  BY <1>1, <1>3, <1>7, <1>8, <1>9, <1>10, <1>11, OthersKeep

LEMMA InvNext == Inv /\ [Next]_vars => Inv'
<1> SUFFICES ASSUME Inv, [Next]_vars PROVE Inv'
  OBVIOUS
<1>1. CASE UNCHANGED vars
  BY <1>1
  DEF vars, dbVars, poolVars, Inv, LifespanTypeOK, PoolInv, Placed, Counted, Drains
<1>2. ASSUME NEW w \in Worker, StartStep(w) \/ Stop(w) \/ EndStep(w) \/ Crash(w) PROVE Inv'
  BY <1>2, StartKeeps, StopKeeps, EndKeeps, CrashKeeps
<1>3. ASSUME NEW w \in Worker, NEW t \in Task, TaskStep(w, t) PROVE Inv'
  BY <1>3, TakeKeeps, KeepKeeps, ReturnKeeps DEF TaskStep, WaitEnds
<1> QED
  BY <1>1, <1>2, <1>3 DEF Next

LEMMA InvAlways == Spec => []Inv
BY InvInit, InvNext, PTL DEF Spec

-----------------------------------------------------------------------------
(* The theorems *)

\* Workers, pools and tasks keep their types.
THEOREM LifespanTypes == Spec => []LifespanTypeOK
<1>1. Inv => LifespanTypeOK
  BY DEF Inv
<1> QED
  BY <1>1, InvAlways, PTL

\* No connection is lost, shared, or closed while a task has it, for any number of tasks
\* and connections.
THEOREM Conserved == Spec => []ConnsConserved
<1>1. ASSUME Inv PROVE ConnsConserved
  <2> SUFFICES ASSUME NEW w \in Worker
               PROVE  /\ \A c \in Conn : ConnOwned(w, c)
                      /\ life[w] = "down" => free[w] = {}
    BY DEF ConnsConserved
  <2>1. Placed(w)
    BY <1>1 DEF Inv, PoolInv
  <2>2. ASSUME NEW c \in Conn PROVE ConnOwned(w, c)
    <3>1. c # None
      BY LifespanAssumption
    <3> QED
      BY <2>1, <3>1 DEF Placed, Places, ConnOwned
  <2> QED
    BY <2>1, <2>2 DEF Placed
<1> QED
  BY <1>1, InvAlways, PTL

\* A shutdown that is not overdue closes nothing before the connections in use are back.
THEOREM Drained == Spec => []DrainedFirst
<1>1. Inv => DrainedFirst
  <2> SUFFICES ASSUME Inv, NEW w \in Worker \ overdue,
                      life[w] \in {"drain", "close", "down"}
               PROVE  early[w] = {}
    BY DEF DrainedFirst
  <2> QED
    BY DEF Inv, PoolInv, Drains
<1> QED
  BY <1>1, InvAlways, PTL

\* The shutdown misses no return: the task that brings _in_flight to 0 while it waits
\* sets _all_returned, and only the next shutdown of the process clears it.
THEOREM NeverIdle == Spec => []NoIdleWait
<1>1. Init => NoIdleWait
  BY DEF Init, NoIdleWait
<1>2. LifespanTypeOK /\ NoIdleWait /\ [Next]_vars => NoIdleWait'
  <2> SUFFICES ASSUME LifespanTypeOK, NoIdleWait, [Next]_vars, NEW v \in Worker,
                      life'[v] = "wait"
               PROVE  returned'[v] \/ inFlight'[v] > 0
    BY DEF NoIdleWait
  <2> USE DEF LifespanTypeOK, NoIdleWait, Goes
  <2>1. CASE UNCHANGED vars
    BY <2>1 DEF vars, poolVars
  <2>2. ASSUME NEW w \in Worker, StartStep(w) \/ Crash(w)
        PROVE  returned'[v] \/ inFlight'[v] > 0
    BY <2>2
    DEF StartStep, Launch, ListUsers, CreateUser, CreateUserFails, CreateKey, Crash,
        Process, poolVars
  <2>3. ASSUME NEW w \in Worker, Stop(w)
        PROVE  returned'[v] \/ inFlight'[v] > 0
    BY <2>3 DEF Stop
  <2>4. ASSUME NEW w \in Worker, EndStep(w)
        PROVE  returned'[v] \/ inFlight'[v] > 0
    BY <2>4 DEF EndStep, AllReturned, StillInUse, CloseNext, Closed, Gone, poolVars
  <2>5. ASSUME NEW w \in Worker, NEW t \in Task, TaskStep(w, t)
        PROVE  returned'[v] \/ inFlight'[v] > 0
    <3>1. CASE TakeAtOnce(w, t) \/ TakeLater(w, t)
      <4>1. /\ life' = life /\ returned' = returned
            /\ inFlight' = [inFlight EXCEPT ![w] = @ + 1]
        BY <3>1 DEF TakeAtOnce, TakeLater
      <4>2. inFlight[w] \in Nat /\ inFlight'[w] = inFlight[w] + 1
        BY <4>1
      <4>3. v # w => inFlight'[v] = inFlight[v]
        BY <4>1
      <4> QED
        BY <4>1, <4>2, <4>3
    <3>2. CASE Wait(w, t) \/ GiveUp(w, t) \/ Discard(w, t)
      BY <3>2 DEF Wait, GiveUp, Discard
    <3>3. CASE GiveBack(w, t) \/ Discarded(w, t)
      <4>1. /\ life' = life /\ inFlight' = [inFlight EXCEPT ![w] = @ - 1]
            /\ returned' = [returned EXCEPT
                              ![w] = @ \/ (inFlight[w] - 1 <= 0 /\ Shutting(w))]
        BY <3>3 DEF GiveBack, Discarded, Lands
      <4>2. CASE v = w
        <5>1. inFlight[w] \in Nat /\ inFlight'[w] = inFlight[w] - 1 /\ Shutting(w)
          BY <4>1, <4>2 DEF Shutting
        <5>2. inFlight[w] - 1 <= 0 => returned'[w]
          BY <4>1, <5>1
        <5> QED
          BY <4>2, <5>1, <5>2
      <4>3. CASE v # w
        BY <4>1, <4>3
      <4> QED
        BY <4>2, <4>3
    <3> QED
      BY <2>5, <3>1, <3>2, <3>3 DEF TaskStep, WaitEnds
  <2> QED
    BY <2>1, <2>2, <2>3, <2>4, <2>5 DEF Next
<1> QED
  BY <1>1, <1>2, LifespanTypes, PTL DEF Spec

\* Whoever serves, or is about to create a key, knows of an administrator.
AdminInv ==
  /\ life \in [Worker -> Life]
  /\ \A w \in Worker : life[w] \in {"key", "serve"} => admin
  /\ admin => key \/ orphaned \/ \E w \in Worker : life[w] = "key"

\* There is an administrator with a key before anybody serves, unless a worker died
\* between the two.
THEOREM AdminAndKey == Spec => []Administered
<1>1. Init => AdminInv
  BY DEF Init, AdminInv, Life
<1>2. AdminInv /\ [Next]_vars => AdminInv'
  <2> SUFFICES ASSUME AdminInv, [Next]_vars PROVE AdminInv'
    OBVIOUS
  <2> USE DEF AdminInv, Life, Goes
  <2>1. CASE UNCHANGED vars
    BY <2>1 DEF vars, dbVars
  <2>2. ASSUME NEW w \in Worker, Launch(w) PROVE AdminInv'
    BY <2>2 DEF Launch, dbVars
  <2>3. ASSUME NEW w \in Worker, ListUsers(w) PROVE AdminInv'
    BY <2>3 DEF ListUsers, dbVars
  <2>4. ASSUME NEW w \in Worker, CreateUser(w) PROVE AdminInv'
    BY <2>4 DEF CreateUser
  <2>5. ASSUME NEW w \in Worker, CreateUserFails(w) PROVE AdminInv'
    BY <2>5 DEF CreateUserFails, dbVars
  <2>6. ASSUME NEW w \in Worker, CreateKey(w) PROVE AdminInv'
    BY <2>6 DEF CreateKey
  <2>7. ASSUME NEW w \in Worker, Crash(w) PROVE AdminInv'
    BY <2>7 DEF Crash, dbVars
  <2>8. ASSUME NEW w \in Worker, Stop(w) PROVE AdminInv'
    BY <2>8 DEF Stop, dbVars
  <2>9. ASSUME NEW w \in Worker, EndStep(w) PROVE AdminInv'
    BY <2>9 DEF EndStep, AllReturned, StillInUse, CloseNext, Closed, Gone, dbVars
  <2>10. ASSUME NEW w \in Worker, NEW t \in Task, TaskStep(w, t) PROVE AdminInv'
    BY <2>10
    DEF TaskStep, WaitEnds, TakeAtOnce, TakeLater, Wait, GiveUp, GiveBack, Discard,
        Discarded, dbVars
  <2> QED
    BY <2>1, <2>2, <2>3, <2>4, <2>5, <2>6, <2>7, <2>8, <2>9, <2>10 DEF Next, StartStep
<1>3. AdminInv => Administered
  BY DEF AdminInv, Administered
<1> QED
  BY <1>1, <1>2, <1>3, PTL DEF Spec

=============================================================================
