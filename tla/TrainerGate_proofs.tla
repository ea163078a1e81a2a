-------------------------- MODULE TrainerGate_proofs --------------------------
(***************************************************************************)
(* What the gate lets pass, for any number of machines, workers, requests, *)
(* administrators, seeds and failures.                                     *)
(***************************************************************************)
EXTENDS TrainerGate, TLAPS

-----------------------------------------------------------------------------
(* Types *)

LEMMA BusyFields ==
  ASSUME GateTypeOK, NEW r \in Handler, ~At(r, "idle")
  PROVE  /\ req[r] \in [pc : Pc \ {"idle"}, op : Op, m : Machine, w : Worker,
                        x : X \cup {None}, leased : BOOLEAN, n : 0 .. CountLimit,
                        nums : SUBSET X]
         /\ req[r].op = "get" \/ req[r].x \in X
<1>1. req[r] \in Request
  BY DEF GateTypeOK
<1>2. req[r] # Idle
  BY DEF At, Idle
<1> QED  BY <1>1, <1>2 DEF Request

LEMMA GotoType ==
  ASSUME GateTypeOK, NEW r \in Handler, ~At(r, "idle"), NEW pc \in Pc \ {"idle"},
         Goto(r, pc)
  PROVE  req' \in [Handler -> Request]
<1>1. [req[r] EXCEPT !.pc = pc] \in Request
  BY BusyFields DEF Request
<1> QED  BY <1>1 DEF GateTypeOK, Goto

LEMMA AnswerType ==
  ASSUME GateTypeOK, NEW r \in Handler, Answer(r)
  PROVE  req' \in [Handler -> Request]
BY DEF GateTypeOK, Answer, Request

\* What is in hand is a number that was handed out.
LEMMA ReportedType == ASSUME GateTypeOK PROVE Reported(Handler) \subseteq Held
<1>1. ASSUME NEW r \in Handler, req[r].op = "done"
      PROVE  /\ req[r].m \in Machine /\ req[r].x \in X /\ req[r].leased \in BOOLEAN
  <2>1. ~At(r, "idle")
    BY <1>1 DEF GateTypeOK, Request, Idle, At
  <2> QED  BY <1>1, <2>1, BusyFields
<1> QED  BY <1>1 DEF Reported, Held

LEMMA SentType == ASSUME GateTypeOK PROVE Sent(Handler) \subseteq X
<1>1. ASSUME NEW r \in Handler, req[r].pc = "answer" PROVE req[r].nums \subseteq X
  <2>1. ~At(r, "idle")
    BY <1>1 DEF At
  <2> QED  BY <2>1, BusyFields
<1> QED  BY <1>1 DEF Sent

\* A request hands out T, or has nothing to hand out.
LEMMA HandOutIs ==
  ASSUME GateTypeOK, NEW r \in Handler, ~At(r, "idle"), NEW T, T \subseteq X,
         NEW leased \in BOOLEAN, HandOut(r, T, leased)
  PROVE  \E q \in Request :
           /\ req' = [req EXCEPT ![r] = q]
           /\ \/ T = {} /\ q = Idle
              \/ /\ q # Idle /\ q.pc = "answer" /\ q.m = req[r].m
                 /\ q.nums = T /\ q.leased = leased
<1>1. CASE T = {}
  BY <1>1 DEF HandOut, Answer, Request
<1>2. CASE T # {}
  <2> DEFINE q == [req[r] EXCEPT !.pc = "answer", !.nums = T, !.leased = leased]
  <2>1. req' = [req EXCEPT ![r] = q]
    BY <1>2 DEF HandOut
  <2>2. q \in Request /\ q.pc = "answer" /\ q.m = req[r].m /\ q.nums = T
        /\ q.leased = leased
    BY BusyFields DEF Request, Pc
  <2>3. q # Idle
    BY <2>2 DEF Idle
  <2> HIDE DEF q
  <2> QED  BY <2>1, <2>2, <2>3
<1> QED  BY <1>1, <1>2

LEMMA HandOutType ==
  ASSUME GateTypeOK, NEW r \in Handler, ~At(r, "idle"), NEW T, T \subseteq X,
         NEW leased \in BOOLEAN, HandOut(r, T, leased)
  PROVE  req' \in [Handler -> Request]
<1>1. PICK q \in Request : req' = [req EXCEPT ![r] = q]
  BY HandOutIs
<1> QED  BY <1>1 DEF GateTypeOK

LEMMA EntryPc ==
  ASSUME NEW op \in Op, NEW m, NEW w, NEW n \in Nat
  PROVE  Entry(op, m, w, n)
           \in {"ack", "check", "idle", "slowcmd", "fastcmd", "readmode"}
<1>1. n = 0 \/ n > 0
  OBVIOUS
<1> QED  BY <1>1 DEF Entry, Op

LEMMA CallType ==
  ASSUME GateTypeOK, NEW r \in Handler, NEW op, NEW m \in Machine, NEW w \in Worker,
         NEW x \in X \cup {None}, NEW leased \in BOOLEAN, NEW n \in 0 .. CountLimit,
         op = "get" \/ x \in X, Call(r, op, m, w, x, leased, n), todo' \subseteq todo,
         strays' \subseteq X
  PROVE  GateTypeOK'
<1> DEFINE pc == IF m \in fresh[w] THEN Entry(op, m, w, n) ELSE "stamp"
<1>1. op \in Op /\ n \in Nat
  BY GateAssumption DEF Call, Op
<1>2. pc \in Pc
  BY <1>1, EntryPc DEF Pc
<1>3. /\ pc # "idle"
      /\ registered' = IF m \in fresh[w] THEN registered ELSE registered \cup {m}
      /\ req' = [req EXCEPT ![r] = [pc |-> pc, op |-> op, m |-> m, w |-> w, x |-> x,
                                    leased |-> leased, n |-> n, nums |-> {}]]
      /\ UNCHANGED <<verified, open, solved, seeds, mode, item, behind, cmd, poolVars,
                     cacheVars, adm, used, histVars>>
  BY DEF Call
<1> HIDE DEF pc
<1>4. [pc |-> pc, op |-> op, m |-> m, w |-> w, x |-> x, leased |-> leased, n |-> n,
       nums |-> {}] \in Request
  BY <1>1, <1>2, <1>3 DEF Request
<1>5. req' \in [Handler -> Request]
  BY <1>3, <1>4 DEF GateTypeOK
<1> QED  BY <1>3, <1>5 DEF GateTypeOK, poolVars, cacheVars, histVars

LEMMA HeldType ==
  ASSUME NEW m \in Machine, NEW S \in SUBSET X, NEW leased \in BOOLEAN
  PROVE  {[m |-> m, x |-> x, leased |-> leased] : x \in S} \subseteq Held
BY DEF Held

LEMMA UsesType ==
  ASSUME GateTypeOK, NEW kind \in Kind, NEW max, Uses(kind, max)
  PROVE  used' \in [Kind -> Nat]
<1>1. used[kind] + 1 \in Nat
  BY DEF GateTypeOK
<1> QED  BY <1>1 DEF GateTypeOK, Uses

LEMMA StepType ==
  ASSUME GateTypeOK, NEW r \in Handler, RequestStep(r)
  PROVE  GateTypeOK'
<1> USE DEF gateVars, testVars, poolVars, cacheVars, histVars
<1>b. ASSUME ~At(r, "idle")
      PROVE  /\ req[r].m \in Machine /\ req[r].w \in Worker /\ req[r].op \in Op
             /\ req[r].n \in Nat /\ req[r].nums \subseteq X
             /\ req[r].leased \in BOOLEAN
  BY <1>b, BusyFields, GateAssumption
<1>1. CASE Stamp(r)
  <2> DEFINE pc == Entry(req[r].op, req[r].m, req[r].w, req[r].n)
  <2>1. ~At(r, "idle") /\ pc \in Pc
    BY <1>1, <1>b, EntryPc DEF Stamp, At, Pc
  <2>2. /\ fresh' = [fresh EXCEPT ![req[r].w] = @ \cup {req[r].m}]
        /\ IF pc = "idle" THEN Answer(r) ELSE Goto(r, pc)
    BY <1>1 DEF Stamp
  <2> HIDE DEF pc
  <2>3. req' \in [Handler -> Request]
    BY <2>1, <2>2, GotoType, AnswerType
  <2> QED  BY <1>1, <1>b, <2>1, <2>2, <2>3 DEF Stamp, GateTypeOK
<1>2. CASE ReadMode(r)
  <2>1. ~At(r, "idle") /\ \E pc \in {"slowcmd", "fastcmd"} : Goto(r, pc)
    BY <1>2 DEF ReadMode, At
  <2>2. req' \in [Handler -> Request]
    BY <2>1, GotoType DEF Pc
  <2> QED  BY <1>2, <1>b, <2>1, <2>2 DEF ReadMode, ModeRead, GateTypeOK
<1>3. CASE TakeCommand(r)
  <2>1. ~At(r, "idle") /\ (Answer(r) \/ \E pc \in {"batch", "mode"} : Goto(r, pc))
    BY <1>3 DEF TakeCommand, At
  <2>2. req' \in [Handler -> Request]
    BY <2>1, GotoType, AnswerType DEF Pc
  <2> QED  BY <1>3, <2>2 DEF TakeCommand, GateTypeOK
<1>4. CASE CheckMode(r)
  <2>1. ~At(r, "idle") /\ \E pc \in {"items", "check"} : Goto(r, pc)
    BY <1>4 DEF CheckMode, At
  <2>2. req' \in [Handler -> Request]
    BY <2>1, GotoType DEF Pc
  <2> QED  BY <1>4, <2>2 DEF CheckMode, GateTypeOK
<1>5. CASE TakeItems(r)
  <2>1. ~At(r, "idle")
    BY <1>5 DEF TakeItems, At
  <2>2. PICK T \in Some({x \in X : item[x] = "pending"}, req[r].n) :
          /\ item' = [x \in X |-> IF x \in T THEN "active" ELSE item[x]]
          /\ behind' = [x \in X |-> IF x \in T THEN Cached \cup Starting
                                               ELSE behind[x]]
          /\ HandOut(r, T, FALSE)
    BY <1>5 DEF TakeItems
  <2>3. T \subseteq X
    BY DEF Some
  <2>4. req' \in [Handler -> Request]
    BY <2>1, <2>2, <2>3, HandOutType
  <2>5. behind' \in [X -> SUBSET (Worker \cup Admin)]
    BY <2>2 DEF Cached, Starting, GateTypeOK
  <2> QED  BY <1>5, <2>2, <2>4, <2>5 DEF TakeItems, GateTypeOK
<1>18. CASE Deliver(r)
  <2>1. ~At(r, "idle") /\ Answer(r)
    BY <1>18 DEF Deliver, At
  <2>2. req' \in [Handler -> Request]
    BY <2>1, AnswerType
  <2>3. todo' \subseteq Held
    <3>1. {[m |-> req[r].m, x |-> x, leased |-> req[r].leased] : x \in req[r].nums}
            \subseteq Held
      BY <1>b, <2>1, HeldType
    <3> QED  BY <1>18, <3>1 DEF Deliver, GateTypeOK
  <2> QED  BY <1>18, <2>2, <2>3 DEF Deliver, GateTypeOK
<1>6. CASE CheckVerified(r)
  <2>1. /\ ~At(r, "idle")
        /\ Answer(r) \/ \E pc \in {"admit", "mark", "seeds"} : Goto(r, pc)
    BY <1>6 DEF CheckVerified, At
  <2>2. req' \in [Handler -> Request]
    BY <2>1, GotoType, AnswerType DEF Pc
  <2> QED  BY <1>6, <2>2 DEF CheckVerified, GateTypeOK
<1>7. CASE ReadSeeds(r)
  <2> DEFINE pc == IF seeds = {} THEN "verify" ELSE "rows"
             q == [req[r] EXCEPT !.pc = pc, !.nums = seeds]
  <2>1. ~At(r, "idle") /\ seeds \subseteq X /\ pc \in Pc \ {"idle"}
    BY <1>7, GateAssumption DEF ReadSeeds, At, GateTypeOK, Pc
  <2>2. req' = [req EXCEPT ![r] = q]
    BY <1>7 DEF ReadSeeds
  <2> HIDE DEF pc
  <2>3. q \in Request
    BY <2>1, BusyFields DEF Request
  <2> HIDE DEF q
  <2>4. req' \in [Handler -> Request]
    BY <2>2, <2>3 DEF GateTypeOK
  <2> QED  BY <1>7, <2>4 DEF ReadSeeds, GateTypeOK
<1>8. CASE InitRows(r)
  <2>1. ~At(r, "idle") /\ (Answer(r) \/ Goto(r, "unfound"))
    BY <1>8 DEF InitRows, At
  <2>2. req' \in [Handler -> Request]
    BY <2>1, GotoType, AnswerType DEF Pc
  <2>3. open' \subseteq Machine \X X /\ open' \cap solved = {}
    BY <1>8, <1>b, <2>1 DEF InitRows, GateTypeOK
  <2> QED  BY <1>8, <2>2, <2>3 DEF InitRows, GateTypeOK
<1>9. CASE GiveSeeds(r)
  <2>1. ~At(r, "idle") /\ (Answer(r) \/ Goto(r, "verify"))
    BY <1>9 DEF GiveSeeds, At
  <2>2. req' \in [Handler -> Request]
    BY <2>1, GotoType, AnswerType DEF Pc
  <2>3. todo' \subseteq Held
    <3>1. Unfound(req[r].m) \in SUBSET X
      BY DEF Unfound
    <3>2. {[m |-> req[r].m, x |-> x, leased |-> FALSE] : x \in Unfound(req[r].m)}
            \subseteq Held
      BY <1>b, <2>1, <3>1, HeldType
    <3> QED  BY <1>9, <3>2 DEF GiveSeeds, GateTypeOK
  <2>4. skipped' \subseteq Machine
    BY <1>9, <1>b, <2>1 DEF GiveSeeds, NoRows, GateTypeOK
  <2> QED  BY <1>9, <2>2, <2>3, <2>4 DEF GiveSeeds, GateTypeOK
<1>10. CASE Verify(r)
  <2>1. ~At(r, "idle") /\ Goto(r, "admit")
    BY <1>10 DEF Verify, At
  <2>2. req' \in [Handler -> Request]
    BY <2>1, GotoType DEF Pc
  <2> QED  BY <1>10, <2>2 DEF Verify, GateTypeOK
<1>11. CASE Admit(r)
  <2>1. ~At(r, "idle") /\ (Answer(r) \/ Goto(r, "batch"))
    BY <1>11 DEF Admit, At
  <2>2. req' \in [Handler -> Request]
    BY <2>1, GotoType, AnswerType DEF Pc
  <2> QED  BY <1>11, <1>b, <2>1, <2>2 DEF Admit, GateTypeOK
<1>12. CASE NextBatch(r)
  <2>1. ~At(r, "idle")
    BY <1>12 DEF NextBatch, At
  <2>2. PICK T \in Some(queued, req[r].n) :
          /\ queued' = queued \ T
          /\ out' = [x \in X |-> IF x \in T THEN req[r].m ELSE out[x]]
          /\ HandOut(r, T, TRUE)
    BY <1>12 DEF NextBatch
  <2>3. T \subseteq X
    BY DEF Some, GateTypeOK
  <2>4. req' \in [Handler -> Request]
    BY <2>1, <2>2, <2>3, HandOutType
  <2> QED  BY <1>12, <1>b, <2>1, <2>2, <2>4 DEF NextBatch, GateTypeOK
<1>13. CASE Ack(r)
  <2>1. /\ ~At(r, "idle")
        /\ Answer(r) \/ \E pc \in {"readbook", "book"} : Goto(r, pc)
        /\ UNCHANGED poolVars \/ out' = [out EXCEPT ![req[r].x] = None]
        /\ UNCHANGED queued
    <3>1. modeCache[req[r].w] \in {"none", "on", "off"}
      BY <1>13, <1>b DEF Ack, At, GateTypeOK
    <3> QED  BY <1>13, <3>1 DEF Ack, At
  <2>2. req' \in [Handler -> Request]
    BY <2>1, GotoType, AnswerType DEF Pc
  <2> QED  BY <1>13, <2>1, <2>2 DEF Ack, GateTypeOK
<1>14. CASE ReadBook(r)
  <2>1. ~At(r, "idle") /\ (Answer(r) \/ Goto(r, "book"))
    BY <1>14 DEF ReadBook, At
  <2>2. req' \in [Handler -> Request]
    BY <2>1, GotoType, AnswerType DEF Pc
  <2> QED  BY <1>14, <1>b, <2>1, <2>2 DEF ReadBook, ModeRead, GateTypeOK
<1>15. CASE Book(r)
  <2>1. ~At(r, "idle") /\ Answer(r)
    BY <1>15 DEF Book, At
  <2>2. req' \in [Handler -> Request]
    BY <2>1, AnswerType
  <2> QED  BY <1>15, <2>1, <2>2 DEF Book, Booked, GateTypeOK
<1>16. CASE MarkSeed(r)
  <2>1. ~At(r, "idle") /\ Goto(r, "count")
    BY <1>16 DEF MarkSeed, At
  <2>2. req' \in [Handler -> Request]
    BY <2>1, GotoType DEF Pc
  <2>3. /\ open' \subseteq Machine \X X /\ solved' \subseteq Machine \X X
        /\ open' \cap solved' = {} /\ found' \subseteq Machine \X X
    BY <1>16 DEF MarkSeed, GateTypeOK
  <2> QED  BY <1>16, <2>2, <2>3 DEF MarkSeed, GateTypeOK
<1>17. CASE CountSeeds(r)
  <2>1. ~At(r, "idle") /\ (Answer(r) \/ Goto(r, "verify"))
    BY <1>17 DEF CountSeeds, At
  <2>2. req' \in [Handler -> Request]
    BY <2>1, GotoType, AnswerType DEF Pc
  <2>3. skipped' \subseteq Machine
    BY <1>17, <1>b, <2>1 DEF CountSeeds, NoRows, GateTypeOK
  <2> QED  BY <1>17, <2>2, <2>3 DEF CountSeeds, GateTypeOK
<1> QED
  BY <1>1, <1>2, <1>3, <1>4, <1>5, <1>6, <1>7, <1>8, <1>9, <1>10, <1>11, <1>12,
     <1>13, <1>14, <1>15, <1>16, <1>17, <1>18 DEF RequestStep

LEMMA TrainerType == ASSUME GateTypeOK, TrainerCalls PROVE GateTypeOK'
<1>1. ASSUME NEW r \in Handler, NEW w \in Worker, NEW m \in Machine,
             NEW n \in 0 .. CountLimit, GetNumber(r, m, w, n)
      PROVE  GateTypeOK'
  <2>1. UNCHANGED <<todo, strays>> /\ Call(r, "get", m, w, None, FALSE, n)
    BY <1>1 DEF GetNumber
  <2>2. strays' \subseteq X
    BY <2>1 DEF GateTypeOK
  <2> QED  BY <2>1, <2>2, CallType
<1>2. ASSUME NEW r \in Handler, NEW w \in Worker, NEW g \in Held, MarkDone(r, w, g)
      PROVE  GateTypeOK'
  <2>1. /\ g.m \in Machine /\ g.x \in X /\ g.leased \in BOOLEAN
        /\ 0 \in 0 .. CountLimit
    BY GateAssumption DEF Held
  <2>2. Call(r, "done", g.m, w, g.x, g.leased, 0) /\ todo' \subseteq todo
    BY <1>2 DEF MarkDone
  <2>3. strays' \subseteq X
    BY <1>2, <2>1 DEF MarkDone, GateTypeOK
  <2> QED  BY <2>1, <2>2, <2>3, CallType
<1>3. ASSUME NEW r \in Handler, NEW w \in Worker, NEW m \in Machine, NEW x \in X,
             SetFound(r, w, m, x)
      PROVE  GateTypeOK'
  <2>1. Call(r, "found", m, w, x, FALSE, 0) /\ UNCHANGED <<todo, strays>>
    BY <1>3 DEF SetFound
  <2>2. strays' \subseteq X /\ 0 \in 0 .. CountLimit
    BY <2>1, GateAssumption DEF GateTypeOK
  <2> QED  BY <2>1, <2>2, CallType
<1>4. 0 \in 0 .. CountLimit /\ 1 .. CountLimit \subseteq 0 .. CountLimit
  BY GateAssumption
<1> QED  BY <1>1, <1>2, <1>3, <1>4 DEF TrainerCalls, Asks

LEMMA AdmType ==
  ASSUME GateTypeOK, NEW a \in Admin, NEW q \in AdmState, adm' = [adm EXCEPT ![a] = q]
  PROVE  adm' \in [Admin -> AdmState]
BY DEF GateTypeOK

LEMMA AdmFields ==
  ASSUME GateTypeOK, NEW a \in Admin, adm[a].pc # "idle"
  PROVE  adm[a] \in [pc : {"evict", "modeon", "clear", "send"}, w : Worker,
                     to : SUBSET Machine, c : Command \cup {None}]
<1>1. adm[a] \in AdmState /\ adm[a] # AdmIdle
  BY DEF GateTypeOK, AdmIdle
<1> QED  BY <1>1 DEF AdmState

LEMMA AdminType ==
  ASSUME GateTypeOK, AdminCalls \/ \E a \in Admin : AdminStep(a)
  PROVE  GateTypeOK'
<1> USE DEF gateVars, testVars, poolVars, cacheVars, histVars
<1>0. AdmIdle \in AdmState
  BY DEF AdmState
<1>1. ASSUME NEW a \in Admin, NEW w \in Worker, NEW m \in Machine, DeleteMachine(a, w, m)
      PROVE  GateTypeOK'
  <2>1. [pc |-> "evict", w |-> w, to |-> {m}, c |-> None] \in AdmState
    BY DEF AdmState
  <2>2. adm' \in [Admin -> AdmState]
    BY <1>1, <2>1, AdmType DEF DeleteMachine
  <2>3. used' \in [Kind -> Nat]
    BY <1>1, UsesType DEF DeleteMachine, Kind
  <2> QED  BY <1>1, <2>2, <2>3 DEF DeleteMachine, GateTypeOK
<1>2. ASSUME NEW a \in Admin, NEW w \in Worker, NEW T \in SUBSET Machine,
             NEW c \in Command, SendCommand(a, w, T, c)
      PROVE  GateTypeOK'
  <2>1. [pc |-> "send", w |-> w, to |-> T, c |-> c] \in AdmState
    BY DEF AdmState
  <2>2. adm' \in [Admin -> AdmState]
    BY <1>2, <2>1, AdmType DEF SendCommand
  <2>3. used' \in [Kind -> Nat]
    BY <1>2, UsesType DEF SendCommand, Kind
  <2> QED  BY <1>2, <2>2, <2>3 DEF SendCommand, GateTypeOK
<1>3. ASSUME NEW a \in Admin, NEW w \in Worker, NEW S \in SUBSET X, StartTest(a, w, S)
      PROVE  GateTypeOK'
  <2>1. [pc |-> "modeon", w |-> w, to |-> {}, c |-> None] \in AdmState
    BY DEF AdmState
  <2>2. adm' \in [Admin -> AdmState]
    BY <1>3, <2>1, AdmType DEF StartTest
  <2>3. used' \in [Kind -> Nat]
    BY <1>3, UsesType DEF StartTest, Kind
  <2> QED  BY <1>3, <2>2, <2>3 DEF StartTest, GateTypeOK
<1>4. ASSUME NEW a \in Admin, NEW w \in Worker, StopTest(a, w)
      PROVE  GateTypeOK'
  <2>1. [pc |-> "clear", w |-> w, to |-> {}, c |-> None] \in AdmState
    BY DEF AdmState
  <2>2. adm' \in [Admin -> AdmState]
    BY <1>4, <2>1, AdmType DEF StopTest
  <2>3. used' \in [Kind -> Nat]
    BY <1>4, UsesType DEF StopTest, Kind
  <2> QED  BY <1>4, <2>2, <2>3 DEF StopTest, GateTypeOK
<1>5. ASSUME NEW a \in Admin, Evict(a) PROVE GateTypeOK'
  <2>1. adm' \in [Admin -> AdmState]
    BY <1>0, <1>5, AdmType DEF Evict
  <2>2. adm[a].w \in Worker
    BY <1>5, AdmFields DEF Evict
  <2> QED  BY <1>5, <2>1, <2>2 DEF Evict, GateTypeOK
<1>6. ASSUME NEW a \in Admin, SetCommand(a) PROVE GateTypeOK'
  <2>1. PICK m \in adm[a].to :
          /\ cmd' = [cmd EXCEPT ![m] = adm[a].c]
          /\ adm' = [adm EXCEPT ![a] = IF adm[a].to = {m} THEN AdmIdle
                                       ELSE [adm[a] EXCEPT !.to = @ \ {m}]]
    BY <1>6 DEF SetCommand
  <2>2. /\ adm[a].c \in Command \cup {None} /\ m \in Machine
        /\ [adm[a] EXCEPT !.to = @ \ {m}] \in AdmState
    BY <1>6, AdmFields DEF SetCommand, AdmState
  <2>3. adm' \in [Admin -> AdmState]
    BY <1>0, <2>1, <2>2, AdmType
  <2> QED  BY <1>6, <2>1, <2>2, <2>3 DEF SetCommand, GateTypeOK
<1>7. ASSUME NEW a \in Admin, ModeOn(a) \/ ClearItems(a) PROVE GateTypeOK'
  <2>1. adm' \in [Admin -> AdmState]
    BY <1>0, <1>7, AdmType DEF ModeOn, ClearItems
  <2>2. behind' \in [X -> SUBSET (Worker \cup Admin)]
    BY <1>7 DEF ModeOn, ClearItems, Cached, GateTypeOK
  <2> QED  BY <1>7, <2>1, <2>2 DEF ModeOn, ClearItems, GateTypeOK
<1> QED
  BY <1>1, <1>2, <1>3, <1>4, <1>5, <1>6, <1>7 DEF AdminCalls, AdminStep

LEMMA EnvironmentType == ASSUME GateTypeOK, Environment PROVE GateTypeOK'
<1> USE DEF gateVars, testVars, poolVars, cacheVars, histVars
<1>0. AdmIdle \in AdmState /\ Idle \in Request
  BY DEF AdmState, Request
<1>1. ASSUME NEW S \in Seeds, EditSeeds(S) PROVE GateTypeOK'
  <2>1. used' \in [Kind -> Nat]
    BY <1>1, UsesType DEF EditSeeds, Kind
  <2> QED  BY <1>1, <2>1 DEF EditSeeds, GateTypeOK
<1>2. ASSUME NEW r \in Handler, RequestFails(r) PROVE GateTypeOK'
  <2>1. used' \in [Kind -> Nat] /\ req' \in [Handler -> Request]
    BY <1>2, UsesType, AnswerType DEF RequestFails, Kind
  <2>2. todo' \subseteq Held
    BY <1>2, ReportedType DEF RequestFails, Reported, GateTypeOK
  <2>3. strays' \subseteq X
    BY <1>2, SentType DEF RequestFails, Sent, GateTypeOK
  <2> QED  BY <1>2, <2>1, <2>2, <2>3 DEF RequestFails, GateTypeOK
<1>3. ASSUME NEW a \in Admin, AdminFails(a) PROVE GateTypeOK'
  <2>1. used' \in [Kind -> Nat] /\ adm' \in [Admin -> AdmState]
    BY <1>0, <1>3, UsesType, AdmType DEF AdminFails, Kind
  <2>2. behind' \in [X -> SUBSET (Worker \cup Admin)]
    BY <1>3 DEF AdminFails, GateTypeOK
  <2> QED  BY <1>3, <2>1, <2>2 DEF AdminFails, GateTypeOK
<1>4. ASSUME NEW w \in Worker, Restart(w) PROVE GateTypeOK'
  <2>1. used' \in [Kind -> Nat]
    BY <1>4, UsesType DEF Restart, Kind
  <2>2. req' \in [Handler -> Request] /\ adm' \in [Admin -> AdmState]
    BY <1>0, <1>4 DEF Restart, GateTypeOK
  <2>3. behind' \in [X -> SUBSET (Worker \cup Admin)]
    BY <1>4 DEF Restart, GateTypeOK
  <2>4. todo' \subseteq Held
    BY <1>4, ReportedType DEF Restart, Reported, GateTypeOK
  <2>5. strays' \subseteq X
    BY <1>4, SentType DEF Restart, Sent, GateTypeOK
  <2> QED  BY <1>4, <2>1, <2>2, <2>3, <2>4, <2>5 DEF Restart, GateTypeOK
<1>5. ASSUME NEW w \in Worker, ModeCacheExpires(w) PROVE GateTypeOK'
  BY <1>5 DEF ModeCacheExpires, GateTypeOK
<1>6. ASSUME NEW w \in Worker, NEW m \in Machine, FreshExpires(w, m) PROVE GateTypeOK'
  BY <1>6 DEF FreshExpires, GateTypeOK
<1>7. ASSUME NEW m \in Machine, CommandExpires(m) PROVE GateTypeOK'
  BY <1>7 DEF CommandExpires, GateTypeOK
<1>8. ASSUME NEW x \in X, Requeue(x) PROVE GateTypeOK'
  BY <1>8 DEF Requeue, GateTypeOK
<1> QED
  BY <1>1, <1>2, <1>3, <1>4, <1>5, <1>6, <1>7, <1>8 DEF Environment

LEMMA NextType == ASSUME GateTypeOK, [Next]_vars PROVE GateTypeOK'
<1>1. CASE UNCHANGED vars
  BY <1>1 DEF vars, gateVars, testVars, poolVars, cacheVars, histVars, GateTypeOK
<1> QED
  BY <1>1, StepType, TrainerType, AdminType, EnvironmentType DEF Next

LEMMA InitType == Init => GateTypeOK
<1> SUFFICES ASSUME Init PROVE GateTypeOK
  OBVIOUS
<1>1. req \in [Handler -> Request] /\ adm \in [Admin -> AdmState]
  BY DEF Init, Request, AdmState
<1>2. /\ queued \subseteq X /\ ever \subseteq Seeds /\ seeds \in ever
      /\ found = {} /\ skipped = {} /\ strays = {}
  BY GateAssumption DEF Init
<1>3. /\ item \in [X -> {"none", "pending", "active", "done"}]
      /\ cmd \in [Machine -> Command \cup {None}] /\ out \in [X -> Machine \cup {None}]
      /\ admitted \in [Worker -> SUBSET Machine] /\ fresh \in [Worker -> SUBSET Machine]
      /\ modeCache \in [Worker -> {"none", "on", "off"}]
      /\ used \in [Kind -> Nat] /\ behind \in [X -> SUBSET (Worker \cup Admin)]
  BY DEF Init
<1> QED  BY <1>1, <1>2, <1>3 DEF Init, GateTypeOK

\* Type correctness: every variable keeps its type.
THEOREM GateTypes == Spec => []GateTypeOK
BY InitType, NextType, PTL DEF Spec

-----------------------------------------------------------------------------
(* Nobody is served before it has found the seeds, if it ever had rows *)

\* What is found stays found, and whoever was let through without rows stays so:
\* unlike the rows, neither goes with a deletion.
Passed(m) == m \in skipped \/ FoundSeeds(m)

\* A machine that has rows has them for all the seeds of one setting.
RowsInv ==
  /\ solved \subseteq found
  /\ \A m \in Machine :
       Rows(m) # {} => \E S \in ever : \A x \in S : <<m, x>> \in open \cup solved

\* What a request has already seen of its machine.
RequestGate(q) ==
  /\ q.pc = "rows" => q.nums \in ever
  /\ q.pc \in {"readmode", "fastcmd", "verify", "admit", "batch"} => Passed(q.m)

\* A machine that is verified, cached or served has passed.
PassedFound ==
  \A m \in Machine :
    (\/ m \in verified
     \/ \E w \in Worker : m \in admitted[w]
     \/ \E x \in X : out[x] = m) => Passed(m)

RequestsGate == \A q \in {req[r] : r \in Handler} : RequestGate(q)

GateInv == GateTypeOK /\ RowsInv /\ PassedFound /\ RequestsGate

\* A machine none of whose rows is open has found them all, or has none.
LEMMA NoneUnfound ==
  ASSUME GateTypeOK, RowsInv, NEW m \in Machine, Unfound(m) = {},
         ever' = ever, found' = found, skipped' = skipped \cup NoRows(m)
  PROVE  Passed(m)'
<1>1. CASE Rows(m) = {}
  BY <1>1 DEF NoRows, Passed
<1>2. CASE Rows(m) # {}
  <2>1. PICK S \in ever : \A x \in S : <<m, x>> \in open \cup solved
    BY <1>2 DEF RowsInv
  <2>2. S \subseteq X
    BY <2>1, GateAssumption DEF GateTypeOK
  <2>3. \A x \in S : <<m, x>> \in found
    BY <2>1, <2>2 DEF Unfound, RowsInv
  <2> QED  BY <2>1, <2>3 DEF Passed, FoundSeeds
<1> QED  BY <1>1, <1>2

LEMMA NextKeeps ==
  ASSUME [Next]_vars
  PROVE  /\ ever \subseteq ever' /\ found \subseteq found' /\ skipped \subseteq skipped'
         /\ \A m : Passed(m) => Passed(m)'
<1> USE DEF histVars
<1>1. ever \subseteq ever' /\ found \subseteq found' /\ skipped \subseteq skipped'
  <2>1. ASSUME NEW r \in Handler, RequestStep(r) PROVE <1>1!:
    BY <2>1 DEF RequestStep, Stamp, ReadMode, TakeCommand, CheckMode, TakeItems,
                Deliver, CheckVerified, ReadSeeds, InitRows, GiveSeeds, Verify, Admit,
                NextBatch, Ack, ReadBook, Book, MarkSeed, CountSeeds
  <2>2. ASSUME TrainerCalls PROVE <1>1!:
    BY <2>2 DEF TrainerCalls, Asks, GetNumber, MarkDone, SetFound, Call
  <2>3. ASSUME AdminCalls \/ \E a \in Admin : AdminStep(a) PROVE <1>1!:
    BY <2>3 DEF AdminCalls, AdminStep, Evict, SetCommand, ModeOn, ClearItems,
                SendCommand, StartTest, StopTest, DeleteMachine
  <2>4. ASSUME Environment PROVE <1>1!:
    BY <2>4 DEF Environment, EditSeeds, RequestFails, AdminFails, Restart,
                ModeCacheExpires, FreshExpires, CommandExpires, Requeue
  <2>5. ASSUME UNCHANGED vars PROVE <1>1!:
    BY <2>5 DEF vars
  <2> QED  BY <2>1, <2>2, <2>3, <2>4, <2>5 DEF Next
<1>2. ASSUME NEW m, Passed(m) PROVE Passed(m)'
  BY <1>1, <1>2 DEF Passed, FoundSeeds
<1> QED  BY <1>1, <1>2

\* Rows come all at once, and go all at once.
LEMMA NextRows == ASSUME GateTypeOK, RowsInv, RequestsGate, [Next]_vars PROVE RowsInv'
<1> USE DEF gateVars
<1>1. ASSUME UNCHANGED <<open, solved>> PROVE RowsInv'
  BY <1>1, NextKeeps DEF RowsInv, Rows
<1>2. ASSUME NEW r \in Handler, InitRows(r) PROVE RowsInv'
  <2>1. CASE UNCHANGED open
    BY <1>1, <1>2, <2>1 DEF InitRows
  <2>2. CASE open' = open \cup ({<<req[r].m, x>> : x \in req[r].nums} \ solved)
    <3>1. req[r].nums \in ever /\ solved' = solved /\ At(r, "rows")
      BY <1>2 DEF InitRows, RequestsGate, RequestGate, At
    <3>2. ASSUME NEW m \in Machine, Rows(m)' # {}
          PROVE  \E S \in ever' : \A x \in S : <<m, x>> \in open' \cup solved'
      <4>1. CASE m = req[r].m
        <5>1. \A x \in req[r].nums : <<m, x>> \in open' \cup solved'
          BY <2>2, <3>1, <4>1
        <5> QED  BY <3>1, <5>1, NextKeeps
      <4>2. CASE m # req[r].m
        <5>1. \A x : <<m, x>> \in open' \cup solved' <=> <<m, x>> \in open \cup solved
          BY <2>2, <3>1, <4>2
        <5> QED  BY <3>2, <5>1, NextKeeps DEF RowsInv, Rows
      <4> QED  BY <4>1, <4>2
    <3> QED  BY <3>1, <3>2, NextKeeps DEF RowsInv
  <2> QED  BY <1>2, <2>1, <2>2 DEF InitRows
<1>3. ASSUME NEW r \in Handler, MarkSeed(r) PROVE RowsInv'
  <2>1. /\ open' \cup solved' = open \cup solved
        /\ solved' = solved \cup ({<<req[r].m, req[r].x>>} \cap open)
        /\ found' = found \cup ({<<req[r].m, req[r].x>>} \cap open)
    BY <1>3 DEF MarkSeed
  <2> QED  BY <2>1, NextKeeps DEF RowsInv, Rows
<1>4. ASSUME NEW a \in Admin, NEW w \in Worker, NEW n \in Machine, DeleteMachine(a, w, n)
      PROVE  RowsInv'
  <2>1. /\ open' = {row \in open : row[1] # n}
        /\ solved' = {row \in solved : row[1] # n}
    BY <1>4 DEF DeleteMachine
  <2>2. ASSUME NEW m \in Machine, Rows(m)' # {}
        PROVE  \E S \in ever' : \A x \in S : <<m, x>> \in open' \cup solved'
    <3>1. m # n
      BY <2>1, <2>2 DEF Rows
    <3>2. \A x : <<m, x>> \in open' \cup solved' <=> <<m, x>> \in open \cup solved
      BY <2>1, <3>1
    <3> QED  BY <2>2, <3>2, NextKeeps DEF RowsInv, Rows
  <2> QED  BY <2>1, <2>2, NextKeeps DEF RowsInv
<1>5. ASSUME NEW r \in Handler, RequestStep(r), ~InitRows(r), ~MarkSeed(r)
      PROVE  UNCHANGED <<open, solved>>
  BY <1>5 DEF RequestStep, Stamp, ReadMode, TakeCommand, CheckMode, TakeItems, Deliver,
              CheckVerified, ReadSeeds, GiveSeeds, Verify, Admit, NextBatch, Ack,
              ReadBook, Book, CountSeeds
<1>6. ASSUME TrainerCalls PROVE UNCHANGED <<open, solved>>
  BY <1>6 DEF TrainerCalls, Asks, GetNumber, MarkDone, SetFound, Call
<1>7. ASSUME NEW a \in Admin,
             \/ AdminStep(a)
             \/ \E w \in Worker :
                  \/ \E T \in SUBSET Machine, c \in Command : SendCommand(a, w, T, c)
                  \/ \E S \in SUBSET X : StartTest(a, w, S)
                  \/ StopTest(a, w)
      PROVE  UNCHANGED <<open, solved>>
  BY <1>7 DEF AdminStep, Evict, SetCommand, ModeOn, ClearItems, SendCommand, StartTest,
              StopTest
<1>8. ASSUME Environment \/ UNCHANGED vars PROVE UNCHANGED <<open, solved>>
  BY <1>8 DEF vars, Environment, EditSeeds, RequestFails, AdminFails, Restart,
              ModeCacheExpires, FreshExpires, CommandExpires, Requeue
<1> QED
  BY <1>1, <1>2, <1>3, <1>4, <1>5, <1>6, <1>7, <1>8 DEF Next, AdminCalls

LEMMA RequestKept == ASSUME [Next]_vars, NEW q, RequestGate(q) PROVE RequestGate(q)'
BY NextKeeps DEF RequestGate

\* A step that puts request `r' into state `q'.
LEMMA RequestMoves ==
  ASSUME GateTypeOK, [Next]_vars, RequestsGate, NEW r \in Handler, NEW q,
         req' = [req EXCEPT ![r] = q], RequestGate(q)'
  PROVE  RequestsGate'
<1>1. ASSUME NEW p \in {req'[s] : s \in Handler} PROVE RequestGate(p)'
  <2>1. p = q \/ p \in {req[s] : s \in Handler}
    BY <1>1 DEF GateTypeOK
  <2>2. p \in {req[s] : s \in Handler} => RequestGate(p)
    BY DEF RequestsGate
  <2>3. RequestGate(p) => RequestGate(p)'
    BY RequestKept
  <2> QED  BY <2>1, <2>2, <2>3
<1> QED  BY <1>1 DEF RequestsGate

\* A step that gives up requests or leaves them alone.
LEMMA RequestsStay ==
  ASSUME GateTypeOK, [Next]_vars, RequestsGate,
         \A r \in Handler : req'[r] \in {req[r], Idle}
  PROVE  RequestsGate'
<1>1. RequestGate(Idle)'
  BY DEF RequestGate, Idle
<1>2. ASSUME NEW p \in {req'[s] : s \in Handler} PROVE RequestGate(p)'
  <2>1. p = Idle \/ p \in {req[s] : s \in Handler}
    BY <1>2
  <2>2. p \in {req[s] : s \in Handler} => RequestGate(p)
    BY DEF RequestsGate
  <2>3. RequestGate(p) => RequestGate(p)'
    BY RequestKept
  <2> QED  BY <1>1, <2>1, <2>2, <2>3
<1> QED  BY <1>2 DEF RequestsGate

LEMMA AnswerGate ==
  ASSUME GateTypeOK, [Next]_vars, RequestsGate, NEW r \in Handler, Answer(r)
  PROVE  RequestsGate'
<1>1. \A s \in Handler : req'[s] \in {req[s], Idle}
  BY DEF Answer, GateTypeOK
<1> QED  BY <1>1, RequestsStay

LEMMA HandOutGate ==
  ASSUME GateTypeOK, [Next]_vars, RequestsGate, NEW r \in Handler, ~At(r, "idle"),
         NEW T, T \subseteq X, NEW leased \in BOOLEAN, HandOut(r, T, leased)
  PROVE  RequestsGate'
<1>1. PICK q \in Request : /\ req' = [req EXCEPT ![r] = q]
                           /\ q = Idle \/ q.pc = "answer"
  BY HandOutIs
<1>2. RequestGate(q)'
  BY <1>1 DEF RequestGate, Idle
<1> QED  BY <1>1, <1>2, RequestMoves

\* A request of machine `m' goes on to `pc', from what it knows of the machine.
LEMMA GotoGate ==
  ASSUME GateTypeOK, [Next]_vars, RequestsGate, NEW r \in Handler, ~At(r, "idle"),
         NEW m, m = req[r].m, NEW pc, Goto(r, pc), pc # "rows",
         pc \in {"readmode", "fastcmd", "verify", "admit", "batch"} => Passed(m)'
  PROVE  RequestsGate'
<1>1. /\ [req[r] EXCEPT !.pc = pc].m = m
      /\ [req[r] EXCEPT !.pc = pc].pc = pc
  BY BusyFields
<1>2. PICK q : q.m = m /\ q.pc = pc /\ req' = [req EXCEPT ![r] = q]
  BY <1>1 DEF Goto
<1>3. RequestGate(q)'
  BY <1>2 DEF RequestGate
<1> QED  BY <1>2, <1>3, RequestMoves

\* A machine is let pass.
LEMMA PassedGrows ==
  ASSUME GateTypeOK, [Next]_vars, PassedFound, NEW m, Passed(m)',
         verified' \subseteq verified \cup {m},
         \A w \in Worker : admitted'[w] \subseteq admitted[w] \cup {m},
         \A x \in X : out'[x] \in {out[x], None, m}
  PROVE  PassedFound'
<1>1. ASSUME NEW n \in Machine, n # m,
             \/ n \in verified'
             \/ \E w \in Worker : n \in admitted'[w]
             \/ \E x \in X : out'[x] = n
      PROVE  Passed(n)'
  <2>1. n # None
    BY GateAssumption
  <2>2. Passed(n)
    BY <1>1, <2>1 DEF PassedFound
  <2> QED  BY <2>2, NextKeeps
<1> QED  BY <1>1 DEF PassedFound

LEMMA PassedStays ==
  ASSUME GateTypeOK, [Next]_vars, PassedFound, verified' \subseteq verified,
         \A w \in Worker : admitted'[w] \subseteq admitted[w],
         \A x \in X : out'[x] \in {out[x], None}
  PROVE  PassedFound'
<1>1. ASSUME NEW n \in Machine,
             \/ n \in verified'
             \/ \E w \in Worker : n \in admitted'[w]
             \/ \E x \in X : out'[x] = n
      PROVE  Passed(n)'
  <2>1. n # None
    BY GateAssumption
  <2>2. Passed(n)
    BY <1>1, <2>1 DEF PassedFound
  <2> QED  BY <2>2, NextKeeps
<1> QED  BY <1>1 DEF PassedFound

LEMMA EntryKnows ==
  ASSUME NEW op \in Op, NEW m \in Machine, NEW w \in Worker, NEW n \in Nat,
         Entry(op, m, w, n) \in {"readmode", "fastcmd"}
  PROVE  m \in admitted[w]
<1>1. n = 0 \/ n > 0
  OBVIOUS
<1> QED  BY <1>1 DEF Entry, Op

LEMMA StepGate ==
  ASSUME GateInv, NEW r \in Handler, RequestStep(r)
  PROVE  PassedFound' /\ RequestsGate'
<1> USE DEF gateVars, testVars, poolVars, cacheVars
<1>0. GateTypeOK /\ RowsInv /\ PassedFound /\ RequestsGate /\ [Next]_vars
  BY DEF GateInv, Next
<1>1. ~At(r, "idle")
  BY DEF RequestStep, At, Stamp, ReadMode, TakeCommand, CheckMode, TakeItems, Deliver,
         CheckVerified, ReadSeeds, InitRows, GiveSeeds, Verify, Admit, NextBatch, Ack,
         ReadBook, Book, MarkSeed, CountSeeds
<1>2. PICK m \in Machine, w \in Worker, op \in Op, n \in Nat :
        m = req[r].m /\ w = req[r].w /\ op = req[r].op /\ n = req[r].n
  <2>1. /\ req[r].m \in Machine /\ req[r].w \in Worker /\ req[r].op \in Op
        /\ req[r].n \in Nat
    BY <1>0, <1>1, BusyFields, GateAssumption
  <2> QED  BY <2>1
<1>3. req[r].pc \in {"readmode", "fastcmd", "verify", "admit", "batch"} => Passed(m)'
  <2>1. RequestGate(req[r])
    BY <1>0 DEF RequestsGate
  <2> QED  BY <1>0, <1>2, <2>1, NextKeeps DEF RequestGate
<1>4. m \in verified \/ m \in admitted[w] => Passed(m)'
  BY <1>0, NextKeeps DEF PassedFound
<1>5. ASSUME UNCHANGED <<verified, admitted, out>> PROVE PassedFound'
  <2>1. \A v \in Worker : admitted'[v] \subseteq admitted[v]
    BY <1>5
  <2> QED  BY <1>0, <1>5, <2>1, PassedStays
<1>6. CASE Stamp(r)
  <2> DEFINE pc == Entry(op, m, w, n)
  <2>1. /\ IF pc = "idle" THEN Answer(r) ELSE Goto(r, pc)
        /\ UNCHANGED <<verified, admitted, out>>
    BY <1>2, <1>6 DEF Stamp
  <2>2. pc \in {"ack", "check", "idle", "slowcmd", "fastcmd", "readmode"}
    BY EntryPc
  <2>3. pc \in {"readmode", "fastcmd"} => Passed(m)'
    BY <1>4, EntryKnows
  <2> HIDE DEF pc
  <2>4. RequestsGate'
    BY <1>0, <1>1, <1>2, <2>1, <2>2, <2>3, AnswerGate, GotoGate
  <2> QED  BY <1>5, <2>1, <2>4
<1>7. CASE ReadMode(r)
  <2>1. /\ At(r, "readmode") /\ \E pc \in {"slowcmd", "fastcmd"} : Goto(r, pc)
        /\ UNCHANGED <<verified, admitted, out>>
    BY <1>7 DEF ReadMode
  <2>2. Passed(m)'
    BY <1>3, <2>1 DEF At
  <2>3. RequestsGate'
    BY <1>0, <1>1, <1>2, <2>1, <2>2, GotoGate
  <2> QED  BY <1>5, <2>1, <2>3
<1>8. CASE TakeCommand(r)
  <2>1. /\ Answer(r) \/ Goto(r, "mode") \/ (At(r, "fastcmd") /\ Goto(r, "batch"))
        /\ UNCHANGED <<verified, admitted, out>>
    BY <1>8 DEF TakeCommand
  <2>2. At(r, "fastcmd") => Passed(m)'
    BY <1>3 DEF At
  <2>3. RequestsGate'
    BY <1>0, <1>1, <1>2, <2>1, <2>2, AnswerGate, GotoGate
  <2> QED  BY <1>5, <2>1, <2>3
<1>9. CASE CheckMode(r)
  <2>1. /\ \E pc \in {"items", "check"} : Goto(r, pc)
        /\ UNCHANGED <<verified, admitted, out>>
    BY <1>9 DEF CheckMode
  <2>2. RequestsGate'
    BY <1>0, <1>1, <1>2, <2>1, GotoGate
  <2> QED  BY <1>5, <2>1, <2>2
<1>10. CASE TakeItems(r)
  <2>1. /\ UNCHANGED <<verified, admitted, out>>
        /\ \E T \in SUBSET X : HandOut(r, T, FALSE)
    BY <1>10 DEF TakeItems, Some
  <2>2. RequestsGate'
    BY <1>0, <1>1, <2>1, HandOutGate
  <2> QED  BY <1>5, <2>1, <2>2
<1>11. CASE CheckVerified(r)
  <2>1. /\ \/ Answer(r)
           \/ m \in verified /\ Goto(r, "admit")
           \/ \E pc \in {"seeds", "mark"} : Goto(r, pc)
        /\ UNCHANGED <<verified, admitted, out>>
    BY <1>2, <1>11 DEF CheckVerified
  <2>2. RequestsGate'
    BY <1>0, <1>1, <1>2, <1>4, <2>1, AnswerGate, GotoGate
  <2> QED  BY <1>5, <2>1, <2>2
<1>12. CASE ReadSeeds(r)
  <2>1. PICK pc, S, q :
          /\ pc = IF S = {} THEN "verify" ELSE "rows"
          /\ S = seeds /\ q = [req[r] EXCEPT !.pc = pc, !.nums = S]
          /\ req' = [req EXCEPT ![r] = q]
    BY <1>12 DEF ReadSeeds
  <2>2. UNCHANGED <<verified, admitted, out, ever>>
    BY <1>12 DEF ReadSeeds, histVars
  <2>3. S \in ever'
    BY <1>0, <2>1, <2>2 DEF GateTypeOK
  <2>4. q.pc = pc /\ q.nums = S /\ q.m = m
    BY <1>0, <1>1, <1>2, <2>1, BusyFields
  <2>5. S = {} => Passed(m)'
    BY <2>3 DEF Passed, FoundSeeds
  <2>6. RequestGate(q)'
    BY <2>1, <2>3, <2>4, <2>5 DEF RequestGate
  <2>7. RequestsGate'
    BY <1>0, <2>1, <2>6, RequestMoves
  <2> QED  BY <1>5, <2>2, <2>7
<1>13. CASE InitRows(r) \/ ReadBook(r) \/ Book(r) \/ MarkSeed(r) \/ Deliver(r)
  <2>1. /\ UNCHANGED <<verified, admitted, out>>
        /\ Answer(r) \/ \E pc \in {"unfound", "book", "count"} : Goto(r, pc)
    BY <1>13 DEF InitRows, ReadBook, Book, MarkSeed, Deliver
  <2>2. RequestsGate'
    BY <1>0, <1>1, <1>2, <2>1, AnswerGate, GotoGate
  <2> QED  BY <1>5, <2>1, <2>2
<1>14. CASE GiveSeeds(r) \/ CountSeeds(r)
  <2>1. /\ UNCHANGED <<verified, admitted, out, ever, found>>
        /\ skipped' = skipped \cup NoRows(m)
        /\ Answer(r) \/ (Unfound(m) = {} /\ Goto(r, "verify"))
    BY <1>2, <1>14 DEF GiveSeeds, CountSeeds, AllSeedsFound
  <2>2. Unfound(m) = {} => Passed(m)'
    BY <1>0, <2>1, NoneUnfound
  <2>3. RequestsGate'
    BY <1>0, <1>1, <1>2, <2>1, <2>2, AnswerGate, GotoGate
  <2> QED  BY <1>5, <2>1, <2>3
<1>15. CASE Verify(r)
  <2>1. /\ At(r, "verify") /\ Goto(r, "admit") /\ UNCHANGED <<admitted, out>>
        /\ verified' \subseteq verified \cup {m}
    BY <1>2, <1>15 DEF Verify
  <2>2. Passed(m)'
    BY <1>3, <2>1 DEF At
  <2>3. RequestsGate'
    BY <1>0, <1>1, <1>2, <2>1, <2>2, GotoGate
  <2>4. \A v \in Worker : admitted'[v] \subseteq admitted[v] \cup {m}
    BY <2>1
  <2> QED  BY <1>0, <2>1, <2>2, <2>3, <2>4, PassedGrows
<1>16. CASE Admit(r)
  <2>1. /\ At(r, "admit") /\ (Answer(r) \/ Goto(r, "batch"))
        /\ UNCHANGED <<verified, out>>
        /\ admitted' = [admitted EXCEPT ![w] = @ \cup {m}]
    BY <1>2, <1>16 DEF Admit
  <2>2. Passed(m)'
    BY <1>3, <2>1 DEF At
  <2>3. RequestsGate'
    BY <1>0, <1>1, <1>2, <2>1, <2>2, AnswerGate, GotoGate
  <2>4. \A v \in Worker : admitted'[v] \subseteq admitted[v] \cup {m}
    BY <1>0, <2>1 DEF GateTypeOK
  <2> QED  BY <1>0, <2>1, <2>2, <2>3, <2>4, PassedGrows
<1>17. CASE NextBatch(r)
  <2>1. /\ At(r, "batch") /\ UNCHANGED <<verified, admitted>>
        /\ \A x \in X : out'[x] \in {out[x], m}
        /\ \E T \in SUBSET X : HandOut(r, T, TRUE)
    BY <1>0, <1>2, <1>17 DEF NextBatch, Some, GateTypeOK
  <2>2. Passed(m)'
    BY <1>3, <2>1 DEF At
  <2>3. \A v \in Worker : admitted'[v] \subseteq admitted[v] \cup {m}
    BY <2>1
  <2>4. PassedFound'
    BY <1>0, <2>1, <2>2, <2>3, PassedGrows
  <2> QED  BY <1>0, <1>1, <2>1, <2>4, HandOutGate
<1>18. CASE Ack(r)
  <2>1. /\ UNCHANGED <<verified, admitted>>
        /\ Answer(r) \/ \E pc \in {"readbook", "book"} : Goto(r, pc)
        /\ UNCHANGED out \/ out' = [out EXCEPT ![req[r].x] = None]
    <3>1. modeCache[w] \in {"none", "on", "off"}
      BY <1>0 DEF GateTypeOK
    <3> QED  BY <1>2, <1>18, <3>1 DEF Ack
  <2>2. \A x \in X : out'[x] \in {out[x], None}
    BY <1>0, <2>1 DEF GateTypeOK
  <2>3. RequestsGate'
    BY <1>0, <1>1, <1>2, <2>1, AnswerGate, GotoGate
  <2>4. \A v \in Worker : admitted'[v] \subseteq admitted[v]
    BY <2>1
  <2> QED  BY <1>0, <2>1, <2>2, <2>3, <2>4, PassedStays
<1> QED
  BY <1>6, <1>7, <1>8, <1>9, <1>10, <1>11, <1>12, <1>13, <1>14, <1>15, <1>16, <1>17,
     <1>18 DEF RequestStep

LEMMA CallGate ==
  ASSUME GateInv, [Next]_vars, NEW r \in Handler, NEW op, NEW m \in Machine,
         NEW w \in Worker, NEW x, NEW leased, NEW n \in 0 .. CountLimit,
         Call(r, op, m, w, x, leased, n)
  PROVE  PassedFound' /\ RequestsGate'
<1> DEFINE pc == IF m \in fresh[w] THEN Entry(op, m, w, n) ELSE "stamp"
           q == [pc |-> pc, op |-> op, m |-> m, w |-> w, x |-> x, leased |-> leased,
                 n |-> n, nums |-> {}]
<1>0. GateTypeOK /\ PassedFound /\ RequestsGate
  BY DEF GateInv
<1>1. op \in Op /\ n \in Nat
  BY GateAssumption DEF Call, Op
<1>2. /\ req' = [req EXCEPT ![r] = q]
      /\ UNCHANGED <<verified, admitted, out>>
  BY DEF Call, poolVars, cacheVars
<1>3. pc \in {"stamp", "ack", "check", "idle", "slowcmd", "fastcmd", "readmode"}
  BY <1>1, EntryPc
<1>4. pc \in {"readmode", "fastcmd"} => Passed(m)
  BY <1>0, <1>1, EntryKnows DEF PassedFound
<1> HIDE DEF pc
<1>5. RequestGate(q)
  BY <1>3, <1>4 DEF RequestGate
<1> HIDE DEF q
<1>6. PICK new : new = q /\ RequestGate(new)
  BY <1>5
<1>7. RequestsGate'
  <2>1. RequestGate(new)'
    BY <1>6, RequestKept
  <2> QED  BY <1>0, <1>2, <1>6, <2>1, RequestMoves
<1>8. \A v \in Worker : admitted'[v] \subseteq admitted[v]
  BY <1>2
<1> QED  BY <1>0, <1>2, <1>7, <1>8, PassedStays

LEMMA TrainerGateKept ==
  ASSUME GateInv, TrainerCalls
  PROVE  PassedFound' /\ RequestsGate'
<1>1. [Next]_vars
  BY DEF Next
<1>2. 0 \in 0 .. CountLimit /\ 1 .. CountLimit \subseteq 0 .. CountLimit
  BY GateAssumption
<1>3. ASSUME NEW r \in Handler, NEW w \in Worker, NEW m \in Machine,
             NEW n \in 0 .. CountLimit, GetNumber(r, m, w, n)
      PROVE  PassedFound' /\ RequestsGate'
  BY <1>1, <1>3, CallGate DEF GetNumber
<1>4. ASSUME NEW r \in Handler, NEW w \in Worker, NEW g \in Held, MarkDone(r, w, g)
      PROVE  PassedFound' /\ RequestsGate'
  <2>1. g.m \in Machine /\ Call(r, "done", g.m, w, g.x, g.leased, 0)
    BY <1>4 DEF MarkDone, Held
  <2> QED  BY <1>1, <1>2, <2>1, CallGate
<1>5. ASSUME NEW r \in Handler, NEW w \in Worker, NEW m \in Machine, NEW x \in X,
             SetFound(r, w, m, x)
      PROVE  PassedFound' /\ RequestsGate'
  BY <1>1, <1>2, <1>5, CallGate DEF SetFound
<1> QED  BY <1>2, <1>3, <1>4, <1>5 DEF TrainerCalls, Asks

\* Administrators and failures only take away what lets a machine pass.
LEMMA OthersGate ==
  ASSUME GateInv, \/ AdminCalls \/ Environment \/ UNCHANGED vars
                  \/ \E a \in Admin : AdminStep(a)
  PROVE  PassedFound' /\ RequestsGate'
<1> USE DEF gateVars, poolVars, cacheVars
<1>0. GateTypeOK /\ PassedFound /\ RequestsGate /\ [Next]_vars
  BY DEF GateInv, Next
<1>1. /\ verified' \subseteq verified
      /\ \A w \in Worker : admitted'[w] \subseteq admitted[w]
      /\ \A x \in X : out'[x] \in {out[x], None}
      /\ \A r \in Handler : req'[r] \in {req[r], Idle}
  <2>1. ASSUME AdminCalls PROVE <1>1!:
    BY <2>1 DEF AdminCalls, DeleteMachine, SendCommand, StartTest, StopTest
  <2>2. ASSUME NEW a \in Admin, Evict(a) PROVE <1>1!:
    BY <1>0, <2>2 DEF Evict, GateTypeOK
  <2>3. ASSUME NEW a \in Admin, SetCommand(a) \/ ModeOn(a) \/ ClearItems(a) PROVE <1>1!:
    BY <2>3 DEF SetCommand, ModeOn, ClearItems
  <2>4. ASSUME NEW w \in Worker, Restart(w) PROVE <1>1!:
    BY <1>0, <2>4 DEF Restart, GateTypeOK
  <2>5. ASSUME NEW r \in Handler, RequestFails(r) PROVE <1>1!:
    BY <1>0, <2>5 DEF RequestFails, Answer, GateTypeOK
  <2>6. ASSUME NEW x \in X, Requeue(x) PROVE <1>1!:
    BY <1>0, <2>6 DEF Requeue, GateTypeOK
  <2>7. ASSUME \/ \E S \in Seeds : EditSeeds(S)
               \/ \E a \in Admin : AdminFails(a)
               \/ \E w \in Worker : ModeCacheExpires(w)
               \/ \E w \in Worker, m \in Machine : FreshExpires(w, m)
               \/ \E m \in Machine : CommandExpires(m)
        PROVE  <1>1!:
    BY <2>7 DEF EditSeeds, AdminFails, ModeCacheExpires, FreshExpires, CommandExpires
  <2>8. ASSUME UNCHANGED vars PROVE <1>1!:
    BY <2>8 DEF vars
  <2> QED
    BY <2>1, <2>2, <2>3, <2>4, <2>5, <2>6, <2>7, <2>8 DEF AdminStep, Environment
<1> QED  BY <1>0, <1>1, PassedStays, RequestsStay

LEMMA NextGate == ASSUME GateInv, [Next]_vars PROVE GateInv'
<1>1. GateTypeOK' /\ RowsInv'
  BY NextType, NextRows DEF GateInv
<1>2. PassedFound' /\ RequestsGate'
  BY StepGate, TrainerGateKept, OthersGate DEF Next
<1> QED  BY <1>1, <1>2 DEF GateInv

LEMMA InitGate == Init => GateInv
<1> SUFFICES ASSUME Init PROVE GateInv
  OBVIOUS
<1>1. PassedFound /\ RowsInv
  BY GateAssumption DEF Init, PassedFound, RowsInv, Rows
<1>2. RequestsGate
  BY DEF Init, RequestsGate, RequestGate, Idle
<1> QED  BY <1>1, <1>2, InitType DEF GateInv

LEMMA GateServes == GateInv => ServedFoundSeeds
<1> SUFFICES ASSUME GateInv, NEW x \in X, out[x] # None
             PROVE  Passed(out[x])
  BY DEF ServedFoundSeeds, Passed
<1>1. out[x] \in Machine
  BY DEF GateInv, GateTypeOK
<1> QED  BY <1>1 DEF GateInv, PassedFound

\* Settings page: "New machines must find all these X values before receiving real
\* ranges."  For any machines, workers, requests, edits of the setting, deletions and
\* failures, and whatever trainers report unasked: who has an X of the pool has some time
\* found the seeds of one setting, or was let through at a time when it had no rows of
\* machine_verify.  The second does happen: its first request may be set_found.
THEOREM GateKeeps == Spec => []ServedFoundSeeds
BY InitGate, NextGate, GateServes, PTL DEF Spec

-----------------------------------------------------------------------------
(* The caches of the workers *)

Known == registered \cup deleted

\* A request that is past the registration has a machine with a row; one that is about
\* to add it to the cache has a verified machine; unless the machine was deleted.
RequestKnows(q) ==
  q # Idle => /\ q.m \in Known
              /\ q.pc = "admit" => q.m \in verified \cup deleted

CacheInv ==
  /\ GateTypeOK /\ CacheVerified
  /\ \A w \in Worker : fresh[w] \subseteq Known
  /\ \A q \in {req[r] : r \in Handler} : RequestKnows(q)

\* Rows go only with a deletion.
LEMMA NextKnown ==
  ASSUME GateTypeOK, [Next]_vars
  PROVE  Known \subseteq Known' /\ verified \cup deleted \subseteq verified' \cup deleted'
<1> USE DEF gateVars, testVars, poolVars, cacheVars, histVars, Known
<1>1. ASSUME NEW r \in Handler, RequestStep(r)
      PROVE  /\ registered' = registered /\ deleted' = deleted
             /\ verified \subseteq verified'
  BY <1>1 DEF RequestStep, Stamp, ReadMode, TakeCommand, CheckMode, TakeItems,
              Deliver, CheckVerified, ReadSeeds, InitRows, GiveSeeds, Verify, Admit,
              NextBatch, Ack, ReadBook, Book, MarkSeed, CountSeeds
<1>2. ASSUME TrainerCalls
      PROVE  /\ registered \subseteq registered' /\ deleted' = deleted
             /\ verified' = verified
  BY <1>2 DEF TrainerCalls, Asks, GetNumber, MarkDone, SetFound, Call
<1>3. ASSUME NEW a \in Admin, NEW w \in Worker, NEW n \in Machine, DeleteMachine(a, w, n)
      PROVE  /\ registered' = registered \ {n} /\ verified' = verified \ {n}
             /\ deleted' = deleted \cup {n}
  BY <1>3 DEF DeleteMachine
<1>4. ASSUME NEW a \in Admin,
             \/ AdminStep(a)
             \/ \E w \in Worker :
                  \/ \E T \in SUBSET Machine, c \in Command : SendCommand(a, w, T, c)
                  \/ \E S \in SUBSET X : StartTest(a, w, S)
                  \/ StopTest(a, w)
      PROVE  registered' = registered /\ verified' = verified /\ deleted' = deleted
  BY <1>4 DEF AdminStep, Evict, SetCommand, ModeOn, ClearItems, SendCommand, StartTest,
              StopTest
<1>5. ASSUME Environment \/ UNCHANGED vars
      PROVE  registered' = registered /\ verified' = verified /\ deleted' = deleted
  BY <1>5 DEF vars, Environment, EditSeeds, RequestFails, AdminFails, Restart,
              ModeCacheExpires, FreshExpires, CommandExpires, Requeue
<1> QED  BY <1>1, <1>2, <1>3, <1>4, <1>5 DEF Next, AdminCalls

\* A step that keeps what the caches and the requests know.
LEMMA CacheStays ==
  ASSUME CacheInv, [Next]_vars,
         \A w \in Worker : /\ admitted'[w] \subseteq admitted[w] \cup verified \cup deleted
                           /\ fresh'[w] \subseteq fresh[w] \cup Known,
         NEW q, RequestKnows(q)',
         \A r \in Handler : req'[r] \in {req[r], Idle, q}
  PROVE  CacheInv'
<1>0. GateTypeOK /\ CacheVerified
  BY DEF CacheInv
<1>1. Known \subseteq Known' /\ verified \cup deleted \subseteq verified' \cup deleted'
  BY <1>0, NextKnown
<1>2. GateTypeOK'
  BY <1>0, NextType
<1>3. CacheVerified'
  BY <1>0, <1>1 DEF CacheVerified
<1>4. \A w \in Worker : fresh'[w] \subseteq Known'
  BY <1>1 DEF CacheInv
<1>5. ASSUME NEW p \in {req'[r] : r \in Handler} PROVE RequestKnows(p)'
  <2>1. p = Idle \/ p = q \/ p \in {req[r] : r \in Handler}
    BY <1>5
  <2>2. p \in {req[r] : r \in Handler} => RequestKnows(p)
    BY DEF CacheInv
  <2>3. RequestKnows(p) => RequestKnows(p)'
    BY <1>1 DEF RequestKnows
  <2>4. RequestKnows(Idle)'
    BY DEF RequestKnows
  <2> QED  BY <2>1, <2>2, <2>3, <2>4
<1> QED  BY <1>2, <1>3, <1>4, <1>5 DEF CacheInv

\* In particular one that moves a request along with the machine it has.
LEMMA CacheGoes ==
  ASSUME CacheInv, [Next]_vars, NEW r \in Handler, ~At(r, "idle"),
         \A w \in Worker : /\ admitted'[w] \subseteq admitted[w] \cup verified \cup deleted
                           /\ fresh'[w] \subseteq fresh[w] \cup Known,
         \/ Answer(r)
         \/ \E pc : /\ Goto(r, pc)
                    /\ pc = "admit" => req[r].m \in verified' \cup deleted'
  PROVE  CacheInv'
<1>0. GateTypeOK
  BY DEF CacheInv
<1>1. PICK m, q :
        /\ m = req[r].m /\ m \in Known /\ q.m = m
        /\ q.pc = "admit" => m \in verified' \cup deleted'
        /\ \A s \in Handler : req'[s] \in {req[s], Idle, q}
  <2>1. req[r].m \in Machine /\ req[r].m \in Known
    <3>1. RequestKnows(req[r]) /\ req[r] # Idle
      BY DEF CacheInv, At, Idle
    <3> QED  BY <1>0, <3>1, BusyFields DEF RequestKnows
  <2>2. CASE Answer(r)
    <3>1. [req[r] EXCEPT !.pc = "stamp"].m = req[r].m
          /\ [req[r] EXCEPT !.pc = "stamp"].pc = "stamp"
      BY <1>0, BusyFields
    <3>2. \A s \in Handler : req'[s] \in {req[s], Idle}
      BY <1>0, <2>2 DEF Answer, GateTypeOK
    <3> QED  BY <2>1, <3>1, <3>2
  <2>3. CASE \E pc : Goto(r, pc) /\ (pc = "admit" => req[r].m \in verified' \cup deleted')
    <3>1. PICK pc : Goto(r, pc) /\ (pc = "admit" => req[r].m \in verified' \cup deleted')
      BY <2>3
    <3>2. /\ [req[r] EXCEPT !.pc = pc].m = req[r].m
          /\ [req[r] EXCEPT !.pc = pc].pc = pc
      BY <1>0, BusyFields
    <3>3. \A s \in Handler : req'[s] \in {req[s], [req[r] EXCEPT !.pc = pc]}
      BY <1>0, <3>1 DEF Goto, GateTypeOK
    <3> QED  BY <2>1, <3>1, <3>2, <3>3
  <2> QED  BY <2>2, <2>3
<1>2. RequestKnows(q)'
  BY <1>0, <1>1, NextKnown DEF RequestKnows
<1> QED  BY <1>1, <1>2, CacheStays

LEMMA StepCache == ASSUME CacheInv, NEW r \in Handler, RequestStep(r) PROVE CacheInv'
<1> USE DEF gateVars, testVars, poolVars, cacheVars, histVars
<1>0. GateTypeOK /\ CacheVerified /\ [Next]_vars
  BY DEF CacheInv, Next
<1>1. ~At(r, "idle")
  BY DEF RequestStep, At, Stamp, ReadMode, TakeCommand, CheckMode, TakeItems, Deliver,
         CheckVerified, ReadSeeds, InitRows, GiveSeeds, Verify, Admit, NextBatch, Ack,
         ReadBook, Book, MarkSeed, CountSeeds
<1>2. /\ req[r].m \in Machine /\ req[r].w \in Worker /\ req[r].op \in Op
      /\ req[r].n \in Nat
  BY <1>0, <1>1, BusyFields, GateAssumption
<1>3. /\ req[r].m \in Known
      /\ At(r, "admit") => req[r].m \in verified \cup deleted
  <2>1. req[r] # Idle /\ RequestKnows(req[r])
    BY <1>1 DEF CacheInv, At, Idle
  <2> QED  BY <2>1 DEF RequestKnows, At
<1>4. ASSUME UNCHANGED <<admitted, fresh>>,
             Answer(r) \/ \E pc : Goto(r, pc) /\ pc # "admit"
      PROVE  CacheInv'
  BY <1>0, <1>1, <1>4, CacheGoes
<1>5. CASE Stamp(r)
  <2> DEFINE pc == Entry(req[r].op, req[r].m, req[r].w, req[r].n)
  <2>1. /\ IF pc = "idle" THEN Answer(r) ELSE Goto(r, pc)
        /\ UNCHANGED admitted
        /\ fresh' = [fresh EXCEPT ![req[r].w] = @ \cup {req[r].m}]
    BY <1>5 DEF Stamp
  <2>2. pc # "admit"
    BY <1>2, EntryPc
  <2> HIDE DEF pc
  <2>3. \A v \in Worker : /\ admitted'[v] \subseteq admitted[v] \cup verified \cup deleted
                          /\ fresh'[v] \subseteq fresh[v] \cup Known
    BY <1>0, <1>3, <2>1 DEF GateTypeOK
  <2> QED  BY <1>0, <1>1, <2>1, <2>2, <2>3, CacheGoes
<1>6. CASE CheckVerified(r)
  <2>1. /\ UNCHANGED <<admitted, fresh, verified>>
        /\ \/ Answer(r)
           \/ \E pc : Goto(r, pc) /\ (pc = "admit" => req[r].m \in verified)
    BY <1>6 DEF CheckVerified
  <2> QED  BY <1>0, <1>1, <2>1, CacheGoes
<1>7. CASE ReadSeeds(r)
  <2> DEFINE q == [req[r] EXCEPT !.pc = IF seeds = {} THEN "verify" ELSE "rows",
                                 !.nums = seeds]
  <2>1. req' = [req EXCEPT ![r] = q] /\ UNCHANGED <<admitted, fresh>>
    BY <1>7 DEF ReadSeeds
  <2>2. q.m = req[r].m /\ q.pc \in {"verify", "rows"}
    BY <1>0, <1>1, BusyFields
  <2> HIDE DEF q
  <2>3. PICK new : new = q /\ new.m \in Known /\ new.pc \in {"verify", "rows"}
    BY <1>3, <2>2
  <2>4. RequestKnows(new)'
    BY <1>0, <2>3, NextKnown DEF RequestKnows
  <2>5. \A s \in Handler : req'[s] \in {req[s], Idle, new}
    BY <1>0, <2>1, <2>3 DEF GateTypeOK
  <2> QED  BY <1>0, <2>1, <2>4, <2>5, CacheStays
<1>8. CASE Verify(r)
  <2>1. /\ UNCHANGED <<admitted, fresh, deleted>> /\ Goto(r, "admit")
        /\ verified' = verified \cup ({req[r].m} \cap registered)
    BY <1>8 DEF Verify
  <2>2. req[r].m \in verified' \cup deleted'
    BY <1>3, <2>1 DEF Known
  <2> QED  BY <1>0, <1>1, <2>1, <2>2, CacheGoes
<1>9. CASE Admit(r)
  <2>1. /\ At(r, "admit") /\ (Answer(r) \/ Goto(r, "batch")) /\ UNCHANGED fresh
        /\ admitted' = [admitted EXCEPT ![req[r].w] = @ \cup {req[r].m}]
    BY <1>9 DEF Admit
  <2>2. \A v \in Worker : /\ admitted'[v] \subseteq admitted[v] \cup verified \cup deleted
                          /\ fresh'[v] \subseteq fresh[v] \cup Known
    BY <1>0, <1>3, <2>1 DEF GateTypeOK
  <2> QED  BY <1>0, <1>1, <2>1, <2>2, CacheGoes
<1>10. CASE \/ ReadMode(r) \/ TakeCommand(r) \/ CheckMode(r) \/ Deliver(r)
            \/ ReadBook(r) \/ Book(r)
  <2>1. /\ UNCHANGED <<admitted, fresh>>
        /\ \/ Answer(r)
           \/ \E pc \in {"slowcmd", "fastcmd", "batch", "mode", "items", "check", "book"} :
                Goto(r, pc)
    BY <1>10 DEF ReadMode, TakeCommand, CheckMode, Deliver, ReadBook, Book
  <2> QED  BY <1>4, <2>1
<1>13. CASE TakeItems(r) \/ NextBatch(r)
  <2>1. /\ UNCHANGED <<admitted, fresh>>
        /\ \E T \in SUBSET X, leased \in BOOLEAN : HandOut(r, T, leased)
    BY <1>0, <1>13 DEF TakeItems, NextBatch, Some, GateTypeOK
  <2>2. PICK q \in Request :
          /\ req' = [req EXCEPT ![r] = q]
          /\ q = Idle \/ (q.pc = "answer" /\ q.m = req[r].m)
    BY <1>0, <1>1, <2>1, HandOutIs
  <2>3. RequestKnows(q)'
    BY <1>0, <1>3, <2>2, NextKnown DEF RequestKnows
  <2>4. \A s \in Handler : req'[s] \in {req[s], Idle, q}
    BY <1>0, <2>2 DEF GateTypeOK
  <2> QED  BY <1>0, <2>1, <2>3, <2>4, CacheStays
<1>11. CASE InitRows(r) \/ GiveSeeds(r) \/ MarkSeed(r) \/ CountSeeds(r)
  <2>1. /\ UNCHANGED <<admitted, fresh>>
        /\ Answer(r) \/ \E pc \in {"unfound", "verify", "count"} : Goto(r, pc)
    BY <1>11 DEF InitRows, GiveSeeds, MarkSeed, CountSeeds
  <2> QED  BY <1>4, <2>1
<1>12. CASE Ack(r)
  <2>1. modeCache[req[r].w] \in {"none", "on", "off"}
    BY <1>0, <1>2 DEF GateTypeOK
  <2>2. /\ UNCHANGED <<admitted, fresh>>
        /\ Answer(r) \/ \E pc \in {"readbook", "book"} : Goto(r, pc)
    BY <1>12, <2>1 DEF Ack
  <2> QED  BY <1>4, <2>2
<1> QED
  BY <1>5, <1>6, <1>7, <1>8, <1>9, <1>10, <1>11, <1>12, <1>13 DEF RequestStep

LEMMA CallCache ==
  ASSUME CacheInv, [Next]_vars, NEW r \in Handler, NEW op, NEW m \in Machine,
         NEW w \in Worker, NEW x, NEW leased, NEW n \in 0 .. CountLimit,
         Call(r, op, m, w, x, leased, n)
  PROVE  CacheInv'
<1> DEFINE pc == IF m \in fresh[w] THEN Entry(op, m, w, n) ELSE "stamp"
           q == [pc |-> pc, op |-> op, m |-> m, w |-> w, x |-> x, leased |-> leased,
                 n |-> n, nums |-> {}]
<1>0. GateTypeOK
  BY DEF CacheInv
<1>1. op \in Op /\ n \in Nat
  BY GateAssumption DEF Call, Op
<1>2. /\ req' = [req EXCEPT ![r] = q]
      /\ registered' = IF m \in fresh[w] THEN registered ELSE registered \cup {m}
      /\ UNCHANGED <<admitted, fresh, deleted>>
  BY DEF Call, cacheVars, histVars
<1>3. pc # "admit"
  BY <1>1, EntryPc
<1>4. m \in Known'
  BY <1>2 DEF CacheInv, Known
<1> HIDE DEF pc
<1>5. q.m = m /\ q.pc # "admit"
  BY <1>3
<1> HIDE DEF q
<1>6. PICK new : new = q /\ new.m = m /\ new.pc # "admit"
  BY <1>5
<1>7. RequestKnows(new)'
  BY <1>4, <1>6 DEF RequestKnows
<1>8. \A s \in Handler : req'[s] \in {req[s], Idle, new}
  BY <1>0, <1>2, <1>6 DEF GateTypeOK
<1> QED  BY <1>2, <1>7, <1>8, CacheStays

LEMMA TrainerCache == ASSUME CacheInv, TrainerCalls PROVE CacheInv'
<1>0. [Next]_vars
  BY DEF Next
<1>1. 0 \in 0 .. CountLimit /\ 1 .. CountLimit \subseteq 0 .. CountLimit
  BY GateAssumption
<1>2. ASSUME NEW r \in Handler, NEW w \in Worker, NEW m \in Machine,
             NEW n \in 0 .. CountLimit, GetNumber(r, m, w, n)
      PROVE  CacheInv'
  BY <1>0, <1>2, CallCache DEF GetNumber
<1>3. ASSUME NEW r \in Handler, NEW w \in Worker, NEW g \in Held, MarkDone(r, w, g)
      PROVE  CacheInv'
  <2>1. g.m \in Machine /\ Call(r, "done", g.m, w, g.x, g.leased, 0)
    BY <1>3 DEF MarkDone, Held
  <2> QED  BY <1>0, <1>1, <2>1, CallCache
<1>4. ASSUME NEW r \in Handler, NEW w \in Worker, NEW m \in Machine, NEW x \in X,
             SetFound(r, w, m, x)
      PROVE  CacheInv'
  BY <1>0, <1>4, <1>1, CallCache DEF SetFound
<1> QED  BY <1>1, <1>2, <1>3, <1>4 DEF TrainerCalls, Asks

LEMMA OthersCache ==
  ASSUME CacheInv, \/ AdminCalls \/ Environment \/ UNCHANGED vars
                   \/ \E a \in Admin : AdminStep(a)
  PROVE  CacheInv'
<1> USE DEF gateVars, testVars, poolVars, cacheVars, histVars
<1>0. GateTypeOK /\ [Next]_vars
  BY DEF CacheInv, Next
<1>1. /\ \A w \in Worker : admitted'[w] \subseteq admitted[w] /\ fresh'[w] \subseteq fresh[w]
      /\ \A r \in Handler : req'[r] \in {req[r], Idle}
  <2>1. ASSUME AdminCalls PROVE <1>1!:
    BY <2>1 DEF AdminCalls, DeleteMachine, SendCommand, StartTest, StopTest
  <2>2. ASSUME NEW a \in Admin, Evict(a) PROVE <1>1!:
    BY <1>0, <2>2 DEF Evict, GateTypeOK
  <2>3. ASSUME NEW a \in Admin, SetCommand(a) \/ ModeOn(a) \/ ClearItems(a) PROVE <1>1!:
    BY <2>3 DEF SetCommand, ModeOn, ClearItems
  <2>4. ASSUME NEW w \in Worker, Restart(w) PROVE <1>1!:
    BY <1>0, <2>4 DEF Restart, GateTypeOK
  <2>5. ASSUME NEW r \in Handler, RequestFails(r) PROVE <1>1!:
    BY <1>0, <2>5 DEF RequestFails, Answer, GateTypeOK
  <2>6. ASSUME NEW w \in Worker, NEW m \in Machine, FreshExpires(w, m) PROVE <1>1!:
    BY <1>0, <2>6 DEF FreshExpires, GateTypeOK
  <2>7. ASSUME \/ \E S \in Seeds : EditSeeds(S)
               \/ \E a \in Admin : AdminFails(a)
               \/ \E w \in Worker : ModeCacheExpires(w)
               \/ \E m \in Machine : CommandExpires(m)
               \/ \E x \in X : Requeue(x)
        PROVE  <1>1!:
    BY <2>7 DEF EditSeeds, AdminFails, ModeCacheExpires, CommandExpires, Requeue
  <2>8. ASSUME UNCHANGED vars PROVE <1>1!:
    BY <2>8 DEF vars
  <2> QED
    BY <2>1, <2>2, <2>3, <2>4, <2>5, <2>6, <2>7, <2>8 DEF AdminStep, Environment
<1>2. RequestKnows(Idle)'
  BY DEF RequestKnows
<1> QED  BY <1>0, <1>1, <1>2, CacheStays

LEMMA InitCache == Init => CacheInv
<1> SUFFICES ASSUME Init PROVE CacheInv
  OBVIOUS
<1>1. \A r \in Handler : req[r] = Idle
  BY DEF Init
<1>2. RequestKnows(Idle)
  BY DEF RequestKnows
<1> QED  BY <1>1, <1>2, InitType DEF CacheInv, CacheVerified, Init

\* A worker lets a machine pass by its cache only if the database has it verified,
\* unless the machine was deleted.
THEOREM CacheKept == Spec => []CacheVerified
<1>1. ASSUME CacheInv, [Next]_vars PROVE CacheInv'
  BY <1>1, StepCache, TrainerCache, OthersCache DEF Next
<1>2. CacheInv => CacheVerified
  BY DEF CacheInv
<1> QED  BY <1>1, <1>2, InitCache, PTL DEF Spec

-----------------------------------------------------------------------------
(* The test stand *)

\* With one administrator at a time: while the mode is on, or about to be set, there
\* are items; while the items are about to go, the mode is off.
HasItems == \E x \in X : item[x] # "none"

ModeInv ==
  /\ GateTypeOK
  /\ mode = "on" \/ (\E a \in Admin : adm[a].pc = "modeon") => HasItems
  /\ (\E a \in Admin : adm[a].pc = "clear") => mode = "off"

\* The other steps keep the mode, keep an item where there is one, and bring no
\* administrator's request to where the mode or the items are about to change.
LEMMA ModeStays ==
  ASSUME ModeInv, GateTypeOK', mode' = mode, HasItems => HasItems',
         \A a \in Admin : adm'[a].pc \in {adm[a].pc, "idle", "evict", "send"}
  PROVE  ModeInv'
BY DEF ModeInv

LEMMA NextMode ==
  ASSUME ModeInv, [Next]_vars, \A a, b \in Admin : a = b
  PROVE  ModeInv'
<1> USE DEF gateVars, testVars, poolVars, cacheVars, histVars
<1>0. GateTypeOK /\ GateTypeOK' /\ AdmIdle.pc = "idle"
  BY NextType DEF ModeInv, AdmIdle
<1>1. ASSUME NEW r \in Handler, TakeItems(r) PROVE ModeInv'
  <2>1. HasItems => HasItems'
    BY <1>1 DEF TakeItems, HasItems
  <2> QED  BY <1>0, <1>1, <2>1, ModeStays DEF TakeItems
<1>2. ASSUME NEW r \in Handler, Book(r) PROVE ModeInv'
  <2>1. HasItems => HasItems'
    BY <1>0, <1>2 DEF Book, Booked, HasItems, GateTypeOK
  <2> QED  BY <1>0, <1>2, <2>1, ModeStays DEF Book
<1>3. ASSUME NEW r \in Handler, RequestStep(r), ~TakeItems(r), ~Book(r) PROVE ModeInv'
  <2>1. UNCHANGED <<mode, item, adm>>
    BY <1>3 DEF RequestStep, Stamp, ReadMode, TakeCommand, CheckMode, CheckVerified,
                ReadSeeds, InitRows, GiveSeeds, Verify, Admit, NextBatch, Ack, ReadBook,
                MarkSeed, CountSeeds, ModeRead, Deliver
  <2> QED  BY <1>0, <2>1, ModeStays DEF HasItems
<1>4. ASSUME TrainerCalls PROVE ModeInv'
  <2>1. UNCHANGED <<mode, item, adm>>
    BY <1>4 DEF TrainerCalls, Asks, GetNumber, MarkDone, SetFound, Call
  <2> QED  BY <1>0, <2>1, ModeStays DEF HasItems
<1>5. ASSUME NEW a \in Admin, NEW w \in Worker, NEW S \in SUBSET X, StartTest(a, w, S)
      PROVE  ModeInv'
  <2>1. HasItems'
    BY <1>5 DEF StartTest, HasItems
  <2>2. \A b \in Admin : adm'[b].pc = "modeon"
    BY <1>0, <1>5 DEF StartTest, GateTypeOK
  <2> QED  BY <1>0, <2>1, <2>2 DEF ModeInv
<1>6. ASSUME NEW a \in Admin, NEW w \in Worker, StopTest(a, w) PROVE ModeInv'
  <2>1. \A b \in Admin : adm'[b].pc = "clear"
    BY <1>0, <1>6 DEF StopTest, GateTypeOK
  <2> QED  BY <1>0, <1>6, <2>1 DEF StopTest, ModeInv
<1>7. ASSUME NEW a \in Admin, ModeOn(a) \/ ClearItems(a) PROVE ModeInv'
  <2>1. \A b \in Admin : adm'[b].pc = "idle"
    BY <1>0, <1>7 DEF ModeOn, ClearItems, GateTypeOK
  <2>2. mode' = "on" => HasItems'
    BY <1>7 DEF ModeOn, ClearItems, ModeInv, HasItems
  <2> QED  BY <1>0, <2>1, <2>2 DEF ModeInv
<1>8. ASSUME NEW a \in Admin, Evict(a) \/ SetCommand(a) \/ AdminFails(a) PROVE ModeInv'
  <2>1. UNCHANGED <<mode, item>>
    BY <1>8 DEF Evict, SetCommand, AdminFails
  <2>2. ASSUME NEW b \in Admin PROVE adm'[b].pc \in {adm[b].pc, "idle", "evict", "send"}
    <3>1. CASE SetCommand(a)
      <4>1. PICK m \in adm[a].to :
              adm' = [adm EXCEPT ![a] = IF adm[a].to = {m} THEN AdmIdle
                                        ELSE [adm[a] EXCEPT !.to = @ \ {m}]]
        BY <3>1 DEF SetCommand
      <4>2. [adm[a] EXCEPT !.to = @ \ {m}].pc = adm[a].pc
        BY <1>0, <3>1, AdmFields DEF SetCommand
      <4> QED  BY <1>0, <4>1, <4>2 DEF GateTypeOK
    <3>2. CASE Evict(a) \/ AdminFails(a)
      BY <1>0, <3>2 DEF Evict, AdminFails, GateTypeOK
    <3> QED  BY <1>8, <3>1, <3>2
  <2> QED  BY <1>0, <2>1, <2>2, ModeStays DEF HasItems
<1>9. ASSUME NEW a \in Admin, NEW w \in Worker,
             \/ \E m \in Machine : DeleteMachine(a, w, m)
             \/ \E T \in SUBSET Machine, c \in Command : SendCommand(a, w, T, c)
      PROVE  ModeInv'
  <2>1. UNCHANGED <<mode, item>>
    BY <1>9 DEF DeleteMachine, SendCommand
  <2>2. \A b \in Admin : adm'[b].pc \in {adm[b].pc, "idle", "evict", "send"}
    <3>1. CASE \E m \in Machine : DeleteMachine(a, w, m)
      BY <1>0, <3>1 DEF DeleteMachine, GateTypeOK
    <3>2. CASE \E T \in SUBSET Machine, c \in Command : SendCommand(a, w, T, c)
      BY <1>0, <3>2 DEF SendCommand, GateTypeOK
    <3> QED  BY <1>9, <3>1, <3>2
  <2> QED  BY <1>0, <2>1, <2>2, ModeStays DEF HasItems
<1>10. ASSUME NEW w \in Worker, Restart(w) PROVE ModeInv'
  <2>1. /\ UNCHANGED <<mode, item>>
        /\ \A b \in Admin : adm'[b] \in {adm[b], AdmIdle}
    BY <1>10 DEF Restart
  <2> QED  BY <1>0, <2>1, ModeStays DEF HasItems
<1>11. ASSUME \/ \E S \in Seeds : EditSeeds(S)
              \/ \E r \in Handler : RequestFails(r)
              \/ \E w \in Worker : ModeCacheExpires(w)
              \/ \E w \in Worker, m \in Machine : FreshExpires(w, m)
              \/ \E m \in Machine : CommandExpires(m)
              \/ \E x \in X : Requeue(x)
              \/ UNCHANGED vars
       PROVE  ModeInv'
  <2>1. UNCHANGED <<mode, item, adm>>
    BY <1>11 DEF EditSeeds, RequestFails, ModeCacheExpires, FreshExpires, CommandExpires,
                 Requeue, vars
  <2> QED  BY <1>0, <2>1, ModeStays DEF HasItems
<1> QED
  BY <1>1, <1>2, <1>3, <1>4, <1>5, <1>6, <1>7, <1>8, <1>9, <1>10, <1>11
     DEF Next, AdminCalls, AdminStep, Environment

\* With one administrator at a time the mode is never on without items, whatever
\* transaction of start or stop fails.
THEOREM ModeItems ==
  ASSUME \A a, b \in Admin : a = b
  PROVE  Spec => []ModeHasItems
<1>1. Init => ModeInv
  BY InitType DEF Init, ModeInv, AdmIdle
<1>2. ModeInv /\ [Next]_vars => ModeInv'
  BY NextMode
<1>3. ModeInv => ModeHasItems
  BY DEF ModeInv, ModeHasItems, HasItems
<1> QED  BY <1>1, <1>2, <1>3, PTL DEF Spec

-----------------------------------------------------------------------------
(* No item is lost *)

\* A report on x, a number of the test stand, that reaches the books if they are kept.
ReportsOn(q, x) ==
  /\ q.op = "done" /\ q.x = x /\ ~q.leased
  /\ q.pc \in {"stamp", "ack", "readbook", "book"}
  /\ behind[x] \cap ({q.w} \cup Admin) = {}

\* An answer on its way that has x, a number of the test stand.
Carries(q, x) == q.pc = "answer" /\ ~q.leased /\ x \in q.nums

SeesTo(q, x) == ReportsOn(q, x) \/ Carries(q, x)

\* Somebody sees to x.
SeenTo(x) ==
  \/ \E g \in todo : g.x = x /\ ~g.leased
  \/ \E r \in Handler : SeesTo(req[r], x)

\* No test runs, and none is being started.
Calm == mode = "off" /\ Starting = {}

\* What holds of an item that is out: it was handed out before the end of every start
\* in progress; a worker for which its trainer need not wait does not take the test for
\* over while it runs; somebody sees to it, or there is no need to.
ItemSafe(x) ==
  /\ Starting \subseteq behind[x]
  /\ \A w \in Worker \ behind[x] : modeCache[w] = "off" => mode = "off"
  /\ Calm \/ SeenTo(x)

ItemInv ==
  GateTypeOK /\ \A x \in X : item[x] = "active" => x \in strays \/ ItemSafe(x)

\* An item stays safe when starts end and caches expire or are read, ...
LEMMA SafeStays ==
  ASSUME NEW x \in X, ItemSafe(x), NEW gone,
         behind'[x] = behind[x] \ gone, Starting' \subseteq Starting \ gone,
         mode' \in {mode, "off"},
         \A w \in Worker : modeCache'[w] = "off" =>
           mode' = "off" \/ (w \notin gone /\ modeCache[w] = "off"),
         SeenTo(x) => Calm' \/ SeenTo(x)'
  PROVE  ItemSafe(x)'
<1>1. Starting' \subseteq behind'[x]
  BY DEF ItemSafe
<1>2. ASSUME NEW w \in Worker \ behind'[x], modeCache'[w] = "off" PROVE mode' = "off"
  BY <1>2 DEF ItemSafe
<1>3. Calm => Calm'
  BY DEF Calm
<1> QED  BY <1>1, <1>2, <1>3 DEF ItemSafe

LEMMA SafeStill ==
  ASSUME NEW x \in X, ItemSafe(x), behind'[x] = behind[x], Starting' = Starting,
         UNCHANGED <<mode, modeCache>>, SeenTo(x) => Calm' \/ SeenTo(x)'
  PROVE  ItemSafe(x)'
BY DEF ItemSafe, Calm

\* ... as long as reports and answers go on, or the reports are to be repeated.
LEMMA SeenToStays ==
  ASSUME NEW x \in X, SeenTo(x), behind'[x] \subseteq behind[x], todo \subseteq todo',
         \A r \in Handler : SeesTo(req[r], x) =>
           req'[r] = req[r] \/ SeesTo(req[r], x)' \/ Calm' \/ SeenTo(x)'
  PROVE  Calm' \/ SeenTo(x)'
<1>1. CASE \E g \in todo : g.x = x /\ ~g.leased
  BY <1>1 DEF SeenTo
<1>2. ASSUME NEW r \in Handler, SeesTo(req[r], x) PROVE Calm' \/ SeenTo(x)'
  <2>1. req'[r] = req[r] => SeesTo(req[r], x)'
    BY <1>2 DEF SeesTo, ReportsOn, Carries
  <2>2. SeesTo(req[r], x)' => SeenTo(x)'
    BY DEF SeenTo
  <2> QED  BY <1>2, <2>1, <2>2
<1> QED  BY <1>1, <1>2 DEF SeenTo

\* Most steps leave the test stand alone.
LEMMA QuietItems ==
  ASSUME ItemInv, GateTypeOK', UNCHANGED <<item, behind, mode, modeCache>>,
         Starting' = Starting, todo \subseteq todo', strays \subseteq strays',
         \A x \in X : item[x] = "active" =>
           \A r \in Handler : SeesTo(req[r], x) =>
             \/ req'[r] = req[r] \/ SeesTo(req[r], x)' \/ Calm \/ SeenTo(x)'
             \/ x \in strays'
  PROVE  ItemInv'
<1> SUFFICES ASSUME NEW x \in X, item[x] = "active", x \notin strays'
             PROVE  ItemSafe(x)'
  BY DEF ItemInv
<1>1. ItemSafe(x)
  BY DEF ItemInv
<1>2. Calm' <=> Calm
  BY DEF Calm
<1>3. SeenTo(x) => Calm' \/ SeenTo(x)'
  BY <1>2, SeenToStays
<1> QED  BY <1>1, <1>3, SafeStill

\* What a report may rely on.
LEMMA ReportTrusts ==
  ASSUME ItemInv, NEW x \in X, item[x] = "active", x \notin strays, NEW r \in Handler,
         ReportsOn(req[r], x)
  PROVE  /\ Starting = {} /\ req[r].w \in Worker \ behind[x]
         /\ modeCache[req[r].w] = "off" => mode = "off"
<1>1. ItemSafe(x) /\ GateTypeOK
  BY DEF ItemInv
<1>2. req[r].w \in Worker
  <2>1. ~At(r, "idle")
    BY DEF ReportsOn, At
  <2> QED  BY <1>1, <2>1, BusyFields
<1>3. req[r].w \notin behind[x] /\ Starting = {}
  BY <1>1 DEF ReportsOn, ItemSafe, Starting
<1> QED  BY <1>1, <1>2, <1>3 DEF ItemSafe

\* A worker reads the mode.
LEMMA ReadItems ==
  ASSUME ItemInv, GateTypeOK', NEW w \in Worker, ModeRead(w),
         UNCHANGED <<item, mode, adm, strays>>, todo \subseteq todo',
         \A x \in X : item[x] = "active" /\ x \notin strays =>
           \A r \in Handler : SeesTo(req[r], x) =>
             req'[r] = req[r] \/ SeesTo(req[r], x)' \/ Calm
  PROVE  ItemInv'
<1> SUFFICES ASSUME NEW x \in X, item[x] = "active", x \notin strays
             PROVE  ItemSafe(x)'
  BY DEF ItemInv
<1>0. GateTypeOK /\ ItemSafe(x)
  BY DEF ItemInv
<1>1. Starting' = Starting /\ w \notin Starting /\ (Calm' <=> Calm)
  BY GateAssumption DEF Starting, Calm
<1>2. behind'[x] = behind[x] \ {w}
  BY DEF ModeRead
<1>3. \A v \in Worker : modeCache'[v] = "off" =>
        mode' = "off" \/ (v \notin {w} /\ modeCache[v] = "off")
  BY <1>0 DEF ModeRead, GateTypeOK
<1>4. SeenTo(x) => Calm' \/ SeenTo(x)'
  BY <1>1, <1>2, SeenToStays
<1> QED  BY <1>0, <1>1, <1>2, <1>3, <1>4, SafeStays

\* A request moves on, and with it a report stays one.
LEMMA OtherRequests ==
  ASSUME GateTypeOK, NEW r \in Handler, Answer(r) \/ \E pc : Goto(r, pc)
  PROVE  \A s \in Handler : s # r => req'[s] = req[s]
BY DEF Answer, Goto, GateTypeOK

LEMMA ReportGoes ==
  ASSUME GateTypeOK, NEW r \in Handler, ~At(r, "idle"), NEW x \in X, ReportsOn(req[r], x),
         behind'[x] \subseteq behind[x],
         NEW pc \in {"ack", "readbook", "book"}, Goto(r, pc)
  PROVE  ReportsOn(req[r], x)'
<1>1. /\ req'[r].op = req[r].op /\ req'[r].x = req[r].x /\ req'[r].w = req[r].w
      /\ req'[r].leased = req[r].leased /\ req'[r].pc = pc
  BY BusyFields DEF Goto, GateTypeOK
<1> QED  BY <1>1 DEF ReportsOn

LEMMA StepItems ==
  ASSUME ItemInv, NEW r \in Handler, RequestStep(r)
  PROVE  ItemInv'
<1> USE DEF gateVars, testVars, poolVars, cacheVars, histVars
<1>0. GateTypeOK /\ GateTypeOK'
  BY StepType DEF ItemInv
<1>1. CASE \/ TakeCommand(r) \/ CheckMode(r) \/ CheckVerified(r) \/ ReadSeeds(r)
           \/ InitRows(r) \/ GiveSeeds(r) \/ Verify(r) \/ Admit(r) \/ NextBatch(r)
           \/ MarkSeed(r) \/ CountSeeds(r)
  <2>1. /\ UNCHANGED <<item, behind, mode, modeCache, adm, strays>>
        /\ todo \subseteq todo'
        /\ req[r].pc \notin {"stamp", "ack", "readbook", "book", "answer"}
    BY <1>1 DEF TakeCommand, CheckMode, CheckVerified, ReadSeeds, InitRows, GiveSeeds,
                Verify, Admit, NextBatch, MarkSeed, CountSeeds, At
  <2>2. \A s \in Handler : s # r => req'[s] = req[s]
    BY <1>0, <1>1 DEF TakeCommand, CheckMode, CheckVerified, ReadSeeds, InitRows,
                GiveSeeds, Verify, Admit, NextBatch, MarkSeed, CountSeeds, Answer, Goto,
                HandOut, GateTypeOK
  <2>3. Starting' = Starting
    BY <2>1 DEF Starting
  <2>4. \A x : ~SeesTo(req[r], x)
    BY <2>1 DEF SeesTo, ReportsOn, Carries
  <2> QED  BY <1>0, <2>1, <2>2, <2>3, <2>4, QuietItems
<1>2. CASE Stamp(r)
  <2> DEFINE pc == Entry(req[r].op, req[r].m, req[r].w, req[r].n)
  <2>1. /\ UNCHANGED <<item, behind, mode, modeCache, adm, todo, strays>>
        /\ At(r, "stamp") /\ ~At(r, "idle")
        /\ IF pc = "idle" THEN Answer(r) ELSE Goto(r, pc)
    BY <1>2 DEF Stamp, At
  <2>2. \A s \in Handler : s # r => req'[s] = req[s]
    BY <1>0, <2>1, OtherRequests
  <2>3. ASSUME NEW x \in X, SeesTo(req[r], x) PROVE SeesTo(req[r], x)'
    <3>1. ReportsOn(req[r], x)
      BY <2>1, <2>3 DEF SeesTo, Carries, At
    <3>2. pc = "ack"
      BY <3>1 DEF ReportsOn, Entry
    <3> QED  BY <1>0, <2>1, <3>1, <3>2, ReportGoes DEF SeesTo
  <2>4. Starting' = Starting
    BY <2>1 DEF Starting
  <2> QED  BY <1>0, <2>1, <2>2, <2>3, <2>4, QuietItems
<1>3. CASE ReadMode(r)
  <2>1. /\ UNCHANGED <<item, mode, adm, todo, strays>> /\ ModeRead(req[r].w)
        /\ At(r, "readmode") /\ ~At(r, "idle") /\ \E pc : Goto(r, pc)
    BY <1>3 DEF ReadMode, At
  <2>2. req[r].w \in Worker
    BY <1>0, <2>1, BusyFields
  <2>3. \A s \in Handler : s # r => req'[s] = req[s]
    BY <1>0, <2>1, OtherRequests
  <2>4. \A x : ~SeesTo(req[r], x)
    BY <2>1 DEF SeesTo, ReportsOn, Carries, At
  <2> QED  BY <1>0, <2>1, <2>2, <2>3, <2>4, ReadItems
<1>4. CASE TakeItems(r)
  <2>1. /\ UNCHANGED <<mode, modeCache, adm, todo, strays>> /\ At(r, "items")
        /\ ~At(r, "idle")
    BY <1>4 DEF TakeItems, At
  <2>2. PICK T \in Some({x \in X : item[x] = "pending"}, req[r].n) :
          /\ item' = [x \in X |-> IF x \in T THEN "active" ELSE item[x]]
          /\ behind' = [x \in X |-> IF x \in T THEN Cached \cup Starting ELSE behind[x]]
          /\ HandOut(r, T, FALSE)
    BY <1>4 DEF TakeItems
  <2>3. T \subseteq X
    BY DEF Some
  <2>4. PICK q \in Request :
          /\ req' = [req EXCEPT ![r] = q]
          /\ \/ T = {} /\ q = Idle
             \/ /\ q # Idle /\ q.pc = "answer" /\ q.m = req[r].m
                /\ q.nums = T /\ q.leased = FALSE
    <3>1. GateTypeOK /\ r \in Handler /\ ~At(r, "idle") /\ FALSE \in BOOLEAN
      BY <1>0, <2>1
    <3> QED  BY <2>2, <2>3, <3>1, HandOutIs
  <2>5. req'[r] = q /\ \A s \in Handler : s # r => req'[s] = req[s]
    BY <1>0, <2>4 DEF GateTypeOK
  <2>6. Starting' = Starting /\ (Calm' <=> Calm)
    BY <2>1 DEF Starting, Calm
  <2> SUFFICES ASSUME NEW x \in X, item'[x] = "active", x \notin strays
               PROVE  ItemSafe(x)'
    BY <1>0, <2>1 DEF ItemInv
  <2>7. CASE x \in T
    <3>1. SeesTo(req[r], x)'
      BY <2>4, <2>5, <2>7 DEF SeesTo, Carries
    <3>2. behind'[x] = Cached \cup Starting
      BY <2>2, <2>7
    <3>3. ASSUME NEW w \in Worker \ behind'[x] PROVE modeCache'[w] # "off"
      BY <2>1, <3>2, <3>3 DEF Cached
    <3> QED  BY <2>6, <3>1, <3>2, <3>3 DEF ItemSafe, SeenTo
  <2>8. CASE x \notin T
    <3>1. item[x] = "active" /\ behind'[x] = behind[x]
      BY <2>2, <2>8
    <3>2. ItemSafe(x)
      BY <3>1 DEF ItemInv
    <3>3. ~SeesTo(req[r], x)
      BY <2>1 DEF SeesTo, ReportsOn, Carries, At
    <3>4. SeenTo(x) => Calm' \/ SeenTo(x)'
      BY <2>1, <2>5, <3>1, <3>3, SeenToStays
    <3> QED  BY <2>1, <2>6, <3>1, <3>2, <3>4, SafeStill
  <2> QED  BY <2>7, <2>8
<1>8. CASE Deliver(r)
  <2>1. /\ UNCHANGED <<item, behind, mode, modeCache, adm, strays>> /\ Answer(r)
        /\ At(r, "answer")
        /\ todo' = todo \cup {[m |-> req[r].m, x |-> x, leased |-> req[r].leased] :
                                x \in req[r].nums}
    BY <1>8 DEF Deliver
  <2>2. \A s \in Handler : s # r => req'[s] = req[s]
    BY <1>0, <2>1, OtherRequests
  <2>3. ASSUME NEW x \in X, SeesTo(req[r], x) PROVE SeenTo(x)'
    <3> DEFINE g == [m |-> req[r].m, x |-> x, leased |-> req[r].leased]
    <3>1. Carries(req[r], x)
      BY <2>1, <2>3 DEF SeesTo, ReportsOn, At
    <3>2. g \in todo' /\ g.x = x /\ ~g.leased
      BY <2>1, <3>1 DEF Carries
    <3> HIDE DEF g
    <3> QED  BY <3>2 DEF SeenTo
  <2>4. Starting' = Starting
    BY <2>1 DEF Starting
  <2> QED  BY <1>0, <2>1, <2>2, <2>3, <2>4, QuietItems
<1>5. CASE Ack(r)
  <2>1. /\ UNCHANGED <<item, behind, mode, modeCache, adm, todo, strays>>
        /\ At(r, "ack") /\ ~At(r, "idle")
    BY <1>5 DEF Ack, At
  <2>2. modeCache[req[r].w] \in {"none", "on", "off"}
    BY <1>0, <2>1, BusyFields DEF GateTypeOK
  <2>3. \/ Answer(r) /\ (req[r].leased \/ modeCache[req[r].w] = "off")
        \/ \E pc \in {"readbook", "book"} : Goto(r, pc)
    BY <1>5, <2>2 DEF Ack
  <2>4. \A s \in Handler : s # r => req'[s] = req[s]
    BY <1>0, <2>3, OtherRequests
  <2>5. ASSUME NEW x \in X, item[x] = "active", x \notin strays, SeesTo(req[r], x)
        PROVE  SeesTo(req[r], x)' \/ Calm
    <3>1. ReportsOn(req[r], x)
      BY <2>1, <2>5 DEF SeesTo, Carries, At
    <3>2. CASE Answer(r) /\ (req[r].leased \/ modeCache[req[r].w] = "off")
      BY <2>5, <3>1, <3>2, ReportTrusts DEF ReportsOn, Calm
    <3>3. CASE \E pc \in {"readbook", "book"} : Goto(r, pc)
      BY <1>0, <2>1, <3>1, <3>3, ReportGoes DEF SeesTo
    <3> QED  BY <2>3, <3>2, <3>3
  <2>6. Starting' = Starting
    BY <2>1 DEF Starting
  <2> QED  BY <1>0, <2>1, <2>4, <2>5, <2>6, QuietItems
<1>6. CASE ReadBook(r)
  <2>1. /\ UNCHANGED <<item, mode, adm, todo, strays>> /\ ModeRead(req[r].w)
        /\ At(r, "readbook") /\ ~At(r, "idle")
        /\ IF mode = "on" THEN Goto(r, "book") ELSE Answer(r)
    BY <1>6 DEF ReadBook, At
  <2>2. req[r].w \in Worker /\ mode \in {"on", "off"}
    BY <1>0, <2>1, BusyFields DEF GateTypeOK
  <2>3. \A s \in Handler : s # r => req'[s] = req[s]
    BY <1>0, <2>1, OtherRequests
  <2>4. ASSUME NEW x \in X, item[x] = "active", x \notin strays, SeesTo(req[r], x)
        PROVE  SeesTo(req[r], x)' \/ Calm
    <3>1. ReportsOn(req[r], x)
      BY <2>1, <2>4 DEF SeesTo, Carries, At
    <3>2. CASE mode = "on"
      BY <1>0, <2>1, <3>1, <3>2, ReportGoes DEF ModeRead, SeesTo
    <3>3. CASE mode = "off"
      BY <2>4, <3>1, <3>3, ReportTrusts DEF Calm
    <3> QED  BY <2>2, <3>2, <3>3
  <2> QED  BY <1>0, <2>1, <2>2, <2>3, <2>4, ReadItems
<1>7. CASE Book(r)
  <2>1. /\ UNCHANGED <<mode, behind, modeCache, adm, todo, strays>> /\ Answer(r)
        /\ At(r, "book") /\ ~At(r, "idle")
        /\ item' = [item EXCEPT ![req[r].x] = Booked(@)]
    BY <1>7 DEF Book, At
  <2> SUFFICES ASSUME NEW x \in X, item'[x] = "active", x \notin strays
               PROVE  ItemSafe(x)'
    BY <1>0, <2>1 DEF ItemInv
  <2>2. x # req[r].x /\ item[x] = "active"
    BY <1>0, <2>1 DEF Booked, GateTypeOK
  <2>3. ItemSafe(x)
    BY <2>2 DEF ItemInv
  <2>4. \A s \in Handler : s # r => req'[s] = req[s]
    BY <1>0, <2>1, OtherRequests
  <2>5. ~SeesTo(req[r], x)
    BY <2>1, <2>2 DEF SeesTo, ReportsOn, Carries, At
  <2>6. SeenTo(x) => Calm' \/ SeenTo(x)'
    BY <2>1, <2>4, <2>5, SeenToStays
  <2>7. Starting' = Starting
    BY <2>1 DEF Starting
  <2> QED  BY <2>1, <2>3, <2>6, <2>7, SafeStill
<1> QED  BY <1>1, <1>2, <1>3, <1>4, <1>5, <1>6, <1>7, <1>8 DEF RequestStep

\* A call leaves the test stand alone, and the other requests.
LEMMA CallItems ==
  ASSUME GateTypeOK, NEW r \in Handler, NEW op, NEW m, NEW w, NEW x, NEW leased, NEW n,
         Call(r, op, m, w, x, leased, n)
  PROVE  /\ UNCHANGED <<item, behind, mode, modeCache, adm>> /\ Starting' = Starting
         /\ \A s \in Handler : s # r => req'[s] = req[s]
         /\ \A y : ~SeesTo(req[r], y)
<1>1. UNCHANGED <<item, behind, mode, modeCache, adm>> /\ At(r, "idle")
  BY DEF Call, cacheVars
<1>2. \A s \in Handler : s # r => req'[s] = req[s]
  BY DEF Call, GateTypeOK
<1>3. Starting' = Starting
  BY <1>1 DEF Starting
<1> QED  BY <1>1, <1>2, <1>3 DEF SeesTo, ReportsOn, Carries, At

\* A report takes its number over, or comes too soon.
LEMMA MarkDoneItems ==
  ASSUME ItemInv, GateTypeOK', NEW r \in Handler, NEW w \in Worker, NEW g \in Held,
         MarkDone(r, w, g)
  PROVE  ItemInv'
<1>0. GateTypeOK
  BY DEF ItemInv
<1>1. /\ Call(r, "done", g.m, w, g.x, g.leased, 0) /\ todo' = todo \ {g}
      /\ strays' = strays \cup {x \in {g.x} : Hasty(w, g)}
  BY DEF MarkDone
<1>2. /\ UNCHANGED <<item, behind, mode, modeCache, adm>> /\ Starting' = Starting
      /\ \A s \in Handler : s # r => req'[s] = req[s]
      /\ \A y : ~SeesTo(req[r], y)
  BY <1>0, <1>1, CallItems
<1>3. /\ req'[r].op = "done" /\ req'[r].x = g.x /\ req'[r].w = w
      /\ req'[r].leased = g.leased /\ req'[r].pc \in {"stamp", "ack"}
  BY <1>0, <1>1 DEF Call, Entry, GateTypeOK
<1> SUFFICES ASSUME NEW x \in X, item[x] = "active", x \notin strays'
             PROVE  ItemSafe(x)'
  BY <1>2 DEF ItemInv
<1>4. ItemSafe(x)
  BY <1>1 DEF ItemInv
<1>5. \A s \in Handler : SeesTo(req[s], x) => SeesTo(req[s], x)'
  BY <1>2 DEF SeesTo, ReportsOn, Carries
<1>6. SeenTo(x) => SeenTo(x)'
  <2>1. CASE g \in todo /\ g.x = x /\ ~g.leased
    <3>1. behind[x] \cap ({w} \cup Admin) = {}
      BY <1>1, <2>1 DEF Hasty, InHand
    <3>2. SeesTo(req[r], x)'
      BY <1>2, <1>3, <2>1, <3>1 DEF SeesTo, ReportsOn
    <3> QED  BY <3>2 DEF SeenTo
  <2>2. CASE ~(g \in todo /\ g.x = x /\ ~g.leased)
    <3>1. (\E h \in todo : h.x = x /\ ~h.leased) => \E h \in todo' : h.x = x /\ ~h.leased
      BY <1>1, <2>2
    <3> QED  BY <1>5, <3>1 DEF SeenTo
  <2> QED  BY <2>1, <2>2
<1> QED  BY <1>2, <1>4, <1>6, SafeStill

LEMMA TrainerItems == ASSUME ItemInv, TrainerCalls PROVE ItemInv'
<1>0. GateTypeOK /\ GateTypeOK'
  BY TrainerType DEF ItemInv
<1>1. ASSUME NEW r \in Handler, NEW op, NEW m, NEW w, NEW x, NEW leased, NEW n,
             Call(r, op, m, w, x, leased, n), UNCHANGED <<todo, strays>>
      PROVE  ItemInv'
  BY <1>0, <1>1, CallItems, QuietItems
<1>2. ASSUME NEW r \in Handler, NEW w \in Worker, NEW m \in Machine, NEW n,
             GetNumber(r, m, w, n)
      PROVE  ItemInv'
  BY <1>1, <1>2 DEF GetNumber
<1>3. ASSUME NEW r \in Handler, NEW w \in Worker, NEW m \in Machine, NEW x \in X,
             SetFound(r, w, m, x)
      PROVE  ItemInv'
  BY <1>1, <1>3 DEF SetFound
<1>4. ASSUME NEW r \in Handler, NEW w \in Worker, NEW g \in Held, MarkDone(r, w, g)
      PROVE  ItemInv'
  BY <1>0, <1>4, MarkDoneItems
<1> QED  BY <1>2, <1>3, <1>4 DEF TrainerCalls, Asks

LEMMA AdminItems ==
  ASSUME ItemInv, AdminCalls \/ \E a \in Admin : AdminStep(a)
  PROVE  ItemInv'
<1> USE DEF gateVars, testVars, poolVars, cacheVars, histVars
<1>0. GateTypeOK /\ GateTypeOK' /\ AdmIdle.pc = "idle"
  BY AdminType DEF ItemInv, AdmIdle
<1>1. ASSUME UNCHANGED <<item, behind, mode, modeCache, req, todo, strays>>, Starting' = Starting
      PROVE  ItemInv'
  BY <1>0, <1>1, QuietItems
<1>2. ASSUME NEW a \in Admin, NEW w \in Worker,
             \/ \E m \in Machine : DeleteMachine(a, w, m)
             \/ \E T \in SUBSET Machine, c \in Command : SendCommand(a, w, T, c)
      PROVE  ItemInv'
  <2>1. /\ UNCHANGED <<item, behind, mode, modeCache, req, todo, strays>> /\ adm[a] = AdmIdle
        /\ \E q \in [pc : {"evict", "send"}, w : {w}, to : SUBSET Machine,
                     c : Command \cup {None}] : adm' = [adm EXCEPT ![a] = q]
    BY <1>2 DEF DeleteMachine, SendCommand
  <2>2. Starting' = Starting
    BY <1>0, <2>1 DEF Starting, GateTypeOK
  <2> QED  BY <1>1, <2>1, <2>2
<1>3. ASSUME NEW a \in Admin, Evict(a) \/ SetCommand(a) PROVE ItemInv'
  <2>1. UNCHANGED <<item, behind, mode, modeCache, req, todo, strays>>
    BY <1>3 DEF Evict, SetCommand
  <2>2. CASE Evict(a)
    <3>1. Starting' = Starting
      BY <1>0, <2>2 DEF Evict, Starting, GateTypeOK
    <3> QED  BY <1>1, <2>1, <3>1
  <2>3. CASE SetCommand(a)
    <3>1. adm[a].pc = "send" /\ [adm[a] EXCEPT !.to = {}].pc = "send"
      BY <1>0, <2>3, AdmFields DEF SetCommand
    <3>2. PICK m \in adm[a].to :
            adm' = [adm EXCEPT ![a] = IF adm[a].to = {m} THEN AdmIdle
                                      ELSE [adm[a] EXCEPT !.to = @ \ {m}]]
      BY <2>3 DEF SetCommand
    <3>3. [adm[a] EXCEPT !.to = @ \ {m}].pc = "send"
      BY <1>0, <3>1, AdmFields
    <3>4. Starting' = Starting
      BY <1>0, <3>1, <3>2, <3>3 DEF Starting, GateTypeOK
    <3> QED  BY <1>1, <2>1, <3>4
  <2> QED  BY <1>3, <2>2, <2>3
<1>4. ASSUME NEW a \in Admin, NEW w \in Worker, NEW S \in SUBSET X, StartTest(a, w, S)
      PROVE  ItemInv'
  <2>1. \A x \in X : item'[x] # "active"
    BY <1>4 DEF StartTest
  <2> QED  BY <1>0, <2>1 DEF ItemInv
<1>5. ASSUME NEW a \in Admin, ClearItems(a) PROVE ItemInv'
  <2>1. \A x \in X : item'[x] # "active"
    BY <1>5 DEF ClearItems
  <2> QED  BY <1>0, <2>1 DEF ItemInv
<1>6. ASSUME NEW a \in Admin, NEW w \in Worker, StopTest(a, w) PROVE ItemInv'
  <2>1. /\ UNCHANGED <<item, behind, modeCache, req, todo, strays>> /\ mode' = "off"
        /\ adm[a] = AdmIdle
        /\ adm' = [adm EXCEPT ![a] = [pc |-> "clear", w |-> w, to |-> {}, c |-> None]]
    BY <1>6 DEF StopTest
  <2>2. Starting' = Starting
    BY <1>0, <2>1 DEF Starting, GateTypeOK
  <2> SUFFICES ASSUME NEW x \in X, item[x] = "active", x \notin strays'
               PROVE  ItemSafe(x)'
    BY <1>0, <2>1 DEF ItemInv
  <2>3. ItemSafe(x)
    BY <2>1 DEF ItemInv
  <2>4. SeenTo(x) => Calm' \/ SeenTo(x)'
    BY <2>1, SeenToStays
  <2>5. behind'[x] = behind[x] \ {} /\ Starting' \subseteq Starting \ {}
    BY <2>1, <2>2
  <2> QED  BY <2>1, <2>3, <2>4, <2>5, SafeStays
<1>7. ASSUME NEW a \in Admin, ModeOn(a) PROVE ItemInv'
  <2>1. /\ UNCHANGED <<item, modeCache, req, todo, strays>> /\ a \in Starting
        /\ behind' = [x \in X |-> IF a \in behind[x] THEN (behind[x] \ {a}) \cup Cached
                                                     ELSE behind[x]]
    BY <1>7 DEF ModeOn, Starting
  <2>2. Starting' = Starting \ {a}
    BY <1>0, <1>7 DEF ModeOn, Starting, GateTypeOK
  <2> SUFFICES ASSUME NEW x \in X, item[x] = "active", x \notin strays'
               PROVE  ItemSafe(x)'
    BY <1>0, <2>1 DEF ItemInv
  <2>3. ItemSafe(x) /\ ~Calm
    BY <2>1 DEF ItemInv, Calm
  <2>4. a \in behind[x] /\ behind'[x] = (behind[x] \ {a}) \cup Cached
    BY <2>1, <2>3 DEF ItemSafe
  <2>5. \A w \in Worker \ behind'[x] : modeCache'[w] # "off"
    BY <2>1, <2>4 DEF Cached
  <2>6. \A r \in Handler : SeesTo(req[r], x) => SeesTo(req[r], x)'
    BY <2>1, <2>4 DEF SeesTo, ReportsOn, Carries
  <2>7. SeenTo(x)'
    BY <2>1, <2>3, <2>6 DEF ItemSafe, SeenTo
  <2>8. Starting' \subseteq behind'[x]
    BY <2>2, <2>3, <2>4 DEF ItemSafe
  <2> QED  BY <2>5, <2>7, <2>8 DEF ItemSafe
<1> QED
  BY <1>2, <1>3, <1>4, <1>5, <1>6, <1>7 DEF AdminCalls, AdminStep

LEMMA OtherItems == ASSUME ItemInv, Environment \/ UNCHANGED vars PROVE ItemInv'
<1> USE DEF gateVars, testVars, poolVars, cacheVars, histVars
<1>0. GateTypeOK /\ GateTypeOK' /\ AdmIdle.pc = "idle"
  BY NextType DEF ItemInv, Next, AdmIdle
<1>1. ASSUME \/ \E S \in Seeds : EditSeeds(S)
             \/ \E w \in Worker, m \in Machine : FreshExpires(w, m)
             \/ \E m \in Machine : CommandExpires(m)
             \/ \E x \in X : Requeue(x)
             \/ UNCHANGED vars
      PROVE  ItemInv'
  <2>1. UNCHANGED <<item, behind, mode, modeCache, adm, req, todo, strays>>
    BY <1>1 DEF EditSeeds, FreshExpires, CommandExpires, Requeue, vars
  <2>2. Starting' = Starting
    BY <2>1 DEF Starting
  <2> QED  BY <1>0, <2>1, <2>2, QuietItems
<1>2. ASSUME NEW r \in Handler, RequestFails(r) PROVE ItemInv'
  <2>1. /\ UNCHANGED <<item, behind, mode, modeCache, adm>> /\ Answer(r)
        /\ todo' = todo \cup Reported({r}) /\ strays' = strays \cup Sent({r})
    BY <1>2 DEF RequestFails
  <2>2. \A s \in Handler : s # r => req'[s] = req[s]
    BY <1>0, <2>1, OtherRequests
  <2>3. ASSUME NEW x \in X, SeesTo(req[r], x) PROVE SeenTo(x)' \/ x \in strays'
    <3>1. CASE ReportsOn(req[r], x)
      <4>1. [m |-> req[r].m, x |-> req[r].x, leased |-> req[r].leased] \in todo'
        BY <2>1, <3>1 DEF Reported, ReportsOn
      <4> QED  BY <3>1, <4>1 DEF SeenTo, ReportsOn
    <3>2. CASE Carries(req[r], x)
      BY <2>1, <3>2 DEF Carries, Sent
    <3> QED  BY <2>3, <3>1, <3>2 DEF SeesTo
  <2>4. Starting' = Starting
    BY <2>1 DEF Starting
  <2> QED  BY <1>0, <2>1, <2>2, <2>3, <2>4, QuietItems
<1>3. ASSUME NEW a \in Admin, AdminFails(a) PROVE ItemInv'
  <2>1. /\ UNCHANGED <<item, mode, modeCache, req, todo, strays>>
        /\ behind' = [x \in X |-> behind[x] \ {a}]
        /\ adm' = [adm EXCEPT ![a] = AdmIdle]
    BY <1>3 DEF AdminFails
  <2>2. Starting' \subseteq Starting \ {a}
    BY <1>0, <2>1 DEF Starting, GateTypeOK
  <2> SUFFICES ASSUME NEW x \in X, item[x] = "active", x \notin strays'
               PROVE  ItemSafe(x)'
    BY <1>0, <2>1 DEF ItemInv
  <2>3. ItemSafe(x)
    BY <2>1 DEF ItemInv
  <2>4. behind'[x] = behind[x] \ {a}
    BY <2>1
  <2>5. SeenTo(x) => Calm' \/ SeenTo(x)'
    BY <2>1, <2>4, SeenToStays
  <2>6. \A w \in Worker : modeCache'[w] = "off" => w \notin {a} /\ modeCache[w] = "off"
    BY <2>1, GateAssumption
  <2> QED  BY <2>1, <2>2, <2>3, <2>4, <2>5, <2>6, SafeStays
<1>4. ASSUME NEW w \in Worker, Restart(w) PROVE ItemInv'
  <2> DEFINE gone == {w} \cup {a \in Admin : adm[a].w = w}
             R == {r \in Handler : req[r].w = w}
  <2>1. /\ UNCHANGED <<item, mode>>
        /\ modeCache' = [modeCache EXCEPT ![w] = "none"]
        /\ behind' = [x \in X |-> behind[x] \ gone]
        /\ req' = [r \in Handler |-> IF req[r].w = w THEN Idle ELSE req[r]]
        /\ todo' = todo \cup Reported(R) /\ strays' = strays \cup Sent(R)
        /\ adm' = [a \in Admin |-> IF adm[a].w = w THEN AdmIdle ELSE adm[a]]
    BY <1>4 DEF Restart
  <2>2. Starting' \subseteq Starting \ gone
    BY <1>0, <2>1, GateAssumption DEF Starting
  <2> SUFFICES ASSUME NEW x \in X, item[x] = "active", x \notin strays'
               PROVE  ItemSafe(x)'
    BY <1>0, <2>1 DEF ItemInv
  <2>3. ItemSafe(x)
    BY <2>1 DEF ItemInv
  <2>4. behind'[x] = behind[x] \ gone
    BY <2>1
  <2>5. ASSUME NEW r \in Handler, SeesTo(req[r], x)
        PROVE  req'[r] = req[r] \/ SeenTo(x)'
    <3>1. CASE req[r].w = w
      <4>1. ReportsOn(req[r], x)
        BY <2>1, <2>5, <3>1 DEF SeesTo, Carries, Sent
      <4>2. [m |-> req[r].m, x |-> req[r].x, leased |-> req[r].leased] \in todo'
        BY <2>1, <3>1, <4>1 DEF Reported, ReportsOn
      <4> QED  BY <4>1, <4>2 DEF SeenTo, ReportsOn
    <3>2. CASE req[r].w # w
      BY <2>1, <3>2
    <3> QED  BY <3>1, <3>2
  <2>6. SeenTo(x) => Calm' \/ SeenTo(x)'
    BY <2>1, <2>4, <2>5, SeenToStays
  <2>7. \A v \in Worker : modeCache'[v] = "off" => v \notin gone /\ modeCache[v] = "off"
    BY <1>0, <2>1, GateAssumption DEF GateTypeOK
  <2> HIDE DEF gone
  <2> QED  BY <2>1, <2>2, <2>3, <2>4, <2>6, <2>7, SafeStays
<1>5. ASSUME NEW w \in Worker, ModeCacheExpires(w) PROVE ItemInv'
  <2>1. /\ UNCHANGED <<item, mode, adm, req, todo, strays>>
        /\ modeCache' = [modeCache EXCEPT ![w] = "none"]
        /\ behind' = [x \in X |-> behind[x] \ {w}]
    BY <1>5 DEF ModeCacheExpires
  <2>2. Starting' \subseteq Starting \ {w}
    BY <2>1, GateAssumption DEF Starting
  <2> SUFFICES ASSUME NEW x \in X, item[x] = "active", x \notin strays'
               PROVE  ItemSafe(x)'
    BY <1>0, <2>1 DEF ItemInv
  <2>3. ItemSafe(x)
    BY <2>1 DEF ItemInv
  <2>4. behind'[x] = behind[x] \ {w}
    BY <2>1
  <2>5. SeenTo(x) => Calm' \/ SeenTo(x)'
    BY <2>1, <2>4, SeenToStays
  <2>6. \A v \in Worker : modeCache'[v] = "off" => v \notin {w} /\ modeCache[v] = "off"
    BY <1>0, <2>1 DEF GateTypeOK
  <2> QED  BY <2>1, <2>2, <2>3, <2>4, <2>5, <2>6, SafeStays
<1> QED  BY <1>1, <1>2, <1>3, <1>4, <1>5 DEF Environment

\* While a test runs, an item that is out has somebody who sees to it: who was given it
\* has it to report, or reports it now, or its answer is on the way.  Excepted are the
\* items whose answer was lost after the commit, and those reported to a worker whose
\* cached mode, or during a start of the test, that was there when they were handed out.
\* Nothing is asked of the number of workers, requests, administrators, tests, failures.
THEOREM NoItemLost == Spec => []ItemsHeld
<1>1. Init => ItemInv
  BY InitType DEF Init, ItemInv
<1>2. ItemInv /\ [Next]_vars => ItemInv'
  BY StepItems, TrainerItems, AdminItems, OtherItems DEF Next
<1>3. ItemInv => ItemsHeld
  <2> SUFFICES ASSUME ItemInv, mode = "on", NEW x \in X, item[x] = "active",
                      x \notin strays, x \notin Sent(Handler)
               PROVE  \E g \in InHand : g.x = x /\ ~g.leased
    BY DEF ItemsHeld
  <2>1. SeenTo(x)
    BY DEF ItemInv, ItemSafe, Calm
  <2>2. ASSUME NEW r \in Handler, SeesTo(req[r], x)
        PROVE  \E g \in Reported(Handler) : g.x = x /\ ~g.leased
    <3>1. ReportsOn(req[r], x)
      BY <2>2 DEF SeesTo, Carries, Sent
    <3>2. [m |-> req[r].m, x |-> req[r].x, leased |-> req[r].leased]
            \in Reported(Handler)
      BY <3>1 DEF Reported, ReportsOn
    <3> QED  BY <3>1, <3>2 DEF ReportsOn
  <2> QED  BY <2>1, <2>2 DEF SeenTo, InHand
<1> QED  BY <1>1, <1>2, <1>3, PTL DEF Spec

=============
