--------------------------- MODULE LeasePool_proofs ---------------------------
(***************************************************************************)
(* Safety of LeasePool for every set of trainers, size of the space, batch *)
(* size and number of concurrent requests.                                 *)
(***************************************************************************)
EXTENDS LeasePool, FiniteSetTheorems, FunctionTheorems, TLAPS

-----------------------------------------------------------------------------
(* The operators *)

\* The space is finite, and so is every part of it.
LEMMA SpaceFinite ==
  ASSUME NEW S, S \subseteq X
  PROVE  IsFiniteSet(S) /\ Cardinality(S) \in Nat
<1>1. IsFiniteSet(X)
  BY FS_Interval, ConstantsAssumption, 0 \in Int, MaxX \in Int DEF X
<1> QED  BY <1>1, FS_Subset, FS_CardinalityType

\* The batch taken by ZPOPMIN is numbered from 1 to its size.
LEMMA RankBounds ==
  ASSUME NEW T, T \subseteq X, NEW x \in T
  PROVE  Rank(T, x) \in Nat /\ 1 <= Rank(T, x) /\ Rank(T, x) <= Cardinality(T)
<1> DEFINE L == {y \in T : y <= x}
<1>1. L \subseteq T /\ x \in L
  BY DEF X
<1>2. IsFiniteSet(T) /\ IsFiniteSet(L) /\ Cardinality(L) \in Nat
  BY <1>1, SpaceFinite
<1>3. Cardinality(L) # 0
  BY <1>1, <1>2, FS_EmptySet
<1>4. Cardinality(L) <= Cardinality(T)
  BY <1>1, <1>2, FS_Subset
<1> QED  BY <1>2, <1>3, <1>4 DEF Rank

\* One grant for each X of a finite set: as many grants as X.
LEMMA ImageFinite ==
  ASSUME NEW T, IsFiniteSet(T), NEW f, DOMAIN f = T
  PROVE  IsFiniteSet({f[x] : x \in T})
<1> DEFINE R == {f[x] : x \in T}
           g == [x \in T |-> f[x]]
<1>1. g \in Surjection(T, R)
  BY DEF Surjection
<1> QED  BY <1>1, FS_Surjection, Zenon

LEMMA LowestSubset ==
  ASSUME NEW S, NEW n, NEW T \in Lowest(S, n)
  PROVE  T \subseteq S
BY DEF Lowest

LEMMA ClaimedInX ==
  ASSUME NEW a, NEW n
  PROVE  Claimed(a, n) \subseteq X
BY DEF Claimed

-----------------------------------------------------------------------------
(* Type correctness *)

LEMMA InitType == Init => TypeOK
BY ConstantsAssumption, FS_EmptySet
   DEF Init, TypeOK, X, HandlerState

\* Moving a request that is in progress to another await keeps it typed.
LEMMA GotoType ==
  ASSUME TypeOK, NEW r \in Handler, NEW pc \in Pc \ {"idle"}, ~At(r, "idle"),
         Goto(r, pc)
  PROVE  req' \in [Handler -> HandlerState]
BY DEF TypeOK, At, Goto, HandlerState, Pc, Idle

LEMMA AnswerType ==
  ASSUME TypeOK, NEW r \in Handler, Answer(r)
  PROVE  req' \in [Handler -> HandlerState]
BY DEF TypeOK, Answer, HandlerState

\* A request in progress was made by a trainer.
LEMMA BusyType ==
  ASSUME TypeOK, NEW r \in Handler, ~At(r, "idle")
  PROVE  /\ req[r].pc \in Pc \ {"idle"} /\ req[r].m \in Machine
         /\ req[r].count \in Nat /\ req[r].need \in Nat /\ req[r].from \in Nat
         /\ req[r] \in [pc : Pc \ {"idle"}, m : Machine, count : Nat,
                        need : Nat, from : Nat]
BY DEF TypeOK, At, HandlerState, Idle

LEMMA GetNumberType ==
  ASSUME TypeOK, NEW r \in Handler, NEW m \in Machine,
         NEW count \in 1 .. CountLimit, GetNumber(r, m, count)
  PROVE  TypeOK'
<1>1. Cardinality(ready) \in Nat
  BY SpaceFinite DEF TypeOK
<1>2. count \in Nat
  BY ConstantsAssumption
<1>3. req' \in [Handler -> HandlerState]
  BY <1>1, <1>2 DEF GetNumber, TypeOK, HandlerState, Pc
<1> QED  BY <1>3 DEF GetNumber, TypeOK, poolVars, historyVars

LEMMA EnsureStepType ==
  ASSUME TypeOK, NEW r \in Handler, EnsureStep(r)
  PROVE  TypeOK'
<1>1. req' \in [Handler -> HandlerState]
  BY GotoType DEF EnsureStep, At, Pc
<1>2. step' \in Nat
  BY ConstantsAssumption DEF EnsureStep, TypeOK, X
<1> QED  BY <1>1, <1>2 DEF EnsureStep, TypeOK, historyVars

LEMMA ClaimRangeType ==
  ASSUME TypeOK, NEW r \in Handler, ClaimRange(r)
  PROVE  TypeOK'
<1>1. req[r] \in [pc : Pc \ {"idle"}, m : Machine, count : Nat, need : Nat,
                  from : Nat]
  BY BusyType DEF ClaimRange, At
<1>2. step' \in Nat
  BY <1>1 DEF ClaimRange, TypeOK
<1>3. req' \in [Handler -> HandlerState]
  BY <1>1 DEF ClaimRange, TypeOK, HandlerState, Pc
<1> QED  BY <1>2, <1>3 DEF ClaimRange, TypeOK, historyVars

LEMMA SupplyReadyType ==
  ASSUME TypeOK, NEW r \in Handler, SupplyReady(r)
  PROVE  TypeOK'
<1>1. req' \in [Handler -> HandlerState]
  BY GotoType DEF SupplyReady, At, Pc
<1>2. ready' \subseteq X
  BY ClaimedInX DEF SupplyReady, Holding, TypeOK
<1> QED  BY <1>1, <1>2 DEF SupplyReady, TypeOK, historyVars

LEMMA CapStepType ==
  ASSUME TypeOK, NEW r \in Handler, CapStep(r)
  PROVE  TypeOK'
<1>1. req' \in [Handler -> HandlerState]
  BY GotoType DEF CapStep, At, Pc
<1> QED  BY <1>1, ConstantsAssumption DEF CapStep, TypeOK, historyVars

\* What the batch popped by _LUA_ALLOCATE does to the pool.
Allocated(r, T) ==
  LET m == req[r].m
      lid(x) == leaseSeq + Rank(T, x)
  IN /\ ready' = ready \ T
     /\ inflight' = inflight \cup T
     /\ overdue' = overdue \ T
     /\ lease' = [x \in X |-> IF x \in T THEN [m |-> m, lid |-> lid(x)]
                                         ELSE lease[x]]
     /\ leaseSeq' = leaseSeq + Cardinality(T)
     /\ grants' = grants \cup {[m |-> m, x |-> x, lid |-> lid(x)] : x \in T}
     /\ IF T = {}
        THEN Goto(r, "poll") /\ UNCHANGED told
        ELSE Answer(r) /\ told' = [told EXCEPT ![m] = "work"]

\* The batch is a part of pool:ready, goes to a trainer, and its ids are new.
LEMMA AllocateBatch ==
  ASSUME TypeOK, NEW r \in Handler, Allocate(r)
  PROVE  \E T \in SUBSET ready :
           /\ Allocated(r, T)
           /\ T \subseteq X /\ IsFiniteSet(T) /\ Cardinality(T) \in Nat
           /\ req[r].m \in Machine
           /\ \A x \in T : /\ Rank(T, x) \in Nat
                           /\ 1 <= Rank(T, x) /\ Rank(T, x) <= Cardinality(T)
<1>1. PICK T \in Lowest(ready, req[r].count) : Allocated(r, T)
  BY DEF Allocate, Allocated
<1>2. T \subseteq ready /\ T \subseteq X
  BY LowestSubset DEF TypeOK
<1>3. IsFiniteSet(T) /\ Cardinality(T) \in Nat
  BY <1>2, SpaceFinite
<1>4. \A x \in T : /\ Rank(T, x) \in Nat
                   /\ 1 <= Rank(T, x) /\ Rank(T, x) <= Cardinality(T)
  BY <1>2, RankBounds
<1>5. req[r].m \in Machine
  BY BusyType DEF Allocate, At
<1> QED  BY <1>1, <1>2, <1>3, <1>4, <1>5

LEMMA AllocateType ==
  ASSUME TypeOK, NEW r \in Handler, Allocate(r)
  PROVE  TypeOK'
<1>1. PICK T \in SUBSET ready :
        /\ Allocated(r, T)
        /\ T \subseteq X /\ IsFiniteSet(T) /\ Cardinality(T) \in Nat
        /\ req[r].m \in Machine
        /\ \A x \in T : Rank(T, x) \in Nat
  BY AllocateBatch
<1> DEFINE m == req[r].m
           lid(x) == leaseSeq + Rank(T, x)
<1>2. \A x \in T : lid(x) \in Nat
  BY <1>1 DEF TypeOK
<1>3. req' \in [Handler -> HandlerState]
  BY <1>1, GotoType, AnswerType DEF Allocate, Allocated, At, Pc
<1>4. lease' \in [X -> Lease \cup {None}]
  BY <1>1, <1>2 DEF Allocated, TypeOK, Lease
<1>5. grants' \subseteq [m : Machine, x : X, lid : Nat]
  BY <1>1, <1>2 DEF Allocated, TypeOK
<1>6. IsFiniteSet(grants')
  <2> DEFINE f == [x \in T |-> [m |-> m, x |-> x, lid |-> lid(x)]]
             G == {f[x] : x \in T}
  <2>1. DOMAIN f = T
    OBVIOUS
  <2>2. G = {[m |-> m, x |-> x, lid |-> lid(x)] : x \in T}
    OBVIOUS
  <2> HIDE DEF f
  <2>3. IsFiniteSet(G)
    BY <1>1, <2>1, ImageFinite
  <2>4. grants' = grants \cup G
    BY <1>1, <2>2 DEF Allocated
  <2> QED  BY <2>3, <2>4, FS_Union DEF TypeOK
<1>7. told' \in [Machine -> {"none", "work", "wait", "done"}]
  BY <1>1 DEF Allocated, TypeOK
<1> QED
  BY <1>1, <1>3, <1>4, <1>5, <1>6, <1>7 DEF Allocate, Allocated, TypeOK, historyVars

LEMMA PollType ==
  ASSUME TypeOK, NEW r \in Handler, Poll(r)
  PROVE  TypeOK'
<1>1. req' \in [Handler -> HandlerState]
  BY AnswerType DEF Poll
<1>2. told' \in [Machine -> {"none", "work", "wait", "done"}]
  BY DEF Poll, TypeOK
<1> QED  BY <1>1, <1>2 DEF Poll, TypeOK, poolVars, historyVars

LEMMA MarkDoneType ==
  ASSUME TypeOK, NEW m \in Machine, NEW S, MarkDone(m, S)
  PROVE  TypeOK'
<1> DEFINE done == XsOf(AcceptedGrants(S))
<1>1. S \subseteq grants /\ AcceptedGrants(S) \subseteq grants
  BY DEF MarkDone, AcceptedGrants
<1>2. /\ inflight' = inflight \ done /\ overdue' = overdue \ done
      /\ lease' = DropLeases(done)
      /\ completed' = completed + Credit(S)
      /\ credited' = credited \cup AcceptedGrants(S)
  BY DEF MarkDone
<1>3. Credit(S) \in Nat
  BY <1>1, FS_Subset, FS_CardinalityType DEF Credit, TypeOK
<1>4. lease' \in [X -> Lease \cup {None}]
  BY <1>2 DEF TypeOK, DropLeases
<1> QED  BY <1>1, <1>2, <1>3, <1>4 DEF MarkDone, TypeOK

LEMMA LegacyMarkDoneType ==
  ASSUME TypeOK, NEW r \in Handler, NEW m \in Machine, NEW S \in SUBSET X,
         LegacyMarkDone(r, m, S)
  PROVE  TypeOK'
<1>1. Named(S) \in Nat
  BY SpaceFinite DEF Named
<1>2. req' \in [Handler -> HandlerState]
  BY <1>1 DEF LegacyMarkDone, TypeOK, HandlerState, Pc
<1>3. lease' \in [X -> Lease \cup {None}]
  BY DEF LegacyMarkDone, TypeOK, DropLeases
<1> QED  BY <1>2, <1>3 DEF LegacyMarkDone, TypeOK

LEMMA LegacyTallyType ==
  ASSUME TypeOK, NEW r \in Handler, LegacyTally(r)
  PROVE  TypeOK'
<1>1. req' \in [Handler -> HandlerState]
  BY AnswerType DEF LegacyTally
<1>2. req[r].need \in Nat
  BY BusyType DEF LegacyTally, At
<1> QED  BY <1>1, <1>2 DEF LegacyTally, TypeOK

LEMMA RequeueType ==
  ASSUME TypeOK, Requeue
  PROVE  TypeOK'
<1>1. PICK T \in SUBSET inflight :
        /\ inflight' = inflight \ T
        /\ overdue' = overdue \ T
        /\ lease' = DropLeases(T)
        /\ ready' = ready \cup T
        /\ requeued' = requeued + Cardinality(T)
  BY DEF Requeue
<1>2. Cardinality(T) \in Nat
  BY SpaceFinite DEF TypeOK
<1>3. lease' \in [X -> Lease \cup {None}]
  BY <1>1 DEF TypeOK, DropLeases
<1> QED  BY <1>1, <1>2, <1>3 DEF Requeue, TypeOK, historyVars

LEMMA ClockType ==
  ASSUME TypeOK, NEW x \in X, LeaseFallsDue(x) \/ LeaseKeyExpires(x)
  PROVE  TypeOK'
<1>1. CASE LeaseFallsDue(x)
  BY <1>1 DEF LeaseFallsDue, TypeOK, historyVars
<1>2. CASE LeaseKeyExpires(x)
  BY <1>2 DEF LeaseKeyExpires, DropLeases, TypeOK, historyVars
<1> QED  BY <1>1, <1>2

LEMMA FailType ==
  ASSUME TypeOK, NEW r \in Handler, Fail(r)
  PROVE  TypeOK'
<1>1. req' \in [Handler -> HandlerState]
  BY AnswerType DEF Fail
<1>2. lost' \subseteq X
  BY ClaimedInX DEF Fail, Holding, TypeOK
<1>3. uncounted' \in Nat
  BY BusyType DEF Fail, Unpaid, At, TypeOK
<1> QED  BY <1>1, <1>2, <1>3 DEF Fail, TypeOK, poolVars

LEMMA NextType ==
  ASSUME TypeOK, [Next]_vars
  PROVE  TypeOK'
<1>1. CASE TrainerCall
  BY <1>1, GetNumberType, MarkDoneType, LegacyMarkDoneType DEF TrainerCall
<1>2. CASE \E r \in Handler : HandlerStep(r) \/ Fail(r)
  BY <1>2, EnsureStepType, ClaimRangeType, SupplyReadyType, CapStepType,
     AllocateType, PollType, LegacyTallyType, FailType DEF HandlerStep
<1>3. CASE Requeue
  BY <1>3, RequeueType
<1>4. CASE Clock
  BY <1>4, ClockType DEF Clock
<1>5. CASE UNCHANGED vars
  BY <1>5 DEF vars, poolVars, historyVars, TypeOK
<1> QED  BY <1>1, <1>2, <1>3, <1>4, <1>5 DEF Next

\* The pool's keys, the requests in progress and the answers keep their types,
\* whatever the trainers send and wherever a request dies.
THEOREM TypeCorrect == Spec => []TypeOK
BY InitType, NextType, PTL DEF Spec

-----------------------------------------------------------------------------
(* The lease store *)

LEMMA InitLeases == Init => Leases
BY DEF Init, Leases, StoredLeaseIsNewest, PunctualLeaseStored, GrantIds

\* Dropping the keys of some X together with their scores, or once these have
\* passed, keeps the store in order.
LEMMA DropKeepsLeases ==
  ASSUME TypeOK, Leases, NEW S,
         lease' = DropLeases(S),
         \/ inflight' = inflight \ S /\ overdue' = overdue \ S
         \/ inflight' = inflight /\ overdue' = overdue /\ S \subseteq overdue,
         UNCHANGED <<grants, leaseSeq>>
  PROVE  Leases'
<1>1. \A x \in X : lease'[x] # None => x \notin S /\ lease'[x] = lease[x]
  BY DEF DropLeases
<1>2. StoredLeaseIsNewest'
  BY <1>1 DEF Leases, StoredLeaseIsNewest
<1>3. PunctualLeaseStored'
  BY DEF Leases, PunctualLeaseStored, DropLeases, TypeOK
<1>4. GrantIds'
  BY DEF Leases, GrantIds
<1> QED  BY <1>2, <1>3, <1>4 DEF Leases

\* A new lease carries an id above all earlier ones.
LEMMA AllocateLeases ==
  ASSUME TypeOK, Leases, NEW r \in Handler, Allocate(r)
  PROVE  Leases'
<1>1. PICK T \in SUBSET ready :
        /\ Allocated(r, T)
        /\ T \subseteq X /\ Cardinality(T) \in Nat
        /\ req[r].m \in Machine
        /\ \A x \in T : /\ Rank(T, x) \in Nat
                        /\ 1 <= Rank(T, x) /\ Rank(T, x) <= Cardinality(T)
  BY AllocateBatch
<1> DEFINE m == req[r].m
           lid(x) == leaseSeq + Rank(T, x)
           new == {[m |-> m, x |-> x, lid |-> lid(x)] : x \in T}
<1>2. \A x \in T : lid(x) \in Nat /\ leaseSeq < lid(x) /\ lid(x) <= leaseSeq'
  BY <1>1 DEF Allocated, TypeOK
<1>3. grants' = grants \cup new
  BY <1>1 DEF Allocated
<1>4. \A x \in X : lease'[x] = IF x \in T THEN [m |-> m, lid |-> lid(x)]
                                       ELSE lease[x]
  BY <1>1 DEF Allocated
<1> HIDE DEF lid
<1>5. \A g \in grants : g.x \in X /\ g.lid \in Nat /\ g.lid <= leaseSeq
  BY DEF TypeOK, Leases, GrantIds
<1>6. \A g \in new : g.x \in T /\ g.m = m /\ g.lid = lid(g.x)
  OBVIOUS
<1>7. GrantIds'
  <2>1. \A g \in grants' : g.lid <= leaseSeq'
    <3>1. leaseSeq <= leaseSeq' /\ leaseSeq \in Nat /\ leaseSeq' \in Nat
      BY <1>1 DEF Allocated, TypeOK
    <3> QED  BY <1>2, <1>3, <1>5, <1>6, <3>1
  <2>2. ASSUME NEW g \in grants', NEW h \in grants', g.x = h.x, g.lid = h.lid
        PROVE  g = h
    <3>1. CASE g \in grants /\ h \in grants
      BY <2>2, <3>1 DEF Leases, GrantIds
    <3>2. CASE g \in new /\ h \in new
      BY <2>2, <3>2
    <3>3. CASE g \in grants /\ h \in new
      BY <1>2, <1>5, <1>6, <2>2, <3>3 DEF TypeOK
    <3>4. CASE g \in new /\ h \in grants
      BY <1>2, <1>5, <1>6, <2>2, <3>4 DEF TypeOK
    <3> QED  BY <1>3, <3>1, <3>2, <3>3, <3>4
  <2> QED  BY <2>1, <2>2 DEF GrantIds
<1>8. StoredLeaseIsNewest'
  <2> SUFFICES ASSUME NEW x \in X, lease'[x] # None
               PROVE  /\ x \in inflight'
                      /\ [m |-> lease'[x].m, x |-> x, lid |-> lease'[x].lid]
                           \in grants'
                      /\ \A g \in grants' : g.x = x => g.lid <= lease'[x].lid
    BY DEF StoredLeaseIsNewest
  <2>1. CASE x \in T
    <3>1. lease'[x].m = m /\ lease'[x].lid = lid(x)
      <4>1. lease'[x] = [m |-> m, lid |-> lid(x)]
        BY <1>4, <2>1
      <4> QED  BY <4>1
    <3>2. x \in inflight'
      BY <1>1, <2>1 DEF Allocated
    <3>3. [m |-> m, x |-> x, lid |-> lid(x)] \in grants'
      BY <1>3, <2>1
    <3>4. ASSUME NEW g \in grants', g.x = x
          PROVE  g.lid <= lid(x)
      <4>1. CASE g \in grants
        BY <1>2, <1>5, <2>1, <4>1 DEF TypeOK
      <4>2. CASE g \in new
        BY <1>2, <1>6, <2>1, <3>4, <4>2
      <4> QED  BY <1>3, <4>1, <4>2
    <3> QED  BY <3>1, <3>2, <3>3, <3>4
  <2>2. CASE x \notin T
    <3>1. lease'[x] = lease[x]
      BY <1>4, <2>2
    <3>2. x \in inflight'
      BY <1>1, <3>1 DEF Allocated, Leases, StoredLeaseIsNewest
    <3> QED
      BY <1>3, <1>6, <2>2, <3>1, <3>2 DEF Leases, StoredLeaseIsNewest
  <2> QED  BY <2>1, <2>2
<1>9. PunctualLeaseStored'
  <2>1. \A x \in T : [m |-> m, lid |-> lid(x)] # None
    BY <1>1, <1>2, ConstantsAssumption DEF Lease
  <2>2. \A x \in inflight' \ overdue' : x \in T \/ x \in inflight \ overdue
    BY <1>1 DEF Allocated
  <2> QED
    BY <1>1, <1>4, <2>1, <2>2 DEF PunctualLeaseStored, Leases, TypeOK
<1> QED  BY <1>7, <1>8, <1>9 DEF Leases

LEMMA NextLeases ==
  ASSUME TypeOK, Leases, [Next]_vars
  PROVE  Leases'
<1> USE DEF poolVars, historyVars
<1>1. CASE UNCHANGED <<lease, inflight, overdue, grants, leaseSeq>>
  BY <1>1 DEF Leases, StoredLeaseIsNewest, PunctualLeaseStored, GrantIds
<1>2. ASSUME NEW m \in Machine, NEW S, MarkDone(m, S)
      PROVE  Leases'
  BY <1>2, DropKeepsLeases DEF MarkDone
<1>3. ASSUME NEW r \in Handler, NEW m, NEW S, LegacyMarkDone(r, m, S)
      PROVE  Leases'
  BY <1>3, DropKeepsLeases DEF LegacyMarkDone
<1>4. CASE Requeue
  BY <1>4, DropKeepsLeases DEF Requeue
<1>5. ASSUME NEW x \in X, LeaseFallsDue(x)
      PROVE  Leases'
  BY <1>5 DEF LeaseFallsDue, Leases, StoredLeaseIsNewest, PunctualLeaseStored,
              GrantIds
<1>6. ASSUME NEW x \in X, LeaseKeyExpires(x)
      PROVE  Leases'
  BY <1>6, DropKeepsLeases DEF LeaseKeyExpires, KeyMayExpire
<1>7. CASE TrainerCall
  BY <1>1, <1>2, <1>3, <1>7 DEF TrainerCall, GetNumber
<1>8. ASSUME NEW r \in Handler, HandlerStep(r) \/ Fail(r)
      PROVE  Leases'
  BY <1>1, <1>8, AllocateLeases
     DEF HandlerStep, EnsureStep, ClaimRange, SupplyReady, CapStep, Poll,
         LegacyTally, Fail
<1>9. CASE Clock
  BY <1>5, <1>6, <1>9 DEF Clock
<1> QED  BY <1>1, <1>4, <1>7, <1>8, <1>9 DEF Next, vars

THEOREM LeasesInOrder == Spec => []Leases
<1>1. TypeOK /\ Leases /\ [Next]_vars => (TypeOK /\ Leases)'
  BY NextType, NextLeases
<1> QED  BY InitType, InitLeases, <1>1, PTL DEF Spec

\* A grant under the newest id of its X is the one that is stored; an older one
\* is not.
LEMMA LeasesDecideAcks ==
  ASSUME TypeOK, Leases
  PROVE  StaleGrantRefused /\ PunctualAckAccepted
<1>1. ASSUME NEW g \in grants, NEW h \in grants, g.x = h.x, g.lid < h.lid,
             Accepted(g)
      PROVE  FALSE
  BY <1>1, ConstantsAssumption
     DEF Accepted, Leases, StoredLeaseIsNewest, TypeOK, Lease
<1>2. ASSUME NEW g \in grants, g.x \in inflight \ overdue,
             \A h \in grants : h.x = g.x => h.lid <= g.lid
      PROVE  Accepted(g)
  <2> DEFINE l == lease[g.x]
             h == [m |-> l.m, x |-> g.x, lid |-> l.lid]
  <2>1. l # None /\ l \in Lease
    BY <1>2 DEF Leases, PunctualLeaseStored, TypeOK
  <2>2. h \in grants /\ g.lid <= l.lid
    BY <1>2, <2>1 DEF Leases, StoredLeaseIsNewest, TypeOK
  <2>3. g.lid = l.lid
    BY <1>2, <2>1, <2>2 DEF TypeOK, Lease
  <2>4. g = h
    BY <2>2, <2>3 DEF Leases, GrantIds
  <2> QED  BY <2>1, <2>4 DEF Accepted, Lease
<1> QED  BY <1>1, <1>2 DEF StaleGrantRefused, PunctualAckAccepted

\* Once X has been leased again, mark_done under an earlier lease is refused,
\* however many machines, calls and requeues lie between.
THEOREM StaleRefused == Spec => []StaleGrantRefused
<1>1. TypeOK /\ Leases => StaleGrantRefused
  BY LeasesDecideAcks
<1> QED  BY TypeCorrect, LeasesInOrder, <1>1, PTL

\* mark_done before the lease is due is accepted.
THEOREM PunctualAccepted == Spec => []PunctualAckAccepted
<1>1. TypeOK /\ Leases => PunctualAckAccepted
  BY LeasesDecideAcks
<1> QED  BY TypeCorrect, LeasesInOrder, <1>1, PTL

-----------------------------------------------------------------------------
(* Where each X is *)

LEMMA InitPlaces == Init => Places
<1> SUFFICES ASSUME Init
             PROVE  Places
  OBVIOUS
<1>1. \A r \in Handler : Holding(r) = {} /\ ~At(r, "cap")
  BY DEF Init, Holding, At, Idle
<1>2. ready = {} /\ inflight = {} /\ Gone = {} /\ acked = {} /\ legacyDone = {}
  BY DEF Init, Gone, acked, XsOf
<1>3. \A x \in X : ~(x < step)
  BY ConstantsAssumption DEF Init, X
<1> QED
  BY <1>1, <1>2, <1>3
     DEF Places, NoXTwice, NoXMissing, FreshAboveStep, CapOnlyWhenExhausted

\* A request that goes to another await than supply_ready holds nothing there,
\* and what the others hold is not touched.
LEMMA HoldingAfter ==
  ASSUME TypeOK, NEW r \in Handler,
         \/ \E pc \in Pc \ {"supply"} : Goto(r, pc)
         \/ \E e : e.pc # "supply" /\ req' = [req EXCEPT ![r] = e]
  PROVE  /\ Holding(r)' = {}
         /\ \A s \in Handler \ {r} : Holding(s)' = Holding(s)
<1>1. req'[r].pc # "supply" /\ \A s \in Handler \ {r} : req'[s] = req[s]
  <2>1. CASE \E pc \in Pc \ {"supply"} : Goto(r, pc)
    BY <2>1, BusyType DEF TypeOK, Goto, HandlerState, Idle
  <2>2. CASE \E e : e.pc # "supply" /\ req' = [req EXCEPT ![r] = e]
    BY <2>2 DEF TypeOK
  <2> QED  BY <2>1, <2>2
<1> QED  BY <1>1 DEF Holding, At

\* A step that moves no X and leaves the step where it is.
LEMMA QuietPlaces ==
  ASSUME Places,
         UNCHANGED <<start, step, ready, inflight, credited, legacyDone, lost>>,
         \A r \in Handler : Holding(r)' = Holding(r),
         \A r \in Handler : At(r, "cap")' => At(r, "cap")
  PROVE  Places'
<1> USE DEF Places, Gone, acked
<1>1. NoXTwice'
  BY DEF NoXTwice
<1>2. NoXMissing'
  BY DEF NoXMissing
<1>3. FreshAboveStep'
  BY DEF FreshAboveStep
<1>4. CapOnlyWhenExhausted'
  BY DEF CapOnlyWhenExhausted
<1> QED  BY <1>1, <1>2, <1>3, <1>4

\* An await is the only thing about a request that Goto changes.
LEMMA GotoAt ==
  ASSUME TypeOK, NEW r \in Handler, NEW pc, Goto(r, pc), NEW s \in Handler,
         NEW q
  PROVE  At(s, q)' <=> IF s = r THEN q = pc ELSE At(s, q)
BY DEF TypeOK, Goto, At, HandlerState, Idle

LEMMA EnsureStepPlaces ==
  ASSUME TypeOK, Places, NEW r \in Handler, EnsureStep(r)
  PROVE  Places'
<1>1. /\ step' \in Nat /\ start \in Nat /\ step \in Nat
      /\ step <= step' /\ (step' = step \/ step' = start)
  BY DEF EnsureStep, TypeOK, X
<1>2. \A s \in Handler : Holding(s)' = Holding(s)
  BY HoldingAfter DEF EnsureStep, Holding, At, Pc
<1>3. UNCHANGED <<start, ready, inflight, Gone, acked, legacyDone>>
  BY DEF EnsureStep, historyVars, Gone, acked
<1>4. NoXTwice'
  BY <1>2, <1>3 DEF Places, NoXTwice
<1>5. NoXMissing'
  BY <1>1, <1>2, <1>3 DEF Places, NoXMissing, X
<1>6. FreshAboveStep'
  BY <1>1, <1>2, <1>3 DEF Places, FreshAboveStep, X
<1>7. CapOnlyWhenExhausted'
  BY <1>1, GotoAt, ConstantsAssumption
     DEF EnsureStep, Places, CapOnlyWhenExhausted
<1> QED  BY <1>4, <1>5, <1>6, <1>7 DEF Places

\* INCRBY gives the X from the old step up to the new one, which nobody has.
LEMMA ClaimRangePlaces ==
  ASSUME TypeOK, Places, NEW r \in Handler, ClaimRange(r)
  PROVE  Places'
<1> DEFINE need == req[r].need
           claim == Claimed(step, need)
<1>1. need \in Nat /\ step \in Nat /\ step' = step + need
  BY BusyType DEF ClaimRange, At, TypeOK
<1>2. /\ req'[r].pc = IF PastEnd(step, need) THEN "cap" ELSE "supply"
      /\ req'[r].from = step /\ req'[r].need = need
      /\ \A s \in Handler \ {r} : req'[s] = req[s]
  BY BusyType DEF ClaimRange, At, TypeOK
<1>3. /\ Holding(r) = {}
      /\ Holding(r)' = IF PastEnd(step, need) THEN {} ELSE claim
      /\ \A s \in Handler \ {r} : Holding(s)' = Holding(s)
  <2>1. Holding(r) = {}
    BY DEF ClaimRange, Holding, At
  <2>2. Holding(r)' = IF req'[r].pc = "supply"
                      THEN Claimed(req'[r].from, req'[r].need) ELSE {}
    BY DEF Holding, At, Claimed
  <2>3. \A s \in Handler \ {r} : Holding(s)' = Holding(s)
    BY <1>2 DEF Holding, At, Claimed
  <2> QED  BY <1>2, <2>1, <2>2, <2>3
<1>4. UNCHANGED <<start, ready, inflight, Gone, acked, legacyDone>>
  BY DEF ClaimRange, historyVars, Gone, acked
<1>5. \A x \in claim : x \in X /\ step <= x /\ x < step'
  BY <1>1 DEF Claimed
<1>6. \A x \in claim : /\ x \notin ready \cup inflight \cup Gone
                       /\ \A s \in Handler : x \notin Holding(s)
  BY <1>1, <1>5 DEF Places, FreshAboveStep, X
<1>7. NoXTwice'
  BY <1>3, <1>4, <1>6 DEF Places, NoXTwice
<1>8. NoXMissing'
  <2> SUFFICES ASSUME NEW x \in X, start <= x, x < step'
               PROVE  \/ x \in ready \cup inflight \cup Gone
                      \/ \E s \in Handler : x \in Holding(s)'
    BY <1>4 DEF NoXMissing
  <2>1. CASE x < step
    BY <1>3, <2>1 DEF Places, NoXMissing
  <2>2. CASE ~(x < step)
    BY <1>1, <1>3, <2>2, ConstantsAssumption DEF Claimed, PastEnd, X
  <2> QED  BY <2>1, <2>2
<1>9. FreshAboveStep'
  BY <1>1, <1>3, <1>4, <1>5 DEF Places, FreshAboveStep, X
<1>10. CapOnlyWhenExhausted'
  BY <1>1, <1>2, ConstantsAssumption
     DEF Places, CapOnlyWhenExhausted, At, PastEnd
<1> QED  BY <1>7, <1>8, <1>9, <1>10 DEF Places

LEMMA SupplyReadyPlaces ==
  ASSUME TypeOK, Places, NEW r \in Handler, SupplyReady(r)
  PROVE  Places'
<1>1. Holding(r)' = {} /\ \A s \in Handler \ {r} : Holding(s)' = Holding(s)
  BY HoldingAfter DEF SupplyReady, Pc
<1>2. /\ ready' = ready \cup Holding(r)
      /\ UNCHANGED <<start, step, inflight, Gone, acked, legacyDone>>
  BY DEF SupplyReady, historyVars, Gone, acked
<1>3. NoXTwice'
  BY <1>1, <1>2 DEF Places, NoXTwice
<1>4. NoXMissing'
  BY <1>1, <1>2 DEF Places, NoXMissing
<1>5. FreshAboveStep'
  BY <1>1, <1>2 DEF Places, FreshAboveStep
<1>6. CapOnlyWhenExhausted'
  BY <1>2, GotoAt DEF SupplyReady, Places, CapOnlyWhenExhausted
<1> QED  BY <1>3, <1>4, <1>5, <1>6 DEF Places

LEMMA CapStepPlaces ==
  ASSUME TypeOK, Places, NEW r \in Handler, CapStep(r)
  PROVE  Places'
<1>1. \A s \in Handler : Holding(s)' = Holding(s)
  BY HoldingAfter DEF CapStep, Holding, At, Pc
<1>2. step > MaxX /\ step' > MaxX /\ step \in Nat /\ MaxX \in Nat /\ step' \in Nat
  BY ConstantsAssumption DEF CapStep, Places, CapOnlyWhenExhausted, TypeOK
<1>3. UNCHANGED <<start, ready, inflight, Gone, acked, legacyDone>>
  BY DEF CapStep, historyVars, Gone, acked
<1>4. NoXTwice'
  BY <1>1, <1>3 DEF Places, NoXTwice
<1>5. NoXMissing'
  BY <1>1, <1>2, <1>3 DEF Places, NoXMissing, X
<1>6. FreshAboveStep'
  BY <1>2 DEF FreshAboveStep, X
<1>7. CapOnlyWhenExhausted'
  BY <1>2 DEF CapOnlyWhenExhausted
<1> QED  BY <1>4, <1>5, <1>6, <1>7 DEF Places

\* Some part of the program knows x.
Somewhere(x) ==
  \/ x \in ready \cup inflight \cup Gone
  \/ \E r \in Handler : x \in Holding(r)

\* A step that only moves X between places.
LEMMA MovePlaces ==
  ASSUME Places, NoXTwice', UNCHANGED <<start, step>>,
         \A x \in X : Somewhere(x)' <=> Somewhere(x),
         \A s \in Handler : At(s, "cap")' => At(s, "cap")
  PROVE  Places'
<1>1. NoXMissing'
  BY DEF Places, NoXMissing, Somewhere
<1>2. FreshAboveStep'
  BY DEF Places, FreshAboveStep, Somewhere
<1>3. CapOnlyWhenExhausted'
  BY DEF Places, CapOnlyWhenExhausted
<1> QED  BY <1>1, <1>2, <1>3 DEF Places

LEMMA AllocatePlaces ==
  ASSUME TypeOK, Places, NEW r \in Handler, Allocate(r)
  PROVE  Places'
<1>1. PICK T \in SUBSET ready : Allocated(r, T)
  BY AllocateBatch
<1>2. /\ ready' = ready \ T /\ inflight' = inflight \cup T
      /\ UNCHANGED <<start, step, Gone, acked, legacyDone>>
      /\ Goto(r, "poll") \/ Answer(r)
  BY <1>1 DEF Allocate, Allocated, historyVars, Gone, acked
<1>3. \A s \in Handler : Holding(s)' = Holding(s)
  <2>1. /\ Holding(r)' = {}
        /\ \A s \in Handler \ {r} : Holding(s)' = Holding(s)
    BY <1>2, HoldingAfter DEF Answer, Idle, Pc
  <2>2. Holding(r) = {}
    BY DEF Allocate, Holding, At
  <2> QED  BY <2>1, <2>2
<1>4. \A s \in Handler : At(s, "cap")' => At(s, "cap")
  BY <1>2, GotoAt DEF Answer, Idle, At, TypeOK
<1>5. NoXTwice'
  BY <1>2, <1>3 DEF Places, NoXTwice
<1>6. \A x \in X : Somewhere(x)' <=> Somewhere(x)
  BY <1>2, <1>3 DEF Somewhere
<1> QED  BY <1>2, <1>4, <1>5, <1>6, MovePlaces

LEMMA RequeuePlaces ==
  ASSUME TypeOK, Places, Requeue
  PROVE  Places'
<1>1. PICK T \in SUBSET inflight : inflight' = inflight \ T /\ ready' = ready \cup T
  BY DEF Requeue
<1>2. UNCHANGED <<start, step, Gone, acked, legacyDone, req>>
  BY DEF Requeue, historyVars, Gone, acked
<1>3. \A s \in Handler : Holding(s)' = Holding(s) /\ (At(s, "cap")' => At(s, "cap"))
  BY <1>2 DEF Holding, At
<1>4. NoXTwice'
  BY <1>1, <1>2, <1>3 DEF Places, NoXTwice
<1>5. \A x \in X : Somewhere(x)' <=> Somewhere(x)
  BY <1>1, <1>2, <1>3 DEF Somewhere
<1> QED  BY <1>2, <1>3, <1>4, <1>5, MovePlaces

\* What mark_done accepts is in flight.
LEMMA AcceptedInflight ==
  ASSUME TypeOK, Leases, NEW S \in SUBSET grants
  PROVE  XsOf(AcceptedGrants(S)) \subseteq inflight
<1>1. ASSUME NEW g \in S, Accepted(g)
      PROVE  g.x \in inflight
  <2>1. g.m \in Machine /\ g.x \in X /\ g.lid \in Nat
    BY DEF TypeOK
  <2>2. lease[g.x] # None
    BY <1>1, <2>1, ConstantsAssumption DEF Accepted, Lease
  <2> QED  BY <2>1, <2>2 DEF Leases, StoredLeaseIsNewest
<1> QED  BY <1>1 DEF XsOf, AcceptedGrants

LEMMA MarkDonePlaces ==
  ASSUME TypeOK, Leases, Places, NEW m, NEW S, MarkDone(m, S)
  PROVE  Places'
<1> DEFINE done == XsOf(AcceptedGrants(S))
<1>1. done \subseteq inflight
  BY AcceptedInflight DEF MarkDone
<1>2. /\ inflight' = inflight \ done
      /\ acked' = acked \cup done /\ Gone' = Gone \cup done
      /\ UNCHANGED <<start, step, ready, legacyDone, req>>
  BY DEF MarkDone, acked, Gone, XsOf
<1>3. \A s \in Handler : Holding(s)' = Holding(s) /\ (At(s, "cap")' => At(s, "cap"))
  BY <1>2 DEF Holding, At
<1>4. legacyDone \subseteq Gone
  BY DEF Gone
<1>5. NoXTwice'
  BY <1>1, <1>2, <1>3, <1>4 DEF Places, NoXTwice
<1>6. \A x \in X : Somewhere(x)' <=> Somewhere(x)
  BY <1>1, <1>2, <1>3 DEF Somewhere
<1> QED  BY <1>2, <1>3, <1>5, <1>6, MovePlaces

LEMMA LegacyMarkDonePlaces ==
  ASSUME TypeOK, Places, NEW r \in Handler, NEW m, NEW S, LegacyMarkDone(r, m, S)
  PROVE  Places'
<1>1. /\ inflight' = inflight \ S
      /\ legacyDone' = legacyDone \cup (S \cap inflight)
      /\ Gone' = Gone \cup (S \cap inflight)
      /\ UNCHANGED <<start, step, ready, acked>>
  BY DEF LegacyMarkDone, Gone, acked
<1>2. \A s \in Handler : Holding(s)' = Holding(s)
  BY HoldingAfter DEF LegacyMarkDone, Holding, At
<1>3. \A s \in Handler : At(s, "cap")' => At(s, "cap")
  BY DEF LegacyMarkDone, At, TypeOK
<1>4. acked \subseteq Gone
  BY DEF Gone
<1>5. NoXTwice'
  BY <1>1, <1>2, <1>4 DEF Places, NoXTwice
<1>6. \A x \in X : Somewhere(x)' <=> Somewhere(x)
  BY <1>1, <1>2 DEF Somewhere
<1> QED  BY <1>1, <1>3, <1>5, <1>6, MovePlaces

LEMMA FailPlaces ==
  ASSUME TypeOK, Places, NEW r \in Handler, Fail(r)
  PROVE  Places'
<1>1. Holding(r)' = {} /\ \A s \in Handler \ {r} : Holding(s)' = Holding(s)
  BY HoldingAfter DEF Fail, Answer, Idle
<1>2. /\ Gone' = Gone \cup Holding(r)
      /\ UNCHANGED <<start, step, ready, inflight, acked, legacyDone>>
  BY DEF Fail, poolVars, Gone, acked
<1>3. \A s \in Handler : At(s, "cap")' => At(s, "cap")
  BY DEF Fail, Answer, Idle, At, TypeOK
<1>4. NoXTwice'
  BY <1>1, <1>2 DEF Places, NoXTwice
<1>5. \A x \in X : Somewhere(x)' <=> Somewhere(x)
  BY <1>1, <1>2 DEF Somewhere
<1> QED  BY <1>2, <1>3, <1>4, <1>5, MovePlaces

LEMMA NextPlaces ==
  ASSUME TypeOK, Leases, Places, [Next]_vars
  PROVE  Places'
<1> USE DEF poolVars, historyVars
<1>1. ASSUME NEW r \in Handler, NEW m, NEW count, GetNumber(r, m, count)
      PROVE  Places'
  <2>1. \A s \in Handler : Holding(s)' = Holding(s)
    BY <1>1, HoldingAfter DEF GetNumber, Holding, At
  <2>2. \A s \in Handler : At(s, "cap")' => At(s, "cap")
    BY <1>1 DEF GetNumber, At, TypeOK
  <2> QED  BY <1>1, <2>1, <2>2, QuietPlaces DEF GetNumber
<1>2. ASSUME NEW r \in Handler, Poll(r) \/ LegacyTally(r)
      PROVE  Places'
  <2>1. Answer(r) /\ ~At(r, "supply")
    BY <1>2 DEF Poll, LegacyTally, At
  <2>2. \A s \in Handler : Holding(s)' = Holding(s)
    BY <2>1, HoldingAfter DEF Answer, Idle, Holding
  <2>3. \A s \in Handler : At(s, "cap")' => At(s, "cap")
    BY <2>1 DEF Answer, Idle, At, TypeOK
  <2> QED  BY <1>2, <2>2, <2>3, QuietPlaces DEF Poll, LegacyTally
<1>3. CASE Clock
  BY <1>3, QuietPlaces
     DEF Clock, LeaseFallsDue, LeaseKeyExpires, Holding, At
<1>4. CASE UNCHANGED vars
  BY <1>4, QuietPlaces DEF vars, Holding, At
<1>5. CASE TrainerCall
  BY <1>1, <1>5, MarkDonePlaces, LegacyMarkDonePlaces DEF TrainerCall
<1>6. ASSUME NEW r \in Handler, HandlerStep(r) \/ Fail(r)
      PROVE  Places'
  BY <1>2, <1>6, EnsureStepPlaces, ClaimRangePlaces, SupplyReadyPlaces,
     CapStepPlaces, AllocatePlaces, FailPlaces DEF HandlerStep
<1> QED  BY <1>3, <1>4, <1>5, <1>6, RequeuePlaces DEF Next

THEOREM PlacesInOrder == Spec => []Places
<1>1. TypeOK /\ Leases /\ Places /\ [Next]_vars => (TypeOK /\ Leases /\ Places)'
  BY NextType, NextLeases, NextPlaces
<1> QED  BY InitType, InitLeases, InitPlaces, <1>1, PTL DEF Spec

\* No X is ever with two trainers, two requests, or out again once it is retired.
THEOREM NeverTwice == Spec => []NoXTwice
<1>1. Places => NoXTwice
  BY DEF Places
<1> QED  BY PlacesInOrder, <1>1, PTL

\* No X below the step slips out of the pool, but for those that a request took
\* with it when it died before supply_ready.
THEOREM NeverMissing == Spec => []NoXMissing
<1>1. Places => NoXMissing
  BY DEF Places
<1> QED  BY PlacesInOrder, <1>1, PTL

\* set_step(MAX_X + 1) never takes back a claim.
THEOREM CapIsSafe == Spec => []CapOnlyWhenExhausted
<1>1. Places => CapOnlyWhenExhausted
  BY DEF Places
<1> QED  BY PlacesInOrder, <1>1, PTL

-----------------------------------------------------------------------------
(* The counters *)

LEMMA CardUnion ==
  ASSUME NEW S, IsFiniteSet(S), NEW T, IsFiniteSet(T), S \cap T = {}
  PROVE  /\ IsFiniteSet(S \cup T)
         /\ Cardinality(S \cup T) = Cardinality(S) + Cardinality(T)
         /\ Cardinality(S) \in Nat /\ Cardinality(T) \in Nat
<1>1. Cardinality(S) \in Nat /\ Cardinality(T) \in Nat
  BY FS_CardinalityType
<1>2. Cardinality(S \cap T) = 0
  BY FS_EmptySet
<1>3. /\ IsFiniteSet(S \cup T)
      /\ Cardinality(S \cup T)
           = Cardinality(S) + Cardinality(T) - Cardinality(S \cap T)
  BY FS_Union
<1> QED  BY <1>1, <1>2, <1>3

LEMMA CardMinus ==
  ASSUME NEW S, IsFiniteSet(S), NEW T \in SUBSET S
  PROVE  /\ Cardinality(S \ T) = Cardinality(S) - Cardinality(T)
         /\ Cardinality(S) \in Nat /\ Cardinality(T) \in Nat
<1>1. IsFiniteSet(T) /\ IsFiniteSet(S \ T)
  BY FS_Subset
<1>2. (S \ T) \cup T = S /\ (S \ T) \cap T = {}
  OBVIOUS
<1>3. /\ Cardinality(S) = Cardinality(S \ T) + Cardinality(T)
      /\ Cardinality(S \ T) \in Nat /\ Cardinality(T) \in Nat
  BY <1>1, <1>2, CardUnion
<1> QED  BY <1>3

\* Grants of different X are as many as their X.
LEMMA CardXs ==
  ASSUME NEW S, IsFiniteSet(S), \A g, h \in S : g.x = h.x => g = h
  PROVE  Cardinality(XsOf(S)) = Cardinality(S)
<1> DEFINE f == [g \in S |-> g.x]
<1>1. /\ f \in [S -> XsOf(S)]
      /\ \A x \in XsOf(S) : \E g \in S : f[g] = x
      /\ \A g, h \in S : f[g] = f[h] => g = h
  BY DEF XsOf
<1>2. f \in Surjection(S, XsOf(S)) /\ f \in Injection(S, XsOf(S))
  BY <1>1, Fun_IsSurj, Fun_IsInj
<1> QED  BY <1>2, FS_Surjection

LEMMA InitCounts == Init => Counts
BY FS_EmptySet DEF Init, Counts, NoDoubleCredit, LeaseAccounting

LEMMA AllocateCounts ==
  ASSUME TypeOK, Places, Counts, NEW r \in Handler, Allocate(r)
  PROVE  Counts'
<1>1. PICK T \in SUBSET ready : Allocated(r, T) /\ T \subseteq X
  BY AllocateBatch
<1>2. inflight \cap T = {}
  BY DEF Places, NoXTwice
<1>3. IsFiniteSet(inflight) /\ IsFiniteSet(T)
  BY <1>1, SpaceFinite DEF TypeOK
<1>4. /\ Cardinality(inflight') = Cardinality(inflight) + Cardinality(T)
      /\ Cardinality(inflight) \in Nat /\ Cardinality(T) \in Nat
  BY <1>1, <1>2, <1>3, CardUnion DEF Allocated
<1>5. Cardinality(credited) \in Nat /\ Cardinality(legacyDone) \in Nat
  BY FS_Subset, FS_CardinalityType, SpaceFinite DEF TypeOK
<1>6. /\ leaseSeq' = leaseSeq + Cardinality(T)
      /\ UNCHANGED <<completed, requeued, credited, legacyDone, legacyCount>>
  BY <1>1 DEF Allocate, Allocated, historyVars
<1>7. LeaseAccounting'
  BY <1>4, <1>5, <1>6 DEF Counts, LeaseAccounting, TypeOK
<1> QED  BY <1>6, <1>7 DEF Counts, NoDoubleCredit

LEMMA MarkDoneCounts ==
  ASSUME TypeOK, Leases, Places, Counts, NEW m, NEW S, MarkDone(m, S)
  PROVE  Counts'
<1> DEFINE A == AcceptedGrants(S)
           done == XsOf(A)
<1>1. A \subseteq grants /\ A \subseteq S /\ done \subseteq inflight
  BY AcceptedInflight DEF MarkDone, AcceptedGrants
<1>2. /\ inflight' = inflight \ done /\ credited' = credited \cup A
      /\ completed' = completed + Cardinality(A)
      /\ UNCHANGED <<leaseSeq, requeued, legacyDone, legacyCount>>
  BY DEF MarkDone, Credit
<1>3. \A g \in credited, h \in A : g.x # h.x
  BY <1>1 DEF Places, NoXTwice, Gone, acked, XsOf
<1>4. \A g, h \in A : g.x = h.x => g = h
  BY <1>1 DEF MarkDone
<1>5. NoDoubleCredit'
  BY <1>2, <1>3, <1>4 DEF Counts, NoDoubleCredit
<1>6. IsFiniteSet(inflight) /\ IsFiniteSet(credited) /\ IsFiniteSet(A)
  BY <1>1, FS_Subset, SpaceFinite DEF TypeOK
<1>7. credited \cap A = {}
  BY <1>3
<1>8. /\ Cardinality(credited') = Cardinality(credited) + Cardinality(A)
      /\ Cardinality(credited) \in Nat /\ Cardinality(A) \in Nat
  BY <1>2, <1>6, <1>7, CardUnion
<1>9. /\ Cardinality(inflight') = Cardinality(inflight) - Cardinality(A)
      /\ Cardinality(inflight) \in Nat
  <2>1. Cardinality(done) = Cardinality(A)
    BY <1>4, <1>6, CardXs
  <2>2. /\ Cardinality(inflight \ done) = Cardinality(inflight) - Cardinality(done)
        /\ Cardinality(inflight) \in Nat
    BY <1>1, <1>6, CardMinus
  <2> QED  BY <1>2, <2>1, <2>2
<1>10. Cardinality(legacyDone) \in Nat
  BY SpaceFinite DEF TypeOK
<1> HIDE DEF A, done
<1>11. LeaseAccounting'
  BY <1>2, <1>8, <1>9, <1>10 DEF Counts, LeaseAccounting, TypeOK
<1> QED  BY <1>5, <1>11 DEF Counts

LEMMA LegacyMarkDoneCounts ==
  ASSUME TypeOK, Places, Counts, NEW r, NEW m, NEW S, LegacyMarkDone(r, m, S)
  PROVE  Counts'
<1> DEFINE out == S \cap inflight
<1>1. /\ inflight' = inflight \ out /\ legacyDone' = legacyDone \cup out
      /\ UNCHANGED <<leaseSeq, completed, requeued, credited, legacyCount>>
  BY DEF LegacyMarkDone
<1>2. out \subseteq inflight /\ legacyDone \cap out = {}
  BY DEF Places, NoXTwice, Gone
<1>3. IsFiniteSet(inflight) /\ IsFiniteSet(legacyDone) /\ IsFiniteSet(out)
  BY <1>2, FS_Subset, SpaceFinite DEF TypeOK
<1>4. /\ Cardinality(legacyDone') = Cardinality(legacyDone) + Cardinality(out)
      /\ Cardinality(legacyDone) \in Nat /\ Cardinality(out) \in Nat
  BY <1>1, <1>2, <1>3, CardUnion
<1>5. /\ Cardinality(inflight') = Cardinality(inflight) - Cardinality(out)
      /\ Cardinality(inflight) \in Nat
  BY <1>1, <1>2, <1>3, CardMinus
<1>6. Cardinality(credited) \in Nat
  BY FS_Subset, FS_CardinalityType DEF TypeOK
<1> HIDE DEF out
<1>7. LeaseAccounting'
  BY <1>1, <1>4, <1>5, <1>6 DEF Counts, LeaseAccounting, TypeOK
<1> QED  BY <1>1, <1>7 DEF Counts, NoDoubleCredit

LEMMA RequeueCounts ==
  ASSUME TypeOK, Counts, Requeue
  PROVE  Counts'
<1>1. PICK T \in SUBSET inflight :
        inflight' = inflight \ T /\ requeued' = requeued + Cardinality(T)
  BY DEF Requeue
<1>2. /\ Cardinality(inflight') = Cardinality(inflight) - Cardinality(T)
      /\ Cardinality(inflight) \in Nat /\ Cardinality(T) \in Nat
  BY <1>1, CardMinus, SpaceFinite DEF TypeOK
<1>3. Cardinality(credited) \in Nat /\ Cardinality(legacyDone) \in Nat
  BY FS_Subset, FS_CardinalityType, SpaceFinite DEF TypeOK
<1>4. UNCHANGED <<leaseSeq, completed, credited, legacyDone, legacyCount>>
  BY DEF Requeue, historyVars
<1>5. LeaseAccounting'
  BY <1>1, <1>2, <1>3, <1>4 DEF Counts, LeaseAccounting, TypeOK
<1> QED  BY <1>4, <1>5 DEF Counts, NoDoubleCredit

LEMMA NextCounts ==
  ASSUME TypeOK, Leases, Places, Counts, [Next]_vars
  PROVE  Counts'
<1> USE DEF poolVars, historyVars
<1>1. CASE UNCHANGED <<leaseSeq, requeued, inflight, credited, legacyDone>>
  BY <1>1 DEF Counts, NoDoubleCredit, LeaseAccounting
<1>2. CASE TrainerCall
  BY <1>1, <1>2, MarkDoneCounts, LegacyMarkDoneCounts DEF TrainerCall, GetNumber
<1>3. ASSUME NEW r \in Handler, HandlerStep(r) \/ Fail(r)
      PROVE  Counts'
  BY <1>1, <1>3, AllocateCounts
     DEF HandlerStep, EnsureStep, ClaimRange, SupplyReady, CapStep, Poll, LegacyTally,
         Fail
<1>4. CASE Clock
  BY <1>1, <1>4 DEF Clock, LeaseFallsDue, LeaseKeyExpires
<1> QED  BY <1>1, <1>2, <1>3, <1>4, RequeueCounts DEF Next, vars

\* Types, leases, places and counters together are inductive.
THEOREM Safety == Spec => []Inv
<1>1. Init => Inv
  BY InitType, InitLeases, InitPlaces, InitCounts DEF Inv
<1>2. Inv /\ [Next]_vars => Inv'
  BY NextType, NextLeases, NextPlaces, NextCounts DEF Inv
<1> QED  BY <1>1, <1>2, PTL DEF Spec

\* No X is counted under two leases.
THEOREM NeverCountedTwice == Spec => []NoDoubleCredit
<1>1. Inv => NoDoubleCredit
  BY DEF Inv, Counts
<1> QED  BY Safety, <1>1, PTL

\* The counters of the Overview page add up: issued leases are in flight, were
\* retired or were requeued.
THEOREM LeasesAddUp == Spec => []LeaseAccounting
<1>1. Inv => LeaseAccounting
  BY DEF Inv, Counts
<1> QED  BY Safety, <1>1, PTL

-----------------------------------------------------------------------------
(* completed:count and the requests on their way to it.  None of this needs  *)
(* the places of the X, so it serves PoolAdmin as well.                       *)

LEMMA SliceCard ==
  ASSUME NEW r, NEW n \in Nat
  PROVE  IsFiniteSet({r} \X (1 .. n)) /\ Cardinality({r} \X (1 .. n)) = n
<1>1. IsFiniteSet({r}) /\ Cardinality({r}) = 1
  BY FS_Singleton
<1>2. IsFiniteSet(1 .. n) /\ Cardinality(1 .. n) = n
  BY FS_Interval, 1 \in Int, n \in Int
<1>3. /\ IsFiniteSet({r} \X (1 .. n))
      /\ Cardinality({r} \X (1 .. n)) = Cardinality({r}) * Cardinality(1 .. n)
  BY <1>1, <1>2, FS_Product
<1> QED  BY <1>1, <1>2, <1>3

\* A call without leases comes to owe n ...
LEMMA OwedGrows ==
  ASSUME IsFiniteSet(Owed), NEW r \in Handler, NEW n \in Nat,
         Unpaid(r) = 0, Unpaid(r)' = n,
         \A s \in Handler \ {r} : Unpaid(s)' = Unpaid(s)
  PROVE  IsFiniteSet(Owed)' /\ Cardinality(Owed)' = Cardinality(Owed) + n
<1> DEFINE new == {r} \X (1 .. n)
<1>1. Owed' = Owed \cup new /\ Owed \cap new = {}
  BY DEF Owed
<1>2. IsFiniteSet(new) /\ Cardinality(new) = n
  BY SliceCard
<1> HIDE DEF new
<1> QED  BY <1>1, <1>2, CardUnion

\* ... and then owes nothing.
LEMMA OwedShrinks ==
  ASSUME IsFiniteSet(Owed), NEW r \in Handler, NEW n \in Nat,
         Unpaid(r) = n, Unpaid(r)' = 0,
         \A s \in Handler \ {r} : Unpaid(s)' = Unpaid(s)
  PROVE  IsFiniteSet(Owed)' /\ Cardinality(Owed)' = Cardinality(Owed) - n
<1> DEFINE old == {r} \X (1 .. n)
<1>1. Owed' = Owed \ old /\ old \in SUBSET Owed
  BY DEF Owed
<1>2. Cardinality(old) = n
  BY SliceCard
<1>3. IsFiniteSet(Owed')
  BY <1>1, FS_Subset
<1> HIDE DEF old
<1>4. Cardinality(Owed') = Cardinality(Owed) - n
  BY <1>1, <1>2, CardMinus
<1> QED  BY <1>3, <1>4

\* The count covers what was retired; inductive with its first conjunct.
Covered == IsFiniteSet(Owed) /\ CountCovers

LEMMA InitCovered == Init => Covered
<1> SUFFICES ASSUME Init
             PROVE  Covered
  OBVIOUS
<1>1. Owed = {}
  BY DEF Init, Owed, Unpaid, At, Idle
<1>2. credited = {} /\ legacyDone = {} /\ completed = 0 /\ uncounted = 0
  BY DEF Init
<1> QED  BY <1>1, <1>2, FS_EmptySet DEF Covered, CountCovers

\* What only the requests' other awaits, the clock and the queue do does not matter.
LEMMA CoveredStays ==
  ASSUME Covered, UNCHANGED <<credited, legacyDone, completed, uncounted>>,
         \A r \in Handler : Unpaid(r)' = Unpaid(r)
  PROVE  Covered'
<1>1. Owed' = Owed
  BY DEF Owed
<1> QED  BY <1>1 DEF Covered, CountCovers

LEMMA MarkDoneCovered ==
  ASSUME TypeOK, Covered, NEW m, NEW S, MarkDone(m, S)
  PROVE  Covered'
<1> DEFINE A == AcceptedGrants(S)
<1>1. /\ credited' = credited \cup A /\ completed' = completed + Cardinality(A)
      /\ UNCHANGED <<legacyDone, uncounted, req>>
  BY DEF MarkDone, Credit
<1>2. A \subseteq grants
  BY DEF MarkDone, AcceptedGrants
<1>3. IsFiniteSet(credited) /\ IsFiniteSet(A) /\ IsFiniteSet(credited \cap A)
  BY <1>2, FS_Subset DEF TypeOK
<1>4. Cardinality(credited \cup A)
        = Cardinality(credited) + Cardinality(A) - Cardinality(credited \cap A)
  BY <1>3, FS_Union
<1>5. /\ Cardinality(credited) \in Nat /\ Cardinality(A) \in Nat
      /\ Cardinality(credited \cap A) \in Nat
  BY <1>3, FS_CardinalityType
<1>6. Owed' = Owed
  BY <1>1 DEF Owed, Unpaid, At
<1>7. Cardinality(legacyDone) \in Nat /\ Cardinality(Owed) \in Nat
  BY SpaceFinite, FS_CardinalityType DEF TypeOK, Covered
<1> HIDE DEF A
<1> QED  BY <1>1, <1>4, <1>5, <1>6, <1>7 DEF Covered, CountCovers, TypeOK

LEMMA LegacyMarkDoneCovered ==
  ASSUME TypeOK, Covered, NEW r \in Handler, NEW m, NEW S \in SUBSET X,
         LegacyMarkDone(r, m, S)
  PROVE  Covered'
<1> DEFINE out == S \cap inflight
<1>1. /\ legacyDone' = legacyDone \cup out
      /\ UNCHANGED <<credited, completed, uncounted>>
  BY DEF LegacyMarkDone
<1>2. /\ IsFiniteSet(S) /\ IsFiniteSet(out) /\ IsFiniteSet(legacyDone)
      /\ IsFiniteSet(legacyDone \cap out)
  BY SpaceFinite DEF TypeOK
<1>3. /\ Cardinality(S) \in Nat /\ Cardinality(out) \in Nat
      /\ Cardinality(legacyDone) \in Nat /\ Cardinality(legacyDone \cap out) \in Nat
      /\ Cardinality(out) <= Cardinality(S)
  BY <1>2, FS_CardinalityType, FS_Subset
<1>4. Cardinality(legacyDone \cup out)
        = Cardinality(legacyDone) + Cardinality(out) - Cardinality(legacyDone \cap out)
  BY <1>2, FS_Union
<1>5. Unpaid(r) = 0 /\ Unpaid(r)' = Cardinality(S)
      /\ \A s \in Handler \ {r} : Unpaid(s)' = Unpaid(s)
  BY DEF LegacyMarkDone, Unpaid, At, Named, TypeOK
<1>6. IsFiniteSet(Owed)' /\ Cardinality(Owed)' = Cardinality(Owed) + Cardinality(S)
  BY <1>3, <1>5, OwedGrows DEF Covered
<1>7. Cardinality(credited) \in Nat /\ Cardinality(Owed) \in Nat
  BY FS_Subset, FS_CardinalityType DEF TypeOK, Covered
<1> HIDE DEF out
<1> QED  BY <1>1, <1>3, <1>4, <1>6, <1>7 DEF Covered, CountCovers, TypeOK

\* A request that answers or dies owes nothing any more: it has paid, or what it
\* owed is known not to be counted.
LEMMA PaidCovered ==
  ASSUME TypeOK, Covered, NEW r \in Handler, LegacyTally(r) \/ Fail(r)
  PROVE  Covered'
<1>1. Unpaid(r) \in Nat
  BY BusyType DEF LegacyTally, Fail, Unpaid, At
<1>2. Unpaid(r)' = 0 /\ \A s \in Handler \ {r} : Unpaid(s)' = Unpaid(s)
  BY DEF LegacyTally, Fail, Answer, Unpaid, At, Idle, TypeOK
<1>3. IsFiniteSet(Owed)' /\ Cardinality(Owed)' = Cardinality(Owed) - Unpaid(r)
  BY <1>1, <1>2, OwedShrinks DEF Covered
<1>4. /\ completed' + uncounted' = completed + uncounted + Unpaid(r)
      /\ UNCHANGED <<credited, legacyDone>>
  BY <1>1 DEF LegacyTally, Fail, poolVars, Unpaid, TypeOK
<1>5. /\ Cardinality(credited) \in Nat /\ Cardinality(legacyDone) \in Nat
      /\ Cardinality(Owed) \in Nat
  BY FS_Subset, FS_CardinalityType, SpaceFinite DEF TypeOK, Covered
<1>6. completed' \in Nat /\ uncounted' \in Nat
  BY <1>1 DEF LegacyTally, Fail, poolVars, Unpaid, TypeOK
<1> QED  BY <1>1, <1>3, <1>4, <1>5, <1>6 DEF Covered, CountCovers, TypeOK

\* A request that goes from one await to another, neither the last of a mark_done
\* without leases, owes what it did.
LEMMA OtherAwaits ==
  ASSUME NEW r \in Handler, ~At(r, "tally"), req'[r].pc # "tally",
         \A s \in Handler \ {r} : req'[s] = req[s]
  PROVE  \A s \in Handler : Unpaid(s)' = Unpaid(s)
BY DEF Unpaid, At

LEMMA NextCovered ==
  ASSUME TypeOK, Covered, [Next]_vars
  PROVE  Covered'
<1> USE DEF poolVars, historyVars
<1>1. CASE TrainerCall
  <2>1. ASSUME NEW r \in Handler, NEW m \in Machine, NEW count \in 1 .. CountLimit,
               GetNumber(r, m, count)
        PROVE  Covered'
    <3>1. \A s \in Handler : Unpaid(s)' = Unpaid(s)
      BY <2>1 DEF GetNumber, Unpaid, At, TypeOK
    <3> QED  BY <2>1, <3>1, CoveredStays DEF GetNumber
  <2> QED  BY <1>1, <2>1, MarkDoneCovered, LegacyMarkDoneCovered DEF TrainerCall
<1>2. ASSUME NEW r \in Handler, HandlerStep(r) \/ Fail(r)
      PROVE  Covered'
  <2>1. CASE LegacyTally(r) \/ Fail(r)
    BY <2>1, PaidCovered
  <2>2. CASE \/ EnsureStep(r) \/ ClaimRange(r) \/ SupplyReady(r) \/ CapStep(r)
             \/ Allocate(r) \/ Poll(r)
    <3>1. UNCHANGED <<credited, legacyDone, completed, uncounted>>
      BY <2>2
         DEF EnsureStep, ClaimRange, SupplyReady, CapStep, Allocate, Poll
    <3>2. ~At(r, "tally") /\ ~At(r, "idle")
      BY <2>2 DEF EnsureStep, ClaimRange, SupplyReady, CapStep, Allocate, Poll, At
    <3>3. req'[r].pc # "tally" /\ \A s \in Handler \ {r} : req'[s] = req[s]
      <4>1. CASE ClaimRange(r)
        <5>1. req[r] \in [pc : Pc \ {"idle"}, m : Machine, count : Nat, need : Nat,
                          from : Nat]
          BY <3>2, BusyType
        <5> QED  BY <4>1, <5>1 DEF ClaimRange, TypeOK
      <4>2. ASSUME NEW pc \in {"claim", "allocate", "poll"}, Goto(r, pc)
            PROVE  req'[r].pc # "tally" /\ \A s \in Handler \ {r} : req'[s] = req[s]
        <5>1. req[r] \in [pc : Pc \ {"idle"}, m : Machine, count : Nat, need : Nat,
                          from : Nat]
          BY <3>2, BusyType
        <5> QED  BY <4>2, <5>1 DEF Goto, TypeOK
      <4>3. CASE Answer(r)
        BY <4>3 DEF Answer, Idle, TypeOK
      <4> QED
        BY <2>2, <4>1, <4>2, <4>3
           DEF EnsureStep, SupplyReady, CapStep, Allocate, Poll
    <3> QED  BY <3>1, <3>2, <3>3, OtherAwaits, CoveredStays
  <2> QED  BY <1>2, <2>1, <2>2 DEF HandlerStep
<1>3. CASE Requeue \/ Clock \/ UNCHANGED vars
  <2>1. UNCHANGED <<req, credited, legacyDone, completed, uncounted>>
    BY <1>3 DEF Requeue, Clock, LeaseFallsDue, LeaseKeyExpires, vars
  <2> QED  BY <2>1, CoveredStays DEF Unpaid, At
<1> QED  BY <1>1, <1>2, <1>3 DEF Next

\* Nothing that was accepted or withdrawn stays out of completed:count, unless its
\* request died between the two commands of a mark_done without leases.
THEOREM CountNeverBehind == Spec => []CountCovers
<1>1. Init => TypeOK /\ Covered
  BY InitType, InitCovered
<1>2. TypeOK /\ Covered /\ [Next]_vars => (TypeOK /\ Covered)'
  BY NextType, NextCovered
<1>3. Covered => CountCovers
  BY DEF Covered
<1> QED  BY <1>1, <1>2, <1>3, PTL DEF Spec

-----------------------------------------------------------------------------
(* The answer "done" when requests come one at a time *)

LEMMA AllocateEmpty ==
  ASSUME TypeOK, NEW r \in Handler, At(r, "allocate"), req[r].count > 0,
         NEW T \in Lowest(ready, req[r].count), T = {}
  PROVE  ready = {}
<1>1. req[r].count \in Nat
  BY BusyType DEF At
<1>2. Cardinality(T) # req[r].count
  BY <1>1, FS_EmptySet
<1> QED  BY <1>2 DEF Lowest

LEMMA NextExhausted ==
  ASSUME \A r, s \in Handler : r = s, TypeOK, EmptyMeansExhausted, [Next]_vars
  PROVE  EmptyMeansExhausted'
<1> USE DEF poolVars, historyVars
<1>0. /\ \A m \in Machine : told[m] = "done" => step > MaxX
      /\ step \in Nat /\ MaxX \in Nat /\ start \in Nat /\ start <= MaxX
  BY ConstantsAssumption DEF EmptyMeansExhausted, DoneMeansExhausted, TypeOK, X
<1>1. ASSUME UNCHANGED <<step, req, told>>, ready \subseteq ready'
      PROVE  EmptyMeansExhausted'
  BY <1>1 DEF EmptyMeansExhausted, DoneMeansExhausted, At
<1>2. ASSUME NEW r \in Handler, NEW q, req' = [req EXCEPT ![r] = q],
             q.pc \in {"idle", "tally"}, step' = step, told' = told
      PROVE  EmptyMeansExhausted'
  <2>1. \A s \in Handler : req'[s] = q
    BY <1>2 DEF TypeOK
  <2> QED
    BY <1>0, <1>2, <2>1 DEF EmptyMeansExhausted, DoneMeansExhausted, At
<1>3. ASSUME NEW r \in Handler, NEW m \in Machine, NEW count \in 1 .. CountLimit,
             GetNumber(r, m, count)
      PROVE  EmptyMeansExhausted'
  <2>1. Cardinality(ready) \in Nat /\ (Cardinality(ready) = 0 <=> ready = {})
    BY FS_Subset, FS_CardinalityType, FS_EmptySet, SpaceFinite DEF TypeOK
  <2>2. count \in Nat /\ count > 0
    BY ConstantsAssumption
  <2>3. CASE Cardinality(ready) < count
    <3>1. req' = [req EXCEPT ![r] = [pc |-> "ensure", m |-> m, count |-> count,
                                     need |-> count - Cardinality(ready), from |-> 0]]
      BY <1>3, <2>3 DEF GetNumber
    <3>2. \A s \in Handler : /\ At(s, "ensure")' /\ req'[s].count > 0
                             /\ req'[s].need > 0
      BY <2>1, <2>2, <2>3, <3>1 DEF TypeOK, At
    <3> QED
      BY <1>0, <1>3, <3>2 DEF GetNumber, EmptyMeansExhausted, DoneMeansExhausted, At
  <2>4. CASE ~(Cardinality(ready) < count)
    <3>1. req' = [req EXCEPT ![r] = [pc |-> "allocate", m |-> m, count |-> count,
                                     need |-> 0, from |-> 0]]
      BY <1>3, <2>4 DEF GetNumber
    <3>2. \A s \in Handler : At(s, "allocate")' /\ req'[s].count > 0
      BY <2>2, <3>1 DEF TypeOK, At
    <3>3. ready # {}
      BY <2>1, <2>2, <2>4
    <3> QED
      BY <1>0, <1>3, <3>2, <3>3 DEF GetNumber, EmptyMeansExhausted, DoneMeansExhausted, At
  <2> QED  BY <2>3, <2>4
<1>4. ASSUME NEW r \in Handler, HandlerStep(r)
      PROVE  EmptyMeansExhausted'
  <2>0. ~At(r, "idle") => req[r].need \in Nat /\ req[r].from \in Nat /\ req[r].count \in Nat
    BY BusyType
  <2>1. CASE EnsureStep(r)
    <3>1. /\ At(r, "ensure") /\ req' = [req EXCEPT ![r].pc = "claim"]
          /\ told' = told /\ (step > MaxX => step' > MaxX)
      BY <1>0, <2>1 DEF EnsureStep, Goto
    <3>2. \A s \in Handler : /\ At(s, "claim")' /\ req'[s].count = req[r].count
                             /\ req'[s].need = req[r].need
      BY <3>1 DEF TypeOK, At
    <3> QED
      BY <1>0, <3>1, <3>2 DEF EmptyMeansExhausted, DoneMeansExhausted, At
  <2>2. CASE ClaimRange(r)
    <3>1. /\ At(r, "claim") /\ told' = told /\ step' = step + req[r].need
          /\ req' = [req EXCEPT ![r].from = step,
                                ![r].pc = IF PastEnd(step, req[r].need) THEN "cap"
                                                                        ELSE "supply"]
      BY <2>2 DEF ClaimRange
    <3>2. step > MaxX => step' > MaxX
      BY <1>0, <2>0, <3>1 DEF At
    <3>3. \A s \in Handler :
            /\ req'[s].count = req[r].count /\ req'[s].need = req[r].need
            /\ req'[s].from = step
            /\ At(s, "cap")' \/ (At(s, "supply")' /\ step <= MaxX)
      BY <1>0, <3>1 DEF TypeOK, At, PastEnd
    <3> QED
      BY <1>0, <3>1, <3>2, <3>3 DEF EmptyMeansExhausted, DoneMeansExhausted, At
  <2>3. CASE SupplyReady(r)
    <3>1. /\ At(r, "supply") /\ req' = [req EXCEPT ![r].pc = "allocate"]
          /\ told' = told /\ step' = step /\ ready' = ready \cup Holding(r)
      BY <2>3 DEF SupplyReady, Goto
    <3>2. req[r].from \in Holding(r)
      <4>1. /\ req[r].need \in Nat /\ req[r].from \in Nat /\ req[r].need > 0
            /\ req[r].from <= MaxX
        BY <2>0, <3>1 DEF EmptyMeansExhausted, At
      <4> QED  BY <1>0, <3>1, <4>1 DEF Holding, Claimed, X
    <3>3. \A s \in Handler : At(s, "allocate")' /\ req'[s].count = req[r].count
      BY <3>1 DEF TypeOK, At
    <3> QED
      BY <1>0, <3>1, <3>2, <3>3 DEF EmptyMeansExhausted, DoneMeansExhausted, At
  <2>4. CASE CapStep(r)
    <3>1. /\ At(r, "cap") /\ req' = [req EXCEPT ![r].pc = "allocate"] /\ step' > MaxX
      BY <1>0, <2>4 DEF CapStep, Goto
    <3>2. \A s \in Handler : At(s, "allocate")' /\ req'[s].count = req[r].count
      BY <3>1 DEF TypeOK, At
    <3> QED
      BY <1>0, <3>1, <3>2 DEF EmptyMeansExhausted, DoneMeansExhausted, At
  <2>5. CASE Allocate(r)
    <3>1. PICK T \in Lowest(ready, req[r].count) : Allocated(r, T)
      BY <2>5 DEF Allocate, Allocated
    <3>2. step' = step /\ At(r, "allocate")
      BY <2>5 DEF Allocate
    <3>3. CASE T = {}
      <4>1. ready = {}
        BY <3>1, <3>2, <3>3, AllocateEmpty DEF EmptyMeansExhausted
      <4>2. step > MaxX
        BY <3>2, <4>1 DEF EmptyMeansExhausted
      <4>3. req' = [req EXCEPT ![r].pc = "poll"] /\ told' = told
        BY <3>1, <3>3 DEF Allocated, Goto
      <4>4. \A s \in Handler : At(s, "poll")'
        BY <4>3 DEF TypeOK, At
      <4> QED
        BY <3>2, <4>2, <4>4 DEF EmptyMeansExhausted, DoneMeansExhausted, At
    <3>4. CASE T # {}
      <4>1. req' = [req EXCEPT ![r] = Idle] /\ told' = [told EXCEPT ![req[r].m] = "work"]
        BY <3>1, <3>4 DEF Allocated, Answer
      <4>2. \A s \in Handler : At(s, "idle")'
        BY <4>1 DEF TypeOK, At, Idle
      <4>3. \A m \in Machine : told'[m] = "done" => told[m] = "done"
        BY <4>1 DEF TypeOK
      <4> QED
        BY <1>0, <3>2, <4>2, <4>3 DEF EmptyMeansExhausted, DoneMeansExhausted, At
    <3> QED  BY <3>3, <3>4
  <2>6. CASE Poll(r)
    <3>1. /\ At(r, "poll") /\ req' = [req EXCEPT ![r] = Idle] /\ step' = step
      BY <2>6 DEF Poll, Answer
    <3>2. step > MaxX
      BY <3>1 DEF EmptyMeansExhausted
    <3>3. \A s \in Handler : At(s, "idle")'
      BY <3>1 DEF TypeOK, At, Idle
    <3> QED
      BY <3>1, <3>2, <3>3 DEF EmptyMeansExhausted, DoneMeansExhausted, At
  <2>7. CASE LegacyTally(r)
    BY <1>2, <2>7 DEF LegacyTally, Answer, Idle
  <2> QED  BY <1>4, <2>1, <2>2, <2>3, <2>4, <2>5, <2>6, <2>7 DEF HandlerStep
<1>5. ASSUME NEW r \in Handler, Fail(r)
      PROVE  EmptyMeansExhausted'
  BY <1>2, <1>5 DEF Fail, Answer, Idle
<1>6. ASSUME NEW r \in Handler, NEW m, NEW S, LegacyMarkDone(r, m, S)
      PROVE  EmptyMeansExhausted'
  BY <1>2, <1>6 DEF LegacyMarkDone
<1>7. CASE TrainerCall
  BY <1>1, <1>3, <1>6, <1>7 DEF TrainerCall, MarkDone
<1> QED
  BY <1>1, <1>4, <1>5, <1>7
     DEF Next, Requeue, Clock, LeaseFallsDue, LeaseKeyExpires, vars

\* When requests do not overlap, a trainer is told "done" only once the space is
\* exhausted, for any space, any counts asked for and any trainers.
THEOREM DoneWhenAlone ==
  ASSUME \A r, s \in Handler : r = s
  PROVE  Spec => []DoneMeansExhausted
<1>1. Init => EmptyMeansExhausted
  BY DEF Init, EmptyMeansExhausted, DoneMeansExhausted, At, Idle
<1>2. TypeOK /\ EmptyMeansExhausted /\ [Next]_vars => EmptyMeansExhausted'
  BY NextExhausted
<1>3. EmptyMeansExhausted => DoneMeansExhausted
  BY DEF EmptyMeansExhausted
<1> QED  BY TypeCorrect, <1>1, <1>2, <1>3, PTL DEF Spec

=============================================================================
