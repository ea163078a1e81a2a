---------------------- MODULE LeasePoolRefinement_proofs ----------------------
(***************************************************************************)
(* LeasePool implements WorkQueue, for every set of trainers, size of the  *)
(* space and number of requests.                                           *)
(***************************************************************************)
EXTENDS LeasePoolRefinement, LeasePool_proofs

\* The status and the holder of each X, by its place.
Stages ==
  \A x \in X :
    /\ x \in acked    => StatusOf(x) = "finished" /\ HolderOf(x) = None
    /\ x \in legacyDone => StatusOf(x) = "withdrawn" /\ HolderOf(x) = None
    /\ x \in inflight => StatusOf(x) = "out"
    /\ x \in ready    => StatusOf(x) = "queued" /\ HolderOf(x) = None
    /\ x \notin acked \cup legacyDone \cup inflight \cup ready =>
         StatusOf(x) = "new" /\ HolderOf(x) = None

LEMMA InvStages == Inv => Stages
<1> SUFFICES ASSUME Inv, NEW x \in X
             PROVE  /\ x \in acked    => StatusOf(x) = "finished" /\ HolderOf(x) = None
                    /\ x \in legacyDone => StatusOf(x) = "withdrawn" /\ HolderOf(x) = None
                    /\ x \in inflight => StatusOf(x) = "out"
                    /\ x \in ready    => StatusOf(x) = "queued" /\ HolderOf(x) = None
                    /\ x \notin acked \cup legacyDone \cup inflight \cup ready =>
                         StatusOf(x) = "new" /\ HolderOf(x) = None
  BY DEF Stages
<1>1. /\ x \in acked => x \notin legacyDone \cup inflight \cup ready
      /\ x \in legacyDone => x \notin inflight \cup ready
      /\ x \in inflight => x \notin ready
  BY DEF Inv, Places, NoXTwice, Gone
<1>2. x \notin inflight => lease[x] = None
  BY DEF Inv, Leases, StoredLeaseIsNewest
<1> QED  BY <1>1, <1>2 DEF StatusOf, HolderOf

\* What the queue counts as finished.
Finished == completed - legacyCount

\* A step of LeasePool that changes no place and no lease, and counts nothing but
\* what a mark_done without leases adds, is a stutter.
LEMMA StutterMaps ==
  ASSUME UNCHANGED <<ready, inflight, credited, legacyDone, lease, Finished>>
  PROVE  UNCHANGED WQ!wqVars
<1>1. \A x \in X : StatusOf(x)' = StatusOf(x) /\ HolderOf(x)' = HolderOf(x)
  BY DEF StatusOf, HolderOf, acked
<1> QED  BY <1>1 DEF WQ!wqVars, Finished

LEMMA InitMaps == Init => WQ!WQInit
<1> SUFFICES ASSUME Init
             PROVE  WQ!WQInit
  OBVIOUS
<1>1. \A x \in X : StatusOf(x) = "new" /\ HolderOf(x) = None
  BY DEF Init, StatusOf, HolderOf, acked, XsOf
<1>2. completed - legacyCount = 0
  BY DEF Init
<1> QED  BY <1>1, <1>2 DEF WQ!WQInit

\* A set of X moves to one status and one holder, and the rest stays put.
LEMMA MoveMaps ==
  ASSUME NEW S \in SUBSET X, NEW st, NEW w,
         \A x \in S : StatusOf(x)' = st /\ HolderOf(x)' = w,
         \A x \in X \ S : StatusOf(x)' = StatusOf(x) /\ HolderOf(x)' = HolderOf(x)
  PROVE  WQ!Move(S, st, w)
BY DEF WQ!Move

-----------------------------------------------------------------------------
(* Each step is a step of the queue *)

\* An X outside S that keeps its places and its lease keeps its status.
LEMMA RestStays ==
  ASSUME NEW S,
         \A x \in X \ S : /\ x \in acked' <=> x \in acked
                          /\ x \in legacyDone' <=> x \in legacyDone
                          /\ x \in inflight' <=> x \in inflight
                          /\ x \in ready' <=> x \in ready
                          /\ lease'[x] = lease[x]
  PROVE  \A x \in X \ S : StatusOf(x)' = StatusOf(x) /\ HolderOf(x)' = HolderOf(x)
<1> SUFFICES ASSUME NEW x \in X \ S
             PROVE  StatusOf(x)' = StatusOf(x) /\ HolderOf(x)' = HolderOf(x)
  OBVIOUS
<1>1. StatusOf(x)' = StatusOf(x)
  BY DEF StatusOf
<1>2. HolderOf(x)' = HolderOf(x)
  BY DEF HolderOf
<1> QED  BY <1>1, <1>2

LEMMA SupplyReadyMaps ==
  ASSUME TypeOK, Leases, Places, Stages, Stages',
         NEW r \in Handler, SupplyReady(r)
  PROVE  WQ!WQNext
<1> DEFINE S == Holding(r)
<1>1. S \in SUBSET X
  BY ClaimedInX DEF Holding
<1>2. \A x \in S : x \notin acked \cup legacyDone \cup inflight \cup ready
  BY DEF Places, NoXTwice, Gone
<1>3. /\ ready' = ready \cup S
      /\ UNCHANGED <<inflight, acked, legacyDone, lease, Finished>>
  BY DEF SupplyReady, historyVars, acked, Finished
<1>4. \A x \in S : StatusOf(x) = "new"
  BY <1>1, <1>2 DEF Stages
<1>5. \A x \in S : StatusOf(x)' = "queued" /\ HolderOf(x)' = None
  BY <1>1, <1>3 DEF Stages
<1>6. \A x \in X \ S : StatusOf(x)' = StatusOf(x) /\ HolderOf(x)' = HolderOf(x)
  BY <1>3, RestStays
<1> HIDE DEF S
<1>7. WQ!Publish(S)
  BY <1>1, <1>3, <1>4, <1>5, <1>6, MoveMaps DEF WQ!Publish, WQ!Are, Finished
<1> QED  BY <1>1, <1>7 DEF WQ!WQNext

LEMMA AllocateMaps ==
  ASSUME TypeOK, Leases, Places, Stages, Stages',
         NEW r \in Handler, Allocate(r)
  PROVE  WQ!WQNext
<1>1. PICK T \in SUBSET ready :
        /\ Allocated(r, T) /\ T \subseteq X /\ req[r].m \in Machine
        /\ \A x \in T : Rank(T, x) \in Nat
  BY AllocateBatch
<1> DEFINE m == req[r].m
<1>2. /\ ready' = ready \ T /\ inflight' = inflight \cup T
      /\ \A x \in X \ T : lease'[x] = lease[x]
      /\ UNCHANGED <<acked, legacyDone, Finished>>
  BY <1>1 DEF Allocate, Allocated, historyVars, acked, Finished
<1>3. \A x \in T : StatusOf(x) = "queued"
  BY <1>1 DEF Stages
<1>4. \A x \in T : StatusOf(x)' = "out"
  BY <1>1, <1>2 DEF Stages
<1>5. \A x \in T : HolderOf(x)' = m
  <2> SUFFICES ASSUME NEW x \in T
               PROVE  HolderOf(x)' = m
    OBVIOUS
  <2>1. lease'[x] = [m |-> m, lid |-> leaseSeq + Rank(T, x)]
    BY <1>1 DEF Allocated
  <2>2. lease'[x] # None
    BY <1>1, <2>1, ConstantsAssumption DEF TypeOK, Lease
  <2> QED  BY <2>1, <2>2 DEF HolderOf
<1>6. \A x \in X \ T : StatusOf(x)' = StatusOf(x) /\ HolderOf(x)' = HolderOf(x)
  BY <1>2, RestStays
<1>7. WQ!HandOut(T, m)
  BY <1>1, <1>2, <1>3, <1>4, <1>5, <1>6, MoveMaps
     DEF WQ!HandOut, WQ!Are, Finished
<1> QED  BY <1>1, <1>7 DEF WQ!WQNext

LEMMA MarkDoneMaps ==
  ASSUME TypeOK, Leases, Places, Stages, Stages',
         NEW m \in Machine, NEW S, MarkDone(m, S)
  PROVE  WQ!WQNext
<1> DEFINE A == AcceptedGrants(S)
           done == XsOf(A)
<1>1. A \subseteq grants /\ A \subseteq S /\ done \subseteq inflight
  BY AcceptedInflight DEF MarkDone, AcceptedGrants
<1>2. /\ inflight' = inflight \ done /\ lease' = DropLeases(done)
      /\ acked' = acked \cup done
      /\ completed' = completed + Cardinality(A)
      /\ UNCHANGED <<ready, legacyDone, legacyCount>>
  BY DEF MarkDone, Credit, acked, XsOf
<1>3. done \in SUBSET X
  BY <1>1 DEF TypeOK
<1>4. Cardinality(done) = Cardinality(A) /\ Cardinality(A) \in Nat
  <2>1. IsFiniteSet(A)
    BY <1>1, FS_Subset DEF TypeOK
  <2>2. \A g, h \in A : g.x = h.x => g = h
    BY <1>1 DEF MarkDone
  <2> QED  BY <2>1, <2>2, CardXs, FS_CardinalityType
<1>5. \A x \in done : StatusOf(x) = "out"
  BY <1>1, <1>3 DEF Stages
<1>6. \A x \in done : HolderOf(x) = m
  <2> SUFFICES ASSUME NEW g \in A
               PROVE  HolderOf(g.x) = m
    BY DEF XsOf
  <2>1. g.m = m /\ lease[g.x] = [m |-> g.m, lid |-> g.lid] /\ g.lid \in Nat
    BY <1>1 DEF MarkDone, AcceptedGrants, Accepted, TypeOK
  <2> QED  BY <2>1, ConstantsAssumption DEF HolderOf, Lease
<1>7. \A x \in done : StatusOf(x)' = "finished" /\ HolderOf(x)' = None
  BY <1>2, <1>3 DEF Stages
<1>8. \A x \in X \ done : StatusOf(x)' = StatusOf(x) /\ HolderOf(x)' = HolderOf(x)
  <2>1. \A x \in X \ done : lease'[x] = lease[x]
    BY <1>2 DEF DropLeases
  <2> QED  BY <1>2, <2>1, RestStays
<1> HIDE DEF done
<1>9. WQ!Finish(done, m)
  <2>1. completed' - legacyCount' = (completed - legacyCount) + Cardinality(done)
    BY <1>2, <1>4 DEF TypeOK
  <2>2. WQ!Move(done, "finished", None)
    BY <1>3, <1>7, <1>8, MoveMaps
  <2>3. /\ \A x \in done : [y \in X |-> StatusOf(y)][x] = "out"
        /\ \A x \in done : [y \in X |-> HolderOf(y)][x] = m
    BY <1>3, <1>5, <1>6
  <2>4. WQ!Cardinality(done) = Cardinality(done)
    BY DEF WQ!Cardinality, Cardinality
  <2> QED  BY <2>1, <2>2, <2>3, <2>4, Zenon DEF WQ!Finish, WQ!Are
<1> QED  BY <1>3, <1>9 DEF WQ!WQNext

LEMMA RequeueMaps ==
  ASSUME TypeOK, Leases, Places, Stages, Stages', Requeue
  PROVE  WQ!WQNext
<1>1. PICK T \in SUBSET inflight :
        inflight' = inflight \ T /\ ready' = ready \cup T /\ lease' = DropLeases(T)
  BY DEF Requeue
<1>2. T \in SUBSET X
  BY DEF TypeOK
<1>3. UNCHANGED <<acked, legacyDone, Finished>>
  BY DEF Requeue, historyVars, acked, Finished
<1>4. \A x \in T : StatusOf(x) = "out"
  BY <1>2 DEF Stages
<1>5. \A x \in T : StatusOf(x)' = "queued" /\ HolderOf(x)' = None
  BY <1>1, <1>2 DEF Stages
<1>6. \A x \in X \ T : StatusOf(x)' = StatusOf(x) /\ HolderOf(x)' = HolderOf(x)
  <2>1. \A x \in X \ T : lease'[x] = lease[x]
    BY <1>1 DEF DropLeases
  <2> QED  BY <1>1, <1>3, <2>1, RestStays
<1>7. WQ!Return(T)
  BY <1>2, <1>3, <1>4, <1>5, <1>6, MoveMaps DEF WQ!Return, WQ!Are, Finished
<1> QED  BY <1>2, <1>7 DEF WQ!WQNext

LEMMA LeaseKeyExpiresMaps ==
  ASSUME TypeOK, Leases, Places, Stages, Stages',
         NEW x \in X, LeaseKeyExpires(x)
  PROVE  WQ!WQNext
<1>1. /\ lease' = DropLeases({x})
      /\ UNCHANGED <<ready, inflight, acked, legacyDone, Finished>>
  BY DEF LeaseKeyExpires, historyVars, acked, Finished
<1>2. x \in inflight
  BY DEF LeaseKeyExpires, KeyMayExpire, TypeOK
<1>3. StatusOf(x) = "out" /\ StatusOf(x)' = "out"
  BY <1>1, <1>2 DEF Stages
<1>4. HolderOf(x)' = None
  BY <1>1 DEF HolderOf, DropLeases
<1>5. \A y \in X \ {x} : StatusOf(y)' = StatusOf(y) /\ HolderOf(y)' = HolderOf(y)
  <2>1. \A y \in X \ {x} : lease'[y] = lease[y]
    BY <1>1 DEF DropLeases
  <2> QED  BY <1>1, <2>1, RestStays
<1>6. WQ!Forget({x})
  BY <1>1, <1>3, <1>4, <1>5, MoveMaps DEF WQ!Forget, WQ!Are, Finished
<1> QED  BY <1>6 DEF WQ!WQNext

\* A mark_done without leases withdraws those of its X that are in flight; the
\* others have no lease to lose.
LEMMA LegacyMarkDoneMaps ==
  ASSUME TypeOK, Leases, Places, Stages, Stages',
         NEW r \in Handler, NEW m \in Machine, NEW S \in SUBSET X,
         LegacyMarkDone(r, m, S)
  PROVE  WQ!WQNext
<1> DEFINE T == S \cap inflight
<1>1. /\ inflight' = inflight \ S /\ lease' = DropLeases(S)
      /\ legacyDone' = legacyDone \cup T
      /\ UNCHANGED <<ready, acked, Finished>>
  BY DEF LegacyMarkDone, acked, Finished
<1>2. T \in SUBSET X
  OBVIOUS
<1>3. \A x \in T : StatusOf(x) = "out"
  BY <1>2 DEF Stages
<1>4. \A x \in T : StatusOf(x)' = "withdrawn" /\ HolderOf(x)' = None
  BY <1>1, <1>2 DEF Stages
<1>5. \A x \in X \ T : StatusOf(x)' = StatusOf(x) /\ HolderOf(x)' = HolderOf(x)
  <2>1. \A x \in X \ T : lease'[x] = lease[x]
    <3> SUFFICES ASSUME NEW x \in X \ T
                 PROVE  lease'[x] = lease[x]
      OBVIOUS
    <3>1. CASE x \in S
      <4>1. x \notin inflight
        BY <3>1
      <4> QED  BY <1>1, <3>1, <4>1 DEF DropLeases, Leases, StoredLeaseIsNewest
    <3>2. CASE x \notin S
      BY <1>1, <3>2 DEF DropLeases
    <3> QED  BY <3>1, <3>2
  <2> QED  BY <1>1, <2>1, RestStays
<1> HIDE DEF T
<1>6. WQ!Withdraw(T)
  BY <1>1, <1>2, <1>3, <1>4, <1>5, MoveMaps DEF WQ!Withdraw, WQ!Are, Finished
<1> QED  BY <1>2, <1>6 DEF WQ!WQNext

\* Its count reaches completed:count in a step of its own, which the queue does
\* not see.
LEMMA LegacyTallyMaps ==
  ASSUME TypeOK, NEW r \in Handler, LegacyTally(r)
  PROVE  UNCHANGED WQ!wqVars
<1>1. req[r] \in HandlerState /\ req[r] # Idle
  BY DEF TypeOK, LegacyTally, At, Idle
<1>2. req[r].need \in Nat
  BY <1>1 DEF HandlerState
<1>3. Finished' = Finished
  BY <1>2 DEF LegacyTally, TypeOK, Finished
<1> QED  BY <1>3, StutterMaps DEF LegacyTally

LEMMA NextMaps ==
  ASSUME TypeOK, Leases, Places, Stages, Stages', [Next]_vars
  PROVE  [WQ!WQNext]_(WQ!wqVars)
<1> USE DEF poolVars, historyVars
<1>1. CASE UNCHANGED <<ready, inflight, credited, legacyDone, lease, completed,
                       legacyCount>>
  BY <1>1, StutterMaps DEF Finished
<1>2. CASE TrainerCall
  BY <1>1, <1>2, MarkDoneMaps, LegacyMarkDoneMaps DEF TrainerCall, GetNumber
<1>3. ASSUME NEW r \in Handler, HandlerStep(r) \/ Fail(r)
      PROVE  [WQ!WQNext]_(WQ!wqVars)
  BY <1>1, <1>3, SupplyReadyMaps, AllocateMaps, LegacyTallyMaps
     DEF HandlerStep, EnsureStep, ClaimRange, CapStep, Poll, Fail
<1>4. CASE Clock
  BY <1>1, <1>4, LeaseKeyExpiresMaps DEF Clock, LeaseFallsDue
<1> QED  BY <1>1, <1>2, <1>3, <1>4, RequeueMaps DEF Next, vars

\* The pool's keys behave as WorkQueue, though any trainer may name any X without a
\* lease: an X is published once, is out with one trainer at a time, is counted
\* under a lease once and only for the trainer whose lease is current, and otherwise
\* comes back or is withdrawn, while it is out, by a call without leases.
THEOREM Implements == Spec => ImplementsWorkQueue
<1>1. Inv /\ Stages /\ Stages' /\ [Next]_vars => [WQ!WQNext]_(WQ!wqVars)
  BY NextMaps DEF Inv
<1> QED  BY <1>1, InitMaps, InvStages, Safety, PTL
         DEF Spec, ImplementsWorkQueue, WQ!WQSpec

=============================================================================
