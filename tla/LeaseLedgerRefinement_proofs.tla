---------------------- MODULE LeaseLedgerRefinement_proofs ----------------------
(***************************************************************************)
(* The pool implements LeaseLedger, alone and under any use of the         *)
(* Settings page.  What the mapping needs is the order of the leases       *)
(* (Leases): a stored lease is the newest grant of its X, ids are not      *)
(* reused.                                                                 *)
(***************************************************************************)
EXTENDS LeaseLedgerRefinement, PoolAdmin_proofs

Counted == completed - legacyCount

\* A grant is known by its X, its machine and its id.
LEMMA SameGrant ==
  ASSUME TypeOK, NEW g \in grants, NEW h \in grants,
         g.x = h.x, g.m = h.m, g.lid = h.lid
  PROVE  g = h
BY DEF TypeOK

\* An X has one live lease at most.
LEMMA LiveAlone ==
  ASSUME TypeOK, NEW g \in Live, NEW h \in Live, g.x = h.x
  PROVE  g = h
<1>1. /\ g \in grants /\ h \in grants
      /\ lease[g.x] = [m |-> g.m, lid |-> g.lid]
      /\ lease[h.x] = [m |-> h.m, lid |-> h.lid]
  BY DEF Live, Accepted
<1>2. g.m = h.m /\ g.lid = h.lid
  BY <1>1
<1> QED  BY <1>1, <1>2, SameGrant

\* Dropping the stored leases of the X in S ends those X's live leases.
LEMMA DropEnds ==
  ASSUME TypeOK, NEW S, lease' = DropLeases(S), UNCHANGED grants
  PROVE  Live' = {g \in Live : g.x \notin S}
<1> SUFFICES ASSUME NEW g \in grants
             PROVE  Accepted(g)' <=> Accepted(g) /\ g.x \notin S
  BY DEF Live
<1>1. g.x \in X /\ [m |-> g.m, lid |-> g.lid] \in Lease
  BY DEF TypeOK, Lease
<1>2. [m |-> g.m, lid |-> g.lid] # None
  BY <1>1, ConstantsAssumption
<1>3. CASE g.x \in S
  BY <1>1, <1>2, <1>3 DEF Accepted, DropLeases
<1>4. CASE g.x \notin S
  BY <1>1, <1>4 DEF Accepted, DropLeases
<1> QED  BY <1>3, <1>4

LEMMA DropMaps ==
  ASSUME TypeOK, NEW S, lease' = DropLeases(S),
         UNCHANGED <<grants, credited, Counted>>
  PROVE  Ledger!End
BY DropEnds DEF Ledger!End, Counted

\* A step that leaves the stored leases and the counts alone is a stutter.
LEMMA LedgerStutters ==
  ASSUME UNCHANGED <<grants, lease, credited, Counted>>
  PROVE  UNCHANGED Ledger!llVars
<1>1. Live' = Live
  BY DEF Live, Accepted
<1> QED  BY <1>1 DEF Ledger!llVars, Counted

LEMMA LedgerInit == Init => Ledger!LLInit
<1> SUFFICES ASSUME Init
             PROVE  Ledger!LLInit
  OBVIOUS
<1>1. grants = {} /\ Live = {} /\ credited = {} /\ completed - legacyCount = 0
  BY DEF Init, Live
<1> QED  BY <1>1 DEF Ledger!LLInit

LEMMA AllocateIssues ==
  ASSUME TypeOK, Leases, NEW r \in Handler, Allocate(r)
  PROVE  Ledger!Issue
<1>1. PICK T \in SUBSET ready :
        /\ Allocated(r, T) /\ T \subseteq X /\ req[r].m \in Machine
        /\ \A x \in T : Rank(T, x) \in Nat /\ 1 <= Rank(T, x)
  BY AllocateBatch
<1> DEFINE m == req[r].m
           grant(x) == [m |-> m, x |-> x, lid |-> leaseSeq + Rank(T, x)]
           new == {grant(x) : x \in T}
<1>2. /\ grants' = grants \cup new
      /\ \A x \in X : lease'[x] = IF x \in T
                                  THEN [m |-> m, lid |-> leaseSeq + Rank(T, x)]
                                  ELSE lease[x]
      /\ UNCHANGED <<credited, completed, legacyCount>>
  BY <1>1 DEF Allocate, Allocated, historyVars
<1>3. \A g \in grants : g.x \in X /\ g.lid \in Nat /\ g.lid <= leaseSeq
  BY DEF TypeOK, Leases, GrantIds
<1>4. \A s \in new : /\ s.m = m /\ s.x \in T /\ s = grant(s.x)
                     /\ s.lid = leaseSeq + Rank(T, s.x) /\ s.lid \in Nat
                     /\ leaseSeq < s.lid
  BY <1>1 DEF TypeOK
<1>5. new \cap grants = {}
  <2> SUFFICES ASSUME NEW s \in new, s \in grants
               PROVE  FALSE
    OBVIOUS
  <2> QED  BY <1>3, <1>4 DEF TypeOK
<1>6. grants' \ grants = new
  BY <1>2, <1>5
<1>7. \A s \in new, t \in grants : s.x = t.x => t.lid < s.lid
  BY <1>3, <1>4 DEF TypeOK
<1>8. Live' = {t \in Live : \A s \in new : s.x # t.x} \cup new
  <2>1. ASSUME NEW s \in new
        PROVE  Accepted(s)'
    BY <1>1, <1>2, <1>4 DEF Accepted
  <2>2. ASSUME NEW t \in grants, t.x \in T
        PROVE  ~Accepted(t)'
    <3>1. t.lid # leaseSeq + Rank(T, t.x)
      BY <1>1, <1>3, <2>2 DEF TypeOK
    <3>2. lease'[t.x] = [m |-> m, lid |-> leaseSeq + Rank(T, t.x)]
      BY <1>2, <1>3, <2>2
    <3> QED  BY <3>1, <3>2 DEF Accepted
  <2>3. ASSUME NEW t \in grants, t.x \notin T
        PROVE  Accepted(t)' <=> Accepted(t)
    BY <1>2, <1>3, <2>3 DEF Accepted
  <2>4. \A t \in grants : (\A s \in new : s.x # t.x) <=> t.x \notin T
    <3>1. \A x \in T : grant(x) \in new /\ grant(x).x = x
      OBVIOUS
    <3> HIDE DEF new, grant
    <3> QED  BY <1>4, <3>1
  <2> HIDE DEF new
  <2>5. Live' = {g \in grants \cup new : Accepted(g)'}
    BY <1>2 DEF Live
  <2>6. Live = {g \in grants : Accepted(g)}
    BY DEF Live
  <2> QED  BY <2>1, <2>2, <2>3, <2>4, <2>5, <2>6
<1>9. \A s, t \in new : s.m = t.m /\ (s.x = t.x => s = t)
  BY <1>4
<1> HIDE DEF new
<1> QED
  BY <1>2, <1>6, <1>7, <1>8, <1>9 DEF Ledger!Issue, Ledger!OneWorker

LEMMA MarkDoneHonours ==
  ASSUME TypeOK, NEW m \in Machine, NEW S, MarkDone(m, S)
  PROVE  Ledger!Honour
<1> DEFINE A == AcceptedGrants(S)
<1>1. /\ A \subseteq Live /\ \A g \in A : g.m = m
      /\ lease' = DropLeases(XsOf(A)) /\ credited' = credited \cup A
      /\ completed' = completed + Cardinality(A)
      /\ UNCHANGED <<grants, legacyCount>>
  BY DEF MarkDone, AcceptedGrants, Live, Credit
<1>2. Live' = {g \in Live : g.x \notin XsOf(A)}
  BY <1>1, DropEnds
<1>3. Live \ Live' = A
  <2>1. ASSUME NEW g \in Live, g.x \in XsOf(A)
        PROVE  g \in A
    <3>1. PICK h \in A : g.x = h.x
      BY <2>1 DEF XsOf
    <3> QED  BY <1>1, <3>1, LiveAlone
  <2>2. \A g \in A : g.x \in XsOf(A)
    BY DEF XsOf
  <2> QED  BY <1>1, <1>2, <2>1, <2>2
<1>4. Cardinality(A) \in Nat
  BY <1>1, FS_Subset, FS_CardinalityType DEF TypeOK, Live
<1>5. completed' - legacyCount' = (completed - legacyCount) + Cardinality(A)
  BY <1>1, <1>4 DEF TypeOK
<1>6. Ledger!Cardinality(A) = Cardinality(A)
  BY DEF Ledger!Cardinality, Cardinality
<1> HIDE DEF A
<1> QED  BY <1>1, <1>2, <1>3, <1>5, <1>6 DEF Ledger!Honour, Ledger!OneWorker

LEMMA LedgerTally ==
  ASSUME TypeOK, NEW r \in Handler, LegacyTally(r)
  PROVE  UNCHANGED Ledger!llVars
<1>1. req[r].need \in Nat
  BY BusyType DEF LegacyTally, At
<1>2. Counted' = Counted
  BY <1>1 DEF LegacyTally, TypeOK, Counted
<1> QED  BY <1>2, LedgerStutters DEF LegacyTally

LEMMA LedgerNext ==
  ASSUME TypeOK, Leases, [Next]_vars
  PROVE  [Ledger!LLNext]_(Ledger!llVars)
<1> USE DEF poolVars, historyVars
<1>1. CASE UNCHANGED <<grants, lease, credited, completed, legacyCount>>
  BY <1>1, LedgerStutters DEF Counted
<1>2. ASSUME NEW S, lease' = DropLeases(S),
             UNCHANGED <<grants, credited, completed, legacyCount>>
      PROVE  Ledger!LLNext
  BY <1>2, DropMaps DEF Counted, Ledger!LLNext
<1>3. CASE TrainerCall
  BY <1>1, <1>2, <1>3, MarkDoneHonours
     DEF TrainerCall, GetNumber, LegacyMarkDone, Ledger!LLNext
<1>4. ASSUME NEW r \in Handler, HandlerStep(r) \/ Fail(r)
      PROVE  [Ledger!LLNext]_(Ledger!llVars)
  BY <1>1, <1>4, AllocateIssues, LedgerTally
     DEF HandlerStep, EnsureStep, ClaimRange, SupplyReady, CapStep, Poll, Fail,
         Ledger!LLNext
<1>5. CASE Requeue
  BY <1>2, <1>5 DEF Requeue
<1>6. CASE Clock
  BY <1>1, <1>2, <1>6 DEF Clock, LeaseFallsDue, LeaseKeyExpires
<1> QED  BY <1>1, <1>3, <1>4, <1>5, <1>6 DEF Next, vars

-----------------------------------------------------------------------------
\* The pool keeps the ledger of leases.
THEOREM PoolKeepsLedger == Spec => ImplementsLedger
<1>1. Inv /\ [Next]_vars => [Ledger!LLNext]_(Ledger!llVars)
  BY LedgerNext DEF Inv
<1> QED  BY <1>1, LedgerInit, Safety, PTL DEF Spec, ImplementsLedger, Ledger!LLSpec

\* It keeps it under the Settings page, whatever its pages show and save: a rewound
\* step makes X be leased again, and never an ended lease valid.
THEOREM AdminKeepsLedger == AdminSpec => ImplementsLedger
<1>1. ASSUME AdminInv, [AdminNext]_allVars
      PROVE  [Ledger!LLNext]_(Ledger!llVars)
  <2>1. CASE [Next]_vars
    BY <1>1, <2>1, LedgerNext DEF AdminInv, AdminTypeOK
  <2>2. ASSUME NEW a \in Admin, AdminStep(a)
        PROVE  UNCHANGED Ledger!llVars
    <3>1. UNCHANGED <<grants, lease, credited, Counted>>
      BY <2>2, AdminStepKeeps DEF Counted
    <3> QED  BY <3>1, LedgerStutters
  <2> QED  BY <1>1, <2>1, <2>2 DEF AdminNext, allVars
<1>2. AdminInit => Ledger!LLInit
  BY LedgerInit DEF AdminInit
<1> QED  BY <1>1, <1>2, AdminSafety, PTL
         DEF AdminSpec, ImplementsLedger, Ledger!LLSpec

=============================================================================
