--------------------------- MODULE PoolAdmin_proofs ---------------------------
(***************************************************************************)
(* What stays true of the leases when administrators set the step back,    *)
(* for every number of pages, requests and trainers and whatever is typed: *)
(* leases are validated the same way, completed:count does not fall behind *)
(* what was retired, and the step is kept up to the lower bound.           *)
(***************************************************************************)
EXTENDS PoolAdmin, LeasePool_proofs

\* The steps of the Settings page leave the lease store alone.
LEMMA AdminStepKeeps ==
  ASSUME NEW a \in Admin, AdminStep(a)
  PROVE  UNCHANGED <<lease, inflight, overdue, grants, leaseSeq, completed,
                     credited, legacyDone, legacyCount, uncounted, req>>
BY DEF AdminStep, LoadStep, LoadStart, SaveStep, SaveStart, SaveRejected, SaveEnsure,
       SaveFails, vars, poolVars, historyVars

LEMMA AdminInitType == AdminInit => AdminTypeOK
BY InitType, ConstantsAssumption DEF AdminInit, AdminTypeOK, Page, X, Init

LEMMA AdminStepType ==
  ASSUME AdminTypeOK, NEW a \in Admin, AdminStep(a)
  PROVE  AdminTypeOK'
<1> USE DEF AdminTypeOK, Page, PageAt, PageGoto, vars, poolVars, historyVars
<1>1. CASE LoadStep(a)
  <2>1. TypeOK'
    BY <1>1 DEF LoadStep, TypeOK
  <2>2. step \in Nat
    BY DEF TypeOK
  <2>3. page' \in [Admin -> Page] /\ loads' \in Nat /\ saves' \in Nat
    <3>1. [page[a] EXCEPT !.pc = "loading", !.step = step] \in Page
      BY <2>2
    <3> QED  BY <1>1, <3>1 DEF LoadStep
  <2>4. cut' \in BOOLEAN
    BY <1>1 DEF LoadStep
  <2> QED  BY <2>1, <2>3, <2>4
<1>2. CASE LoadStart(a)
  BY <1>2 DEF LoadStart, TypeOK
<1>3. ASSUME NEW s \in {page[a].step} \cup StepEdits,
             NEW t \in {page[a].start} \cup StartEdits, SaveStep(a, s, t)
      PROVE  AdminTypeOK'
  <2>1. s \in Nat /\ t \in X \cup StartEdits
    BY AdminAssumption
  <2> QED  BY <1>3, <2>1 DEF SaveStep, TypeOK
<1>4. CASE SaveStart(a)
  BY <1>4 DEF SaveStart, TypeOK
<1>5. CASE SaveEnsure(a)
  <2>1. start \in Nat /\ step \in Nat
    BY ConstantsAssumption DEF TypeOK, X
  <2>2. PulledUp(step, start) \in Nat
    BY <2>1 DEF PulledUp
  <2> QED  BY <1>5, <2>2 DEF SaveEnsure, TypeOK
<1>6. CASE SaveFails(a)
  BY <1>6 DEF SaveFails, TypeOK
<1>7. CASE SaveRejected(a)
  BY <1>7 DEF SaveRejected, TypeOK
<1> QED  BY <1>1, <1>2, <1>3, <1>4, <1>5, <1>6, <1>7 DEF AdminStep

LEMMA AdminNextType ==
  ASSUME AdminTypeOK, [AdminNext]_allVars
  PROVE  AdminTypeOK'
<1>1. CASE /\ [Next]_vars
           /\ cut' = (IF Ensured THEN FALSE ELSE cut) \/ UNCHANGED cut
           /\ UNCHANGED <<page, loads, saves>>
  <2>1. TypeOK'
    BY <1>1, NextType DEF AdminTypeOK
  <2>2. cut' \in BOOLEAN
    BY <1>1 DEF AdminTypeOK
  <2> QED  BY <1>1, <2>1, <2>2 DEF AdminTypeOK
<1> QED  BY <1>1, AdminStepType DEF AdminNext, allVars, adminVars

-----------------------------------------------------------------------------
(* A lease is accepted once *)

LEMMA NextNotAgain ==
  ASSUME TypeOK, Leases, NotAgain, [Next]_vars
  PROVE  NotAgain'
<1> USE DEF poolVars, historyVars
<1>1. CASE UNCHANGED <<lease, credited>>
  BY <1>1 DEF NotAgain, Accepted
<1>2. ASSUME NEW S, lease' = DropLeases(S), UNCHANGED credited
      PROVE  NotAgain'
  <2> SUFFICES ASSUME NEW g \in credited
               PROVE  lease'[g.x] # [m |-> g.m, lid |-> g.lid]
    BY <1>2 DEF NotAgain, Accepted
  <2>1. g.m \in Machine /\ g.x \in X /\ g.lid \in Nat
    BY DEF TypeOK
  <2> QED
    BY <1>2, <2>1, ConstantsAssumption DEF DropLeases, Lease, NotAgain, Accepted
<1>3. ASSUME NEW m \in Machine, NEW S, MarkDone(m, S)
      PROVE  NotAgain'
  <2> DEFINE A == AcceptedGrants(S)
  <2> SUFFICES ASSUME NEW g \in credited \cup A
               PROVE  lease'[g.x] # [m |-> g.m, lid |-> g.lid]
    BY <1>3 DEF MarkDone, NotAgain, Accepted
  <2>1. g.m \in Machine /\ g.x \in X /\ g.lid \in Nat
    BY <1>3 DEF TypeOK, MarkDone, AcceptedGrants
  <2>2. lease' = DropLeases(XsOf(A))
    BY <1>3 DEF MarkDone
  <2>3. g \in A => lease'[g.x] = None
    BY <2>1, <2>2 DEF DropLeases, XsOf
  <2>4. g \notin A => lease[g.x] # [m |-> g.m, lid |-> g.lid]
    BY DEF NotAgain, Accepted
  <2>5. None # [m |-> g.m, lid |-> g.lid]
    BY <2>1, ConstantsAssumption DEF Lease
  <2> QED  BY <2>1, <2>2, <2>3, <2>4, <2>5 DEF DropLeases
<1>4. ASSUME NEW r \in Handler, Allocate(r)
      PROVE  NotAgain'
  <2>1. PICK T \in SUBSET ready :
          /\ Allocated(r, T) /\ T \subseteq X
          /\ \A x \in T : Rank(T, x) \in Nat /\ 1 <= Rank(T, x)
    BY <1>4, AllocateBatch
  <2> SUFFICES ASSUME NEW g \in credited
               PROVE  lease'[g.x] # [m |-> g.m, lid |-> g.lid]
    BY <1>4 DEF Allocate, NotAgain, Accepted
  <2>2. g.x \in X /\ g.lid \in Nat /\ g.lid <= leaseSeq
    BY DEF TypeOK, Leases, GrantIds
  <2>3. CASE g.x \in T
    <3>1. lease'[g.x] = [m |-> req[r].m, lid |-> leaseSeq + Rank(T, g.x)]
      BY <2>1, <2>3 DEF Allocated
    <3>2. leaseSeq + Rank(T, g.x) # g.lid
      BY <2>1, <2>2, <2>3 DEF TypeOK
    <3> QED  BY <3>1, <3>2
  <2>4. CASE g.x \notin T
    BY <2>1, <2>2, <2>4 DEF Allocated, NotAgain, Accepted
  <2> QED  BY <2>3, <2>4
<1>5. CASE TrainerCall
  BY <1>1, <1>2, <1>3, <1>5 DEF TrainerCall, GetNumber, LegacyMarkDone
<1>6. ASSUME NEW r \in Handler, HandlerStep(r) \/ Fail(r)
      PROVE  NotAgain'
  BY <1>1, <1>4, <1>6
     DEF HandlerStep, EnsureStep, ClaimRange, SupplyReady, CapStep, Poll,
         LegacyTally, Fail
<1>7. CASE Requeue
  BY <1>2, <1>7 DEF Requeue
<1>8. CASE Clock
  BY <1>1, <1>2, <1>8 DEF Clock, LeaseFallsDue, LeaseKeyExpires
<1> QED  BY <1>1, <1>5, <1>6, <1>7, <1>8 DEF Next, vars

-----------------------------------------------------------------------------
LEMMA AdminInductive ==
  ASSUME AdminInv, [AdminNext]_allVars
  PROVE  AdminInv'
<1>1. AdminTypeOK'
  BY AdminNextType DEF AdminInv
<1>2. CASE [Next]_vars
  BY <1>1, <1>2, NextLeases, NextNotAgain DEF AdminInv, AdminTypeOK
<1>3. ASSUME NEW a \in Admin, AdminStep(a)
      PROVE  AdminInv'
  <2>1. UNCHANGED <<lease, inflight, overdue, grants, leaseSeq, credited>>
    BY <1>3, AdminStepKeeps
  <2>2. Leases'
    BY <2>1 DEF AdminInv, Leases, StoredLeaseIsNewest, PunctualLeaseStored, GrantIds
  <2>3. NotAgain'
    BY <2>1 DEF AdminInv, NotAgain, Accepted
  <2> QED  BY <1>1, <2>2, <2>3 DEF AdminInv
<1> QED  BY <1>2, <1>3 DEF AdminNext, allVars

\* Whatever the administrators save and whatever their pages show, the types and the
\* order of the leases are kept, and no lease is accepted twice.
THEOREM AdminSafety == AdminSpec => []AdminInv
<1>1. AdminInit => AdminInv
  BY AdminInitType, InitLeases DEF AdminInit, AdminInv, NotAgain, Init
<1> QED  BY <1>1, AdminInductive, PTL DEF AdminSpec

\* Setting the step back does not weaken the validation of leases: an earlier
\* lease of an X that was leased again is refused.
THEOREM AdminStaleRefused == AdminSpec => []StaleGrantRefused
<1>1. AdminInv => StaleGrantRefused
  BY LeasesDecideAcks DEF AdminInv, AdminTypeOK
<1> QED  BY AdminSafety, <1>1, PTL

\* Nor does it make the pool refuse the trainer that holds the newest lease of an X
\* and is in time.  An earlier holder is refused, in time or not, once a rewind has
\* had its X leased again.
THEOREM AdminPunctualAccepted == AdminSpec => []PunctualAckAccepted
<1>1. AdminInv => PunctualAckAccepted
  BY LeasesDecideAcks DEF AdminInv, AdminTypeOK
<1> QED  BY AdminSafety, <1>1, PTL

\* completed:count does not fall behind what was retired, though an X may now be
\* retired more than once.
THEOREM AdminCountNeverBehind == AdminSpec => []CountCovers
<1>1. AdminInit => Covered
  BY InitCovered DEF AdminInit
<1>2. ASSUME AdminTypeOK, Covered, [AdminNext]_allVars
      PROVE  Covered'
  <2>1. CASE [Next]_vars
    BY <1>2, <2>1, NextCovered DEF AdminTypeOK
  <2>2. ASSUME NEW a \in Admin, AdminStep(a)
        PROVE  Covered'
    <3>1. UNCHANGED <<credited, legacyDone, completed, uncounted, req>>
      BY <2>2, AdminStepKeeps
    <3> QED  BY <1>2, <3>1, CoveredStays DEF Unpaid, At
  <2> QED  BY <1>2, <2>1, <2>2 DEF AdminNext, allVars
<1>3. AdminInv => AdminTypeOK
  BY DEF AdminInv
<1>4. Covered => CountCovers
  BY DEF Covered
<1> QED  BY AdminSafety, <1>1, <1>2, <1>3, <1>4, PTL DEF AdminSpec

-----------------------------------------------------------------------------
(* The step and the lower bound *)

\* What a step of the pool does to the step: only ensure_step_above_start, a claim
\* and the cap write it, and none of them takes it below the bound.
LEMMA PoolKeepsBound ==
  ASSUME TypeOK, Next
  PROVE  /\ start' = start
         /\ step >= start => step' >= start
         /\ Ensured => step' >= start
<1> USE DEF poolVars, historyVars
<1>0. step \in Nat /\ start \in Nat /\ start <= MaxX /\ MaxX \in Nat
  BY ConstantsAssumption DEF TypeOK, X
<1>1. ASSUME NEW r \in Handler, EnsureStep(r)
      PROVE  start' = start /\ step' >= start
  BY <1>0, <1>1 DEF EnsureStep
<1>2. ASSUME NEW r \in Handler, ClaimRange(r)
      PROVE  start' = start /\ (step >= start => step' >= start) /\ ~Ensured
  <2>1. req[r].need \in Nat
    BY <1>2, BusyType DEF ClaimRange, At
  <2>2. \A s \in Handler \ {r} : req'[s] = req[s]
    BY <1>2 DEF ClaimRange, TypeOK
  <2>3. ~At(r, "ensure")
    BY <1>2 DEF ClaimRange, At
  <2>4. ~Ensured
    BY <2>2, <2>3 DEF Ensured, At
  <2>5. start' = start /\ step' = step + req[r].need
    BY <1>2 DEF ClaimRange
  <2> QED  BY <1>0, <2>1, <2>4, <2>5
<1>3. ASSUME NEW r \in Handler, CapStep(r)
      PROVE  start' = start /\ step' >= start
  BY <1>0, <1>3 DEF CapStep
<1>4. CASE UNCHANGED <<start, step>> /\ ~Ensured
  BY <1>4
<1>5. ASSUME NEW r \in Handler,
             SupplyReady(r) \/ Allocate(r) \/ Poll(r) \/ LegacyTally(r) \/ Fail(r)
      PROVE  UNCHANGED <<start, step>> /\ ~Ensured
  <2>1. UNCHANGED <<start, step>>
    BY <1>5 DEF SupplyReady, Allocate, Poll, LegacyTally, Fail
  <2>2. \A s \in Handler \ {r} : req'[s] = req[s]
    BY <1>5 DEF SupplyReady, Allocate, Poll, LegacyTally, Fail, Goto, Answer, TypeOK
  <2>3. ~(At(r, "ensure") /\ At(r, "claim")')
    BY <1>5
       DEF SupplyReady, Allocate, Poll, LegacyTally, Fail, Answer, At, Idle, TypeOK
  <2> QED  BY <2>1, <2>2, <2>3 DEF Ensured, At
<1>6. CASE TrainerCall
  <2>1. ASSUME NEW r \in Handler, NEW h,
               At(r, "idle"), req' = [req EXCEPT ![r] = h]
        PROVE  ~Ensured
    BY <2>1 DEF Ensured, At
  <2>2. ASSUME NEW m \in Machine, NEW S, MarkDone(m, S)
        PROVE  ~Ensured
    BY <2>2 DEF MarkDone, Ensured, At
  <2>3. UNCHANGED <<start, step>>
    BY <1>6 DEF TrainerCall, GetNumber, MarkDone, LegacyMarkDone
  <2>4. ~Ensured
    BY <1>6, <2>1, <2>2 DEF TrainerCall, GetNumber, LegacyMarkDone
  <2> QED  BY <1>4, <2>3, <2>4
<1>7. CASE Requeue \/ Clock
  <2>1. UNCHANGED <<start, step, req>>
    BY <1>7 DEF Requeue, Clock, LeaseFallsDue, LeaseKeyExpires
  <2> QED  BY <1>4, <2>1 DEF Ensured, At
<1> QED
  BY <1>0, <1>1, <1>2, <1>3, <1>4, <1>5, <1>6, <1>7 DEF Next, HandlerStep

\* While no save is under way the step is not below the lower bound, whatever is
\* saved, refused or fails half way, except between a save cut short (or a first
\* bound above 0) and the next call of ensure_step_above_start.
THEOREM AdminBoundKept == AdminSpec => []StepNotBelowStart
<1>1. AdminInit => StepNotBelowStart
  <2> SUFFICES ASSUME AdminInit, ~cut
               PROVE  step >= start
    BY DEF StepNotBelowStart
  <2>1. step \in Nat /\ start \in Nat
    BY ConstantsAssumption DEF AdminInit, Init, X
  <2>2. ~(step < start)
    BY DEF AdminInit
  <2> QED  BY <2>1, <2>2
<1>2. ASSUME AdminTypeOK, StepNotBelowStart, [AdminNext]_allVars
      PROVE  StepNotBelowStart'
  <2> SUFFICES ASSUME ~cut',
                      \A a \in Admin : page'[a].pc \notin {"saveStart", "saveEnsure"}
               PROVE  step' >= start'
    BY DEF StepNotBelowStart
  <2> USE DEF vars, poolVars, historyVars, PageAt, PageGoto
  <2>0. step \in Nat /\ start \in Nat /\ page \in [Admin -> Page]
    BY <1>2, ConstantsAssumption DEF AdminTypeOK, TypeOK, X
  <2>1. CASE /\ Next /\ cut' = (IF Ensured THEN FALSE ELSE cut)
             /\ UNCHANGED <<page, loads, saves>>
    BY <1>2, <2>1, PoolKeepsBound DEF AdminTypeOK, StepNotBelowStart
  <2>2. ASSUME NEW a \in Admin, AdminStep(a)
        PROVE  step' >= start'
    <3>1. CASE LoadStep(a) \/ LoadStart(a)
      BY <1>2, <2>0, <3>1 DEF LoadStep, LoadStart, StepNotBelowStart, Page
    <3>2. ASSUME NEW s, NEW t, SaveStep(a, s, t)
          PROVE  FALSE
      BY <2>0, <3>2 DEF SaveStep
    <3>3. CASE SaveStart(a)
      BY <2>0, <3>3 DEF SaveStart, Page
    <3>4. CASE SaveRejected(a) \/ SaveFails(a)
      BY <3>4 DEF SaveRejected, SaveFails
    <3>5. CASE SaveEnsure(a)
      BY <2>0, <3>5 DEF SaveEnsure, PulledUp
    <3> QED  BY <2>2, <3>1, <3>2, <3>3, <3>4, <3>5 DEF AdminStep
  <2>3. CASE UNCHANGED allVars
    BY <1>2, <2>3 DEF allVars, adminVars, StepNotBelowStart
  <2> QED  BY <1>2, <2>1, <2>2, <2>3 DEF AdminNext
<1>3. AdminInv => AdminTypeOK
  BY DEF AdminInv
<1> QED  BY AdminSafety, <1>1, <1>2, <1>3, PTL DEF AdminSpec

=============================================================================
