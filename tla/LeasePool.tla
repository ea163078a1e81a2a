------------------------------ MODULE LeasePool ------------------------------
(***************************************************************************)
(* Distribution of the X values of the search space to trainers, under     *)
(* leases: app/workers/partx_generator.py (next_batch), the pool part of   *)
(* app/cache/keydb.py (the Lua scripts and the plain commands around them) *)
(* and the pool part of the trainer's handlers in                          *)
(* app/workers/trainer_router.py (get_number, mark_done).                  *)
(*                                                                         *)
(* KeyDB runs a command, a Lua script or a MULTI/EXEC pipeline atomically, *)
(* so each is one action.  A handler is a coroutine of some Uvicorn worker *)
(* that awaits one command after the other; between two of them any other  *)
(* handler, the requeue loop or the clock may step.                        *)
(*                                                                         *)
(* Time is kept as far as the scripts can see it.  A score of              *)
(* pool:inflight is in the future or has passed (the X is "overdue"); a    *)
(* pool:lease:{x} key exists or has been evicted.  The key outlives the    *)
(* score (key_ttl = 3 * ttl), so it is evicted only once the X is overdue. *)
(***************************************************************************)
EXTENDS Integers, FiniteSets

CONSTANTS
  Machine,       \* the trainers, by X-Machine-Id
  Handler,       \* the requests the server can have in progress at once
  MaxX,          \* MAX_X, the last X of the space (2^32 - 1)
  FirstX,        \* partx:start when the behaviour begins
  CountLimit,    \* the most X one get_number may ask for (1000)
  RequeueBatch,  \* REQUEUE_BATCH, the most leases one requeue call moves
  None,          \* nil: no lease key, no machine
  MaxCalls,      \* bound: calls of get_number and of mark_done without leases
  MaxFailures    \* bound: requests that die half way

X == 0 .. MaxX

Lease == [m : Machine, lid : Nat]

ASSUME ConstantsAssumption ==
  /\ MaxX \in Nat
  /\ FirstX \in X
  /\ CountLimit \in Nat \ {0}
  /\ RequeueBatch \in Nat \ {0}
  /\ None \notin Machine
  /\ None \notin Lease
  /\ MaxCalls \in Nat
  /\ MaxFailures \in Nat

VARIABLES
  \* ---- KeyDB
  start,        \* partx:start
  step,         \* partx:step
  ready,        \* pool:ready, the X that wait for a trainer
  inflight,     \* pool:inflight, the X under a lease
  overdue,      \* the X of pool:inflight whose score has passed
  lease,        \* pool:lease:{x}
  leaseSeq,     \* pool:lease_seq
  completed,    \* completed:count
  requeued,     \* pool:stats:requeued
  \* ---- the requests in progress
  req,          \* the local state of each handler
  calls,        \* calls made so far, at most MaxCalls
  failures,     \* requests that died so far, at most MaxFailures
  \* ---- what trainers were told
  grants,       \* every (machine, X, lease id) that get_number has returned
  told,         \* the command of the last pool answer to each machine
  \* ---- history, not part of the program
  credited,     \* the grants whose acknowledgement was accepted
  legacyDone,   \* the X taken out of pool:inflight by a mark_done without leases
  legacyCount,  \* what mark_done without leases has added to completed:count
  uncounted,    \* what those that died before they added it would have added
  lost          \* the X claimed by a request that died before it supplied them

poolVars == <<start, step, ready, inflight, overdue, lease, leaseSeq, completed,
              requeued>>
historyVars == <<credited, legacyDone, legacyCount, uncounted, lost>>
vars == <<poolVars, req, calls, failures, grants, told, historyVars>>

-----------------------------------------------------------------------------
(* Handlers *)

Pc == {"idle", "ensure", "claim", "supply", "cap", "allocate", "poll", "tally"}

Idle == [pc |-> "idle", m |-> None, count |-> 0, need |-> 0, from |-> 0]

HandlerState ==
  {Idle} \cup
  [pc : Pc \ {"idle"}, m : Machine, count : Nat, need : Nat, from : Nat]

At(r, pc) == req[r].pc = pc

Goto(r, pc) == req' = [req EXCEPT ![r].pc = pc]

Answer(r) == req' = [req EXCEPT ![r] = Idle]

\* The X of a claim of `need' numbers at `from': range(start, end) of next_batch.
ClaimedUncut(from, need) == from .. (from + need - 1)
ClaimedShort(from, need) == {x \in X : from <= x /\ x + 1 < from + need}
Claimed(from, need) == {x \in X : from <= x /\ x < from + need}

\* The claim lies wholly beyond the space.
EndsPastEnd(from, need) == from + need >= MaxX
PastEnd(from, need) == from > MaxX

\* The X that a handler has claimed and not yet put into pool:ready.
Holding(r) == IF At(r, "supply") THEN Claimed(req[r].from, req[r].need) ELSE {}

\* What it has yet to add to completed:count for a mark_done without leases.
Unpaid(r) == IF At(r, "tally") THEN req[r].need ELSE 0

-----------------------------------------------------------------------------
(* What the scripts compute.  A definition written just before the one the   *)
(* specification uses is a variant with a plausible bug, which nothing uses. *)

\* ZPOPMIN: the n lowest members of S, all of S when it has fewer.
Lowest(S, n) ==
  {T \in SUBSET S : /\ \/ Cardinality(T) = n
                       \/ T = S /\ Cardinality(S) < n
                    /\ \A t \in T, s \in S \ T : t < s}

\* The place of x in T, from 1: the script treats the popped items in order.
Rank(T, x) == Cardinality({y \in T : y <= x})

\* _LUA_ACK: the stored lease is the one the trainer names.
AcceptedAnyLid(g) == lease[g.x] # None /\ lease[g.x].m = g.m
Accepted(g) == lease[g.x] = [m |-> g.m, lid |-> g.lid]

\* The grants that one call of _LUA_ACK accepts, and the X of some grants.
AcceptedGrantsNoKey(S) == {g \in S : Accepted(g) \/ lease[g.x] = None}
AcceptedGrants(S) == {g \in S : Accepted(g)}

XsOf(S) == {g.x : g \in S}

\* What one call of _LUA_ACK adds to completed:count.
CreditAll(S) == Cardinality(S)
Credit(S) == Cardinality(AcceptedGrants(S))

\* len(nums) of lease_ack_legacy: each X that was named, in flight or not.
NamedKeyed(S) == Cardinality({x \in S : lease[x] # None})
Named(S) == Cardinality(S)

\* DEL pool:lease:{x} for every x of S.
DropLeases(S) == [x \in X |-> IF x \in S THEN None ELSE lease[x]]

\* ZRANGEBYSCORE -inf now LIMIT 0 limit: T is a result of it.  Which of more
\* than RequeueBatch overdue X come first depends on the scores, left out here.
ExpiredBatchKeyed(T) == T = {x \in overdue : lease[x] # None}
ExpiredBatch(T) ==
  /\ T \subseteq overdue
  /\ \/ Cardinality(T) = RequeueBatch
     \/ T = overdue /\ Cardinality(overdue) < RequeueBatch

\* SET pool:lease:{x} ... EX key_ttl: three lease times, so not before x is due.
KeyMayExpireEarly(x) == x \in inflight
KeyMayExpire(x) == x \in overdue

-----------------------------------------------------------------------------
Init ==
  /\ start = FirstX /\ step = 0
  /\ ready = {} /\ inflight = {} /\ overdue = {}
  /\ lease = [x \in X |-> None]
  /\ leaseSeq = 0 /\ completed = 0 /\ requeued = 0
  /\ req = [r \in Handler |-> Idle]
  /\ calls = 0 /\ failures = 0
  /\ grants = {}
  /\ told = [m \in Machine |-> "none"]
  /\ credited = {} /\ lost = {}
  /\ legacyDone = {} /\ legacyCount = 0 /\ uncounted = 0

-----------------------------------------------------------------------------
(* get_number, from the point where it calls next_batch(count, machine_id) *)

\* get_ready_count: is there enough, or does the queue need a top-up?
GetNumber(r, m, count) ==
  /\ At(r, "idle") /\ calls < MaxCalls
  /\ LET available == Cardinality(ready) IN
       req' = [req EXCEPT ![r] =
                 IF available < count
                 THEN [pc |-> "ensure", m |-> m, count |-> count,
                       need |-> count - available, from |-> 0]
                 ELSE [pc |-> "allocate", m |-> m, count |-> count,
                       need |-> 0, from |-> 0]]
  /\ calls' = calls + 1
  /\ UNCHANGED <<poolVars, failures, grants, told, historyVars>>

\* ensure_step_above_start (_ENSURE_STEP_LUA)
EnsureStep(r) ==
  /\ At(r, "ensure")
  /\ step' = IF step < start THEN start ELSE step
  /\ Goto(r, "claim")
  /\ UNCHANGED <<start, ready, inflight, overdue, lease, leaseSeq, completed,
                 requeued, calls, failures, grants, told, historyVars>>

\* claim_range: INCRBY partx:step need
ClaimRange(r) ==
  /\ At(r, "claim")
  /\ step' = step + req[r].need
  /\ req' = [req EXCEPT
       ![r].from = step,
       ![r].pc = IF PastEnd(step, req[r].need) THEN "cap" ELSE "supply"]
  /\ UNCHANGED <<start, ready, inflight, overdue, lease, leaseSeq, completed,
                 requeued, calls, failures, grants, told, historyVars>>

\* supply_ready: ZADD pool:ready
SupplyReady(r) ==
  /\ At(r, "supply")
  /\ ready' = ready \cup Holding(r)
  /\ Goto(r, "allocate")
  /\ UNCHANGED <<start, step, inflight, overdue, lease, leaseSeq, completed,
                 requeued, calls, failures, grants, told, historyVars>>

\* set_step(MAX_X + 1)
CapStep(r) ==
  /\ At(r, "cap")
  /\ step' = MaxX + 1
  /\ Goto(r, "allocate")
  /\ UNCHANGED <<start, ready, inflight, overdue, lease, leaseSeq, completed,
                 requeued, calls, failures, grants, told, historyVars>>

\* lease_allocate (_LUA_ALLOCATE), and the answer "work" when it returned items
Allocate(r) ==
  /\ At(r, "allocate")
  /\ \E T \in Lowest(ready, req[r].count) :
       LET m == req[r].m
           lid(x) == leaseSeq + Rank(T, x)
       IN /\ ready' = ready \ T
          /\ inflight' = inflight \cup T
          /\ overdue' = overdue \ T
          /\ lease' = [x \in X |-> IF x \in T THEN [m |-> m, lid |-> lid(x)]
                                              ELSE lease[x]]
          /\ leaseSeq' = leaseSeq + Cardinality(T)
          /\ grants' = grants \cup {[m |-> m, x |-> x, lid |-> lid(x)] : x \in T}
          /\ IF T = {}
             THEN Goto(r, "poll") /\ UNCHANGED told
             ELSE Answer(r) /\ told' = [told EXCEPT ![m] = "work"]
  /\ UNCHANGED <<start, step, completed, requeued, calls, failures, historyVars>>

\* get_inflight_count, and the answer "wait" or "done"
Poll(r) ==
  /\ At(r, "poll")
  /\ told' = [told EXCEPT ![req[r].m] = IF inflight # {} THEN "wait" ELSE "done"]
  /\ Answer(r)
  /\ UNCHANGED <<poolVars, calls, failures, grants, historyVars>>

-----------------------------------------------------------------------------
(* mark_done *)

\* With leases: lease_ack (_LUA_ACK) on the grants S of one machine, one lease
\* for each X.  A grant stays in `grants', so an answer may be lost and an
\* acknowledgement late, repeated or never sent.
MarkDone(m, S) ==
  /\ S # {} /\ S \subseteq {g \in grants : g.m = m}
  /\ \A g, h \in S : g.x = h.x => g = h
  /\ LET done == XsOf(AcceptedGrants(S)) IN
       /\ inflight' = inflight \ done
       /\ overdue' = overdue \ done
       /\ lease' = DropLeases(done)
  /\ completed' = completed + Credit(S)
  /\ credited' = credited \cup AcceptedGrants(S)
  /\ UNCHANGED <<start, step, ready, leaseSeq, requeued, req, calls, failures,
                 grants, told, legacyDone, legacyCount, uncounted, lost>>

\* Without leases: the pipeline of lease_ack_legacy, a MULTI/EXEC transaction, on
\* any X, whoever holds it.  A trainer of the old protocol sends such calls, and so
\* does any trainer for verification and test numbers, whose answer carries none ...
LegacyMarkDone(r, m, S) ==
  /\ At(r, "idle") /\ calls < MaxCalls
  /\ S # {}
  /\ inflight' = inflight \ S
  /\ overdue' = overdue \ S
  /\ lease' = DropLeases(S)
  /\ legacyDone' = legacyDone \cup (S \cap inflight)
  /\ req' = [req EXCEPT ![r] = [pc |-> "tally", m |-> m, count |-> 0,
                                need |-> Named(S), from |-> 0]]
  /\ calls' = calls + 1
  /\ UNCHANGED <<start, step, ready, leaseSeq, completed, requeued, failures,
                 grants, told, credited, legacyCount, uncounted, lost>>

\* ... then INCRBY completed:count len(nums)
LegacyTally(r) ==
  /\ At(r, "tally")
  /\ completed' = completed + req[r].need
  /\ legacyCount' = legacyCount + req[r].need
  /\ Answer(r)
  /\ UNCHANGED <<start, step, ready, inflight, overdue, lease, leaseSeq,
                 requeued, calls, failures, grants, told, credited, legacyDone,
                 uncounted, lost>>

-----------------------------------------------------------------------------
(* The background, the clock and failures *)

\* requeue_expired_leases: one call of lease_requeue (_LUA_REQUEUE)
Requeue ==
  /\ \E T \in SUBSET inflight :
       /\ ExpiredBatch(T)
       /\ inflight' = inflight \ T
       /\ overdue' = overdue \ T
       /\ lease' = DropLeases(T)
       /\ ready' = ready \cup T
       /\ requeued' = requeued + Cardinality(T)
  /\ UNCHANGED <<start, step, leaseSeq, completed, req, calls, failures, grants,
                 told, historyVars>>

\* The score of x passes.
LeaseFallsDue(x) ==
  /\ x \in inflight \ overdue
  /\ overdue' = overdue \cup {x}
  /\ UNCHANGED <<start, step, ready, inflight, lease, leaseSeq, completed,
                 requeued, req, calls, failures, grants, told, historyVars>>

\* KeyDB evicts pool:lease:{x}.
LeaseKeyExpires(x) ==
  /\ KeyMayExpire(x) /\ lease[x] # None
  /\ lease' = DropLeases({x})
  /\ UNCHANGED <<start, step, ready, inflight, overdue, leaseSeq, completed,
                 requeued, req, calls, failures, grants, told, historyVars>>

\* A handler's await raises (KeyDB timeout, lost connection) or its worker dies.
Fail(r) ==
  /\ ~At(r, "idle") /\ failures < MaxFailures
  /\ lost' = lost \cup Holding(r)
  /\ uncounted' = uncounted + Unpaid(r)
  /\ Answer(r)
  /\ failures' = failures + 1
  /\ UNCHANGED <<poolVars, calls, grants, told, credited, legacyDone, legacyCount>>

-----------------------------------------------------------------------------
HandlerStep(r) ==
  \/ EnsureStep(r)
  \/ ClaimRange(r)
  \/ SupplyReady(r)
  \/ CapStep(r)
  \/ Allocate(r)
  \/ Poll(r)
  \/ LegacyTally(r)

TrainerCall ==
  \/ \E r \in Handler, m \in Machine, count \in 1 .. CountLimit :
       GetNumber(r, m, count)
  \/ \E m \in Machine, S \in SUBSET grants : MarkDone(m, S)
  \/ \E r \in Handler, m \in Machine, S \in SUBSET X : LegacyMarkDone(r, m, S)

Clock == \E x \in X : LeaseFallsDue(x) \/ LeaseKeyExpires(x)

Next ==
  \/ TrainerCall
  \/ \E r \in Handler : HandlerStep(r) \/ Fail(r)
  \/ Requeue
  \/ Clock

Spec == Init /\ [][Next]_vars

\* A request in progress goes on, the requeue loop runs every REQUEUE_INTERVAL
\* seconds and time passes.  Nothing is assumed of trainers.
Fairness ==
  /\ \A r \in Handler : WF_vars(HandlerStep(r))
  /\ WF_vars(Requeue)
  /\ \A x \in X : WF_vars(LeaseFallsDue(x))

FairSpec == Spec /\ Fairness

-----------------------------------------------------------------------------
(* Properties *)

\* Type correctness of the pool's keys, of the handlers and of the answers.
TypeOK ==
  /\ start \in X /\ step \in Nat
  /\ ready \subseteq X /\ inflight \subseteq X /\ overdue \subseteq inflight
  /\ lease \in [X -> Lease \cup {None}]
  /\ leaseSeq \in Nat /\ completed \in Nat /\ requeued \in Nat
  /\ req \in [Handler -> HandlerState]
  /\ calls \in Nat /\ failures \in Nat
  /\ grants \subseteq [m : Machine, x : X, lid : Nat] /\ IsFiniteSet(grants)
  /\ told \in [Machine -> {"none", "work", "wait", "done"}]
  /\ credited \subseteq grants /\ legacyDone \subseteq X /\ lost \subseteq X
  /\ legacyCount \in Nat /\ uncounted \in Nat

\* The X retired by a validated lease, and the ways to leave the pool for good.
acked == XsOf(credited)
Gone == acked \cup legacyDone \cup lost

\* No X is in two places, so none is handed out while it is leased, claimed by
\* a second request, or handed out again once it is retired.
NoXTwice ==
  /\ ready \cap inflight = {}
  /\ (ready \cup inflight) \cap Gone = {}
  /\ acked \cap legacyDone = {}
  /\ \A r \in Handler : Holding(r) \cap (ready \cup inflight \cup Gone) = {}
  /\ \A r, s \in Handler : r # s => Holding(r) \cap Holding(s) = {}

\* No X slips out: each X from the lower bound up to the step is waiting,
\* leased, retired, held by a request in progress or known to have died with
\* one.  (README, "no losses": what is not acknowledged comes back.)
NoXMissing ==
  \A x \in X : start <= x /\ x < step =>
    \/ x \in ready \cup inflight \cup Gone
    \/ \E r \in Handler : x \in Holding(r)

\* Whatever left pool:inflight as done is in completed:count, or a request is still
\* on its way to add it, or died before it did: the count never falls behind.  It
\* may run ahead: calls without leases count every X they name, in flight or not.
Owed == UNION {{r} \X (1 .. Unpaid(r)) : r \in Handler}

CountCovers ==
  Cardinality(credited) + Cardinality(legacyDone)
    <= completed + Cardinality(Owed) + uncounted

\* No X is counted under two leases.  (README, "no double counting".)
NoDoubleCredit == \A g, h \in credited : g.x = h.x => g = h

\* Every lease id ever issued ended one way: its X is still in flight, was
\* retired under it, or was requeued.  The Overview page's counters agree.
LeaseAccounting ==
  leaseSeq = Cardinality(inflight) + Cardinality(credited)
               + Cardinality(legacyDone) + requeued

\* Once X has been leased again, no acknowledgement that names an earlier
\* lease of it is accepted, also when the same machine got both.
StaleGrantRefused ==
  \A g, h \in grants : g.x = h.x /\ g.lid < h.lid => ~Accepted(g)

\* A trainer that acknowledges before its lease is due is never refused: while
\* X is in flight and not overdue its newest lease is stored.
PunctualAckAccepted ==
  \A g \in grants :
    g.x \in inflight \ overdue /\ (\A h \in grants : h.x = g.x => h.lid <= g.lid)
      => Accepted(g)

\* A request that is about to set the step to MAX_X + 1 does not undo anything:
\* the step is beyond the space already.
CapOnlyWhenExhausted == \A r \in Handler : At(r, "cap") => step > MaxX

\* next_batch returns the empty list only "when the full space is exhausted"
\* (partx_generator.py), so "done" is answered only when the step is beyond it.
DoneMeansExhausted == \A m \in Machine : told[m] = "done" => step > MaxX

\* An X under a lease does not stay so: it is retired or comes back to the
\* queue, whatever the trainer does.
LeaseEnds == \A x \in X : x \in inflight ~> x \notin inflight

-----------------------------------------------------------------------------
(* What the safety properties rest on: the parts of the inductive invariant  *)
(* of LeasePool_proofs that are not properties themselves.                   *)

\* An X at or above the step has not been given to anyone.
FreshAboveStep ==
  \A x \in X : x >= step =>
    /\ x \notin ready \cup inflight \cup Gone
    /\ \A r \in Handler : x \notin Holding(r)

\* A stored lease is the newest grant of an X in flight.
StoredLeaseIsNewest ==
  \A x \in X : lease[x] # None =>
    /\ x \in inflight
    /\ [m |-> lease[x].m, x |-> x, lid |-> lease[x].lid] \in grants
    /\ \A g \in grants : g.x = x => g.lid <= lease[x].lid

\* The key outlives the score.
PunctualLeaseStored == \A x \in inflight \ overdue : lease[x] # None

\* Ids come from pool:lease_seq; an X never gets one twice.
GrantIds ==
  /\ \A g \in grants : g.lid <= leaseSeq
  /\ \A g, h \in grants : g.x = h.x /\ g.lid = h.lid => g = h

\* What DoneMeansExhausted rests on when requests come one at a time: on its way to
\* the answer a request either finds X waiting or has seen the space exhausted.
EmptyMeansExhausted ==
  /\ \A r \in Handler :
       /\ At(r, "ensure") \/ At(r, "claim") \/ At(r, "supply") \/ At(r, "cap")
          \/ At(r, "allocate") => req[r].count > 0
       /\ At(r, "ensure") \/ At(r, "claim") \/ At(r, "supply") => req[r].need > 0
       /\ At(r, "supply") => req[r].from <= MaxX
       /\ At(r, "allocate") => ready # {} \/ step > MaxX
       /\ At(r, "poll") => step > MaxX
  /\ DoneMeansExhausted

\* All the safety properties together, and what they rest on.
Leases == StoredLeaseIsNewest /\ PunctualLeaseStored /\ GrantIds
Places == NoXTwice /\ NoXMissing /\ FreshAboveStep /\ CapOnlyWhenExhausted
Counts == NoDoubleCredit /\ LeaseAccounting
Inv == TypeOK /\ Leases /\ Places /\ Counts

=============================================================================
