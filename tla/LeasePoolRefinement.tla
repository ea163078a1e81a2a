-------------------------- MODULE LeasePoolRefinement --------------------------
(***************************************************************************)
(* LeasePool implements WorkQueue.  An X is out while it is in             *)
(* pool:inflight; its holder is the machine named by pool:lease:{x}; it is *)
(* new until supply_ready has put it into pool:ready, and stays new if the *)
(* request that claimed it died before that.  An X taken out of flight by  *)
(* a mark_done without leases is withdrawn, and what that call adds to     *)
(* completed:count is left out of what was finished.                       *)
(***************************************************************************)
EXTENDS LeasePool

StatusOf(x) ==
  CASE x \in acked -> "finished"
    [] x \in legacyDone \ acked -> "withdrawn"
    [] x \in inflight \ (acked \cup legacyDone) -> "out"
    [] x \in ready \ (inflight \cup acked \cup legacyDone) -> "queued"
    [] OTHER -> "new"

HolderOf(x) == IF lease[x] = None THEN None ELSE lease[x].m

WQ == INSTANCE WorkQueue WITH
        Item <- X, Worker <- Machine, Nobody <- None,
        status <- [x \in X |-> StatusOf(x)],
        holder <- [x \in X |-> HolderOf(x)],
        finished <- completed - legacyCount

\* The pool's keys, read as above, behave as WorkQueue: each X is published
\* once, leased to one machine at a time, counted once and only for the machine
\* whose lease is current, and otherwise requeued.  Only a call without leases can
\* take one out without finishing it, and only while it is out.
ImplementsWorkQueue == WQ!WQSpec

=============================================================================
