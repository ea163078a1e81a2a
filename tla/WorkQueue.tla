------------------------------ MODULE WorkQueue ------------------------------
(***************************************************************************)
(* What the pool promises of the X it distributes (README, "Lease model"): *)
(* an item is published once, is out with at most one machine, is finished *)
(* and counted once, by the machine it is out with, and otherwise comes    *)
(* back.  A call that names items and no leases can take an item out of    *)
(* circulation whoever it is out with, but not finish it.                  *)
(* Keys, leases, counters and requests are not mentioned.                  *)
(***************************************************************************)
EXTENDS Integers, FiniteSets

CONSTANTS
  Item,
  Worker,
  Nobody

VARIABLES
  status,   \* where each item is in its life
  holder,   \* who may finish an item that is out
  finished  \* how many items were counted as finished

wqVars == <<status, holder, finished>>

Are(S, st) == \A i \in S : status[i] = st

Move(S, st, w) ==
  /\ status' = [i \in Item |-> IF i \in S THEN st ELSE status[i]]
  /\ holder' = [i \in Item |-> IF i \in S THEN w ELSE holder[i]]

WQInit ==
  /\ status = [i \in Item |-> "new"]
  /\ holder = [i \in Item |-> Nobody]
  /\ finished = 0

Publish(S) == Are(S, "new") /\ Move(S, "queued", Nobody) /\ UNCHANGED finished

HandOut(S, w) == Are(S, "queued") /\ Move(S, "out", w) /\ UNCHANGED finished

\* The holder took too long: it may no longer finish the item.
Forget(S) == Are(S, "out") /\ Move(S, "out", Nobody) /\ UNCHANGED finished

Return(S) == Are(S, "out") /\ Move(S, "queued", Nobody) /\ UNCHANGED finished

Finish(S, w) ==
  /\ Are(S, "out") /\ \A i \in S : holder[i] = w
  /\ Move(S, "finished", Nobody)
  /\ finished' = finished + Cardinality(S)

Withdraw(S) == Are(S, "out") /\ Move(S, "withdrawn", Nobody) /\ UNCHANGED finished

WQNext ==
  \E S \in SUBSET Item :
    \/ Publish(S) \/ Forget(S) \/ Return(S) \/ Withdraw(S)
    \/ \E w \in Worker : HandOut(S, w) \/ Finish(S, w)

WQSpec == WQInit /\ [][WQNext]_wqVars

=============================================================================
