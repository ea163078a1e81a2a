------------------------------ MODULE LeaseLedger ------------------------------
(***************************************************************************)
(* What the lease protocol promises of the leases themselves, whatever     *)
(* becomes of the items they are for (README, "Lease model"): a lease [m,  *)
(* x, lid] is live from its issue until it ends or is honoured, an item    *)
(* has one live lease at most, an id that is not newer is never issued for *)
(* it, and only live leases are honoured, each counted once.               *)
(*                                                                         *)
(* The step and the lower bound are not mentioned: an item may be issued   *)
(* again after it was honoured, as it is when an administrator rewinds.    *)
(***************************************************************************)
EXTENDS Integers, FiniteSets

VARIABLES
  issued,    \* every lease that was ever issued
  live,      \* those that would be honoured now
  honoured,  \* those that were
  counted    \* how many were counted

llVars == <<issued, live, honoured, counted>>

OneWorker(S) == \A s, t \in S : s.m = t.m

LLInit == issued = {} /\ live = {} /\ honoured = {} /\ counted = 0

\* One worker gets leases of some items; an earlier lease of one of them ends.
Issue ==
  LET new == issued' \ issued IN
    /\ issued \subseteq issued'
    /\ OneWorker(new) /\ \A s, t \in new : s.x = t.x => s = t
    /\ \A s \in new, t \in issued : s.x = t.x => t.lid < s.lid
    /\ live' = {t \in live : \A s \in new : s.x # t.x} \cup new
    /\ UNCHANGED <<honoured, counted>>

End == live' \subseteq live /\ UNCHANGED <<issued, honoured, counted>>

\* One worker's leases are honoured: they end, and each is counted.
Honour ==
  LET spent == live \ live' IN
    /\ live' \subseteq live
    /\ OneWorker(spent)
    /\ honoured' = honoured \cup spent
    /\ counted' = counted + Cardinality(spent)
    /\ UNCHANGED issued

LLNext == Issue \/ End \/ Honour

LLSpec == LLInit /\ [][LLNext]_llVars

=============================================================================
