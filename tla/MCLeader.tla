------------------------------- MODULE MCLeader -------------------------------
(* Small instances of Leader for TLC. *)
EXTENDS Leader, TLC

MCSymmetry == Permutations(Worker)

=============================================================================
