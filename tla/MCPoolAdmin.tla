----------------------------- MODULE MCPoolAdmin -----------------------------
(* Small instances of PoolAdmin and of LeaseLedgerRefinement for TLC. *)
EXTENDS LeaseLedgerRefinement, TLC

MCSymmetry ==
  Permutations(Machine) \cup Permutations(Handler) \cup Permutations(Admin)

=============================================================================
