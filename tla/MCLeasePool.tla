----------------------------- MODULE MCLeasePool -----------------------------
(* Small instances of LeasePool and of its refinement mapping for TLC. *)
EXTENDS LeasePoolRefinement, TLC

\* Trainers are interchangeable, and so are request slots.
MCSymmetry == Permutations(Machine) \cup Permutations(Handler)

=============================================================================
