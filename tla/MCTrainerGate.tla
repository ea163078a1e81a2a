----------------------------- MODULE MCTrainerGate -----------------------------
(* Small instances of TrainerGate for TLC. *)
EXTENDS TrainerGate, TLC

MCSymmetry == Permutations(Handler) \cup Permutations(Worker)

\* Without "done" among Ops nothing reads todo but the fairness of trainers, which
\* plays no part in a run of Spec.
ReportlessView ==
  <<gateVars, testVars, cmd, poolVars, cacheVars, req, adm, used, histVars>>

=============================================================================
