------------------------------ MODULE MCLifespan ------------------------------
(* Lifespan for TLC: the constants are sets of model values. *)
EXTENDS Lifespan
=============================================================================
