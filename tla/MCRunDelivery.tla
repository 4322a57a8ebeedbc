---------------------------- MODULE MCRunDelivery ----------------------------
(* TLC instances of RunDelivery. *)
EXTENDS RunDelivery, TLC

CONSTANTS p, q

Symmetry == Permutations(Runners)
=============================================================================
