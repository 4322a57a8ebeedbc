---------------------------- MODULE MCDispatcher -----------------------------
(***************************************************************************)
(* Instances of Dispatcher: daemons as model values; they are alike.       *)
(***************************************************************************)
EXTENDS Dispatcher, TLC

CONSTANTS d1, d2

DaemonSymmetry == Permutations({d1, d2})
=============================================================================
