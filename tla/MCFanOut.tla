------------------------------ MODULE MCFanOut -------------------------------
(***************************************************************************)
(* Instances of FanOut: which branches the router has and what they visit. *)
(***************************************************************************)
EXTENDS FanOut, TLC

CONSTANTS b1, b2

\* Two gates that compete for the one interaction, one of them behind a signal
\* and the crossing of a loop.
ProgGates == (b1 :> <<"emit", "human">>) @@ (b2 :> <<"wait", "loop", "human">>)
\* One slot for a branch with two gates in a row, which signals first, and one
\* that waits for the signal and then runs a node.
ProgSlot == (b1 :> <<"emit", "human", "human">>) @@ (b2 :> <<"wait", "loop">>)
=============================================================================
