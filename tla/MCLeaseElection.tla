--------------------------- MODULE MCLeaseElection ---------------------------
(***************************************************************************)
(* TLC instances of LeaseElection.  No action depends on how late it is,   *)
(* only on how far apart two instants are, so AgeView identifies states    *)
(* that differ only by a shift of time: the search covers terms of every   *)
(* length without a bound on now.                                          *)
(***************************************************************************)
EXTENDS LeaseElection

CONSTANTS a, b

ThreeAhead == [c \in Candidates |-> IF c = b THEN 3 ELSE 0]
OneAhead == [c \in Candidates |-> IF c = b THEN 1 ELSE 0]

\* An expiry further back than any stamp that can still reach the store.
Floor == -(MaxLag + TTL)

Relative(t) == IF t - now < Floor THEN Floor ELSE t - now

AgeView ==
    <<IF lease.owner = NoOwner THEN <<>> ELSE
          <<lease.owner, Relative(lease.expires)>>,
      phase,
      [c \in Candidates |->
          IF call[c].kind = "none" THEN <<>>
          ELSE <<call[c].kind, Relative(call[c].sent), call[c].landed,
                 call[c].ok>>],
      {<<w.kind, w.owner, Relative(w.sent)>> : w \in late},
      [c \in Candidates |->
          IF phase[c] \in {"waiting", "serving", "stopping"}
          THEN Relative(timer[c]) ELSE 0],
      [c \in Candidates |->
          IF phase[c] = "serving" THEN Relative(renewAt[c]) ELSE 0],
      handed, ctxDone>>
=============================================================================
