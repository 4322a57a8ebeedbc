--------------------------- MODULE MCCredentialPool ---------------------------
(* TLC instance of CredentialPool: three submissions by two runs, one of them *)
(* launched and resumed up to twice, the other launched.                      *)
EXTENDS CredentialPool, TLC

CONSTANTS run1, run2, donor1

ResumedAndLaunched == [x \in Runs |-> IF x = run1 THEN 3 ELSE 1]

\* The first attempt of run1 may be superseded, reopened and reported twice,
\* the second reported once; the third is only submitted.
Deliveries == [a \in Attempts |-> IF a[1] = run1 THEN 3 - a[2] ELSE 1]
=============================================================================
