----------------------------- MODULE MCEvidence -----------------------------
(* Pull requests of one work package, a handler of their webhooks and the    *)
(* nightly reconciliation.                                                   *)
EXTENDS Evidence, TLC

CONSTANTS p1, p2, w1, r1

\* No definition, and no property of the run that uses it, tells two pull
\* requests apart; the run checks no liveness.
PullSymmetry == Permutations(Pulls)
=============================================================================
