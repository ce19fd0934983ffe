--------------------------- MODULE MCLifecycleRun ----------------------------
(* One Idea.  People answer the questions of its first version, or they merge  *)
(* what is planned and operators replan it.                                   *)
EXTENDS LifecycleRun, TLC

CONSTANTS w1, w2, e1, e2, c1, c2, m1, m2, n1, r1, r2

MCPull == [m \in Merges |-> IF m = m2 THEN 2 ELSE 1]
MCArrivals == {{e1, c1, c2, m1}, {e1, m1, m2, n1, r1}, {r1, r2, n1}, {e1, e2, m1}}
MCBase == [r \in Replans |-> 1]
WorkerSymmetry == Permutations(Workers)
=============================================================================
