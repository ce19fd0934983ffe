----------------------------- MODULE MCPlanner ------------------------------
(* One thread: two start requests, two answers to the same questions and one *)
(* to the critique that follows the first, which reuses an idempotency key.  *)
EXTENDS Planner, TLC

CONSTANTS s1, s2, a1, a2, b1, p1, p2, k1, k2, k3, k4, c1, c2, c3

MCKeys == s1 :> k1 @@ s2 :> k2 @@ a1 :> k3 @@ a2 :> k4 @@ b1 :> k2
MCKey == [q \in Requests |-> MCKeys[q]]
MCComments == a1 :> c1 @@ a2 :> c2 @@ b1 :> c3
MCComment == [r \in Resumes |-> MCComments[r]]
MCAnswered == a1 :> Questions @@ a2 :> Questions @@ b1 :> critique_interrupt(a1)
MCAnswers == [r \in Resumes |-> MCAnswered[r]]
\* The first critique comes before any answer.
MCEarlyAnswered ==
    a1 :> critique_interrupt(None) @@ a2 :> Questions @@ b1 :> critique_interrupt(a1)

MCEarlyAnswers == [r \in Resumes |-> MCEarlyAnswered[r]]

ProcSymmetry == Permutations(Procs)
=============================================================================
