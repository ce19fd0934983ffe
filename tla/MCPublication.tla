--------------------------- MODULE MCPublication ---------------------------
(* One plan of two versions: the first creates a work package and updates   *)
(* another, the second updates one and supersedes the other.  Two publishers *)
(* carry the first version.                                                  *)
EXTENDS Publication, TLC

CONSTANTS v1, v2, p1, p2, p3, k1, k2

MCEnvelopeOf == [p \in Publishers |-> IF p = p3 THEN v2 ELSE v1]
MCKind == [e \in Envelopes |->
             IF e = v1 THEN <<"create", "patch", "audit">> ELSE <<"status", "relate", "audit">>]
MCPackage == [e \in Envelopes |-> IF e = v1 THEN <<k1, k2, k2>> ELSE <<k2, k1, k1>>]

\* The publishers of the first version are interchangeable.
Duplicates == Permutations({p1, p2})
=============================================================================
