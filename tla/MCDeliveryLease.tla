-------------------------- MODULE MCDeliveryLease --------------------------
(* Two flows carry the same delivery (a webhook delivered twice) and an     *)
(* operator may start a recovery.                                           *)
EXTENDS DeliveryLease, TLC

CONSTANTS d1, f1, f2, r1

MCDeliveryOf == [f \in Flows |-> d1]

\* The two ingress flows are interchangeable.
Duplicates == Permutations({f1, f2})
=============================================================================
