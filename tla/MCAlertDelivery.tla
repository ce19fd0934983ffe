--------------------------- MODULE MCAlertDelivery ---------------------------
(* An alert that fires and is resolved at the same instant, one notification of it
   late, another alert in the body of the last. *)
EXTENDS AlertDelivery

CONSTANTS c1, c2, c3

A(f, state, t) == [fingerprint |-> f, state |-> state, transition_at |-> t]

MCEnvelope ==
    [c \in Calls |-> CASE c = c1 -> <<A("f", "firing", 1)>>
                       [] c = c2 -> <<A("f", "firing", 2)>>
                       [] c = c3 -> <<A("f", "resolved", 2), A("g", "firing", 2)>>]
=============================================================================
