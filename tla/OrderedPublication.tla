------------------------- MODULE OrderedPublication -------------------------
(***************************************************************************)
(* What publishing promises, without publishers, requests or failures: the *)
(* operations of an envelope become visible one at a time in plan order,   *)
(* each is recorded after it became visible and before the next one does,  *)
(* and the publication is completed when all are recorded.                 *)
(***************************************************************************)
EXTENDS Naturals

CONSTANTS
    Envelopes,
    N,        \* operations of an envelope
    Visible   \* Visible[e][i]: the operation has an effect one can see

VARIABLES
    shown,     \* the operations of an envelope whose effect is there
    recorded,  \* the operations that are recorded as applied
    complete   \* the envelopes whose publication is completed

vars == <<shown, recorded, complete>>

Init ==
    /\ shown = [e \in Envelopes |-> {}]
    /\ recorded = [e \in Envelopes |-> {}]
    /\ complete = {}

\* The operation after all recorded ones.
Upcoming(e, i) == recorded[e] = 1..(i - 1)

\* The effect of the next operation becomes visible.
Show(e, i) ==
    /\ Upcoming(e, i)
    /\ Visible[e][i]
    /\ i \notin shown[e]
    /\ shown' = [shown EXCEPT ![e] = @ \union {i}]
    /\ UNCHANGED <<recorded, complete>>

\* The next operation is recorded, once visible if it can be.
Record(e, i) ==
    /\ Upcoming(e, i)
    /\ Visible[e][i] => i \in shown[e]
    /\ recorded' = [recorded EXCEPT ![e] = @ \union {i}]
    /\ UNCHANGED <<shown, complete>>

Complete(e) ==
    /\ recorded[e] = 1..N
    /\ complete' = complete \union {e}
    /\ UNCHANGED <<shown, recorded>>

Next ==
    \E e \in Envelopes : Complete(e) \/ \E i \in 1..N : Show(e, i) \/ Record(e, i)

Spec == Init /\ [][Next]_vars
=============================================================================
