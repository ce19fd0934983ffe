---------------------------- MODULE PlannerThread ----------------------------
(***************************************************************************)
(* What the planner promises of one planning thread, without processes,    *)
(* leases or locks: an interrupt is raised and answered by one request;    *)
(* an answer is taken at most once; a taken answer is settled or, before   *)
(* that, abandoned for good; a thread is rewound only to the interrupt     *)
(* that an abandoned answer had answered.                                  *)
(***************************************************************************)
CONSTANTS
    Requests,      \* resume requests
    Interrupts,
    Answers,       \* the interrupt a request answers
    NoInterrupt,
    NoRequest

VARIABLES
    pending,   \* the interrupt that waits for an answer
    consumed,  \* the answer the thread took last
    used,      \* the answers the thread ever took
    dead,      \* the requests that were abandoned
    settled    \* the requests that have their durable response

vars == <<pending, consumed, used, dead, settled>>

\* A thread that an earlier release planned may have taken and settled answers.
Init ==
    /\ pending = NoInterrupt
    /\ dead = {}
    /\ used \subseteq Requests
    /\ settled = used
    /\ consumed \in used \union {NoRequest}

Raise(i) ==
    /\ pending = NoInterrupt
    /\ pending' = i
    /\ UNCHANGED <<consumed, used, dead, settled>>

\* An operator may have abandoned the request while it was on its way here.
Take(r) ==
    /\ pending = Answers[r]
    /\ r \notin used
    /\ pending' = NoInterrupt
    /\ consumed' = r
    /\ used' = used \union {r}
    /\ UNCHANGED <<dead, settled>>

Settle(r) ==
    /\ r \in used \ dead
    /\ settled' = settled \union {r}
    /\ UNCHANGED <<pending, consumed, used, dead>>

Abandon(r) ==
    /\ r \notin settled
    /\ dead' = dead \union {r}
    /\ UNCHANGED <<pending, consumed, used, settled>>

Rewind(r) ==
    /\ r \in dead
    /\ consumed = r
    /\ pending' = Answers[r]
    /\ consumed' = NoRequest
    /\ UNCHANGED <<used, dead, settled>>

Next ==
    \/ \E i \in Interrupts : Raise(i)
    \/ \E r \in Requests : Take(r) \/ Settle(r) \/ Abandon(r) \/ Rewind(r)

Spec == Init /\ [][Next]_vars
=============================================================================
