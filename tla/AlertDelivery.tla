---------------------------- MODULE AlertDelivery ----------------------------
(***************************************************************************)
(* Alertmanager's notifications on their way to one work package for every   *)
(* alert fingerprint.                                                        *)
(*                                                                          *)
(* A call of the webhook is a Windmill flow: it tries its alerts in order,   *)
(* each in a transaction that holds the fingerprint's advisory lock over the *)
(* exchange with OpenProject, repeats the whole body when a step raises, and *)
(* in the end answers 503, so that Alertmanager calls again.  OpenProject may *)
(* commit a request after its sender gave it up: the adapter calls such a     *)
(* write possibly committed, and the body is repeated all the same.          *)
(***************************************************************************)
EXTENDS Integers, Sequences, FiniteSets

CONSTANTS
    Calls,      \* webhook calls, repeated ones included
    Envelope,   \* the alerts of each call
    Attempts,   \* how often the flow runs its step before it gives up
    MaxFaults,  \* bound on lost answers, dead workers and lost connections
    MaxEdits    \* bound on people's edits

States == {"firing", "resolved"}
Alerts == UNION {{Envelope[c][i] : i \in DOMAIN Envelope[c]} : c \in Calls}
Fingerprints == {a.fingerprint : a \in Alerts}

\* What a body may hold: alerts, and no fingerprint twice.
alertmanager_envelope(body) ==
    /\ body # <<>>
    /\ \A i, j \in DOMAIN body : body[i].fingerprint = body[j].fingerprint => i = j

Nobody == "nobody"

ASSUME EnvelopeAssumption ==
    /\ Attempts \in Nat \ {0} /\ MaxFaults \in Nat /\ MaxEdits \in Nat
    /\ Nobody \notin Calls
    /\ Envelope \in [Calls -> Seq(Alerts)]
    /\ Alerts \subseteq [fingerprint : Fingerprints, state : States, transition_at : Nat]
    /\ \A c \in Calls : alertmanager_envelope(Envelope[c])

VARIABLES
    job,      \* the flow that serves each call
    lock,     \* the call that holds a fingerprint's advisory lock
    audit,    \* the alerts with a committed row of outcome created, updated or unchanged
    cards,    \* the work packages of a fingerprint, in the order of their creation
    inflight, \* requests given up by their sender that OpenProject may still commit
    torn,     \* fingerprints whose lock was lost by a call that went on
    overtaken, \* fingerprints at which such a request committed out of its turn
    faults, edits

vars == <<job, lock, audit, cards, inflight, torn, overtaken, faults, edits>>

NoCard == [is |-> "absent"]
Unclear == [is |-> "error"]
Waiting == [pc |-> "idle", index |-> 1, attempt |-> 1, again |-> FALSE, seen |-> NoCard,
            fresh |-> FALSE, held |-> FALSE]
Running == {"lock", "find", "create", "patch", "recover", "commit"}

alert(c) == Envelope[c][job[c].index]
fp(c) == alert(c).fingerprint

-----------------------------------------------------------------------------
(* The order of transitions.                                               *)

\* An older transition is stale; resolution wins a race at the same instant.
operational_alert_is_stale(a, current) ==
    \/ a.transition_at < current.transition_at
    \/ /\ a.transition_at = current.transition_at
       /\ current.state = "resolved" /\ a.state = "firing"

\* The row the query under the lock returns: the latest, resolved before firing.
Latest(rows) == {r \in rows : \A s \in rows : ~operational_alert_is_stale(r, s)}
current(f) == Latest({a \in audit : a.fingerprint = f})

-----------------------------------------------------------------------------
(* The work package of an alert.                                           *)

Tagged(f) == {i \in DOMAIN cards[f] : cards[f][i].tagged}

\* Mutant: a package without its field is no longer looked for.
FindByField(f) ==
    CASE Tagged(f) = {} -> NoCard
      [] Cardinality(Tagged(f)) = 1 -> cards[f][CHOOSE i \in Tagged(f) : TRUE]
      [] OTHER -> Unclear

\* The one package with the fingerprint in its field; two of them raise, and so
\* does a package that lost its field when there is no other.
_find_operational_alert(f) ==
    CASE cards[f] = <<>> -> NoCard
      [] Cardinality(Tagged(f)) = 1 -> cards[f][CHOOSE i \in Tagged(f) : TRUE]
      [] OTHER -> Unclear

Found(w) == w.is = "card"

\* _operational_alert_matches: status, priority and the whole description.
_operational_alert_matches(w, a, text) == Found(w) /\ w.shows = a /\ w.text = text

\* A write makes every earlier read of the package out of date (lockVersion).
Outdated(f, id) ==
    [d \in Calls |-> IF fp(d) = f /\ Found(job[d].seen) /\ job[d].seen.id = id
                     THEN [job[d] EXCEPT !.fresh = FALSE] ELSE job[d]]

\* OpenProject will answer 409 to these.
Superseded(f, id) ==
    {r \in inflight : r.alert.fingerprint = f /\ Found(r.seen) /\ r.seen.id = id}

-----------------------------------------------------------------------------
(* A call.                                                                 *)

\* An exception ends the transaction and the lock; the flow tries the body again,
\* or its failure module answers 503.
Failed(c) ==
    /\ job' = [job EXCEPT ![c] =
                 IF job[c].attempt < Attempts
                 THEN [Waiting EXCEPT !.pc = "lock", !.attempt = job[c].attempt + 1]
                 ELSE [Waiting EXCEPT !.pc = "refused"]]
    /\ lock' = IF job[c].held THEN [lock EXCEPT ![fp(c)] = Nobody] ELSE lock

Goto(c, pc) == job' = [job EXCEPT ![c].pc = pc]

\* The request of a call that gives it up; one that is out of date has no effect.
Abandoned(c) ==
    CASE job[c].pc = "create" ->
           {[n |-> faults, alert |-> alert(c), seen |-> NoCard]}
      [] job[c].pc = "patch" /\ job[c].fresh ->
           {[n |-> faults, alert |-> alert(c), seen |-> job[c].seen]}
      [] OTHER -> {}

\* ensure_operational_alert returned; what it read is forgotten.
Ensured(c, jobs) ==
    job' = [jobs EXCEPT ![c] = [@ EXCEPT !.pc = "commit", !.seen = NoCard, !.fresh = FALSE,
                                         !.again = FALSE]]

\* One alert is settled: its transaction ends, and the next one begins.
Settled(c) ==
    /\ job' = [job EXCEPT ![c] =
                 IF job[c].index < Len(Envelope[c])
                 THEN [Waiting EXCEPT !.pc = "lock", !.attempt = job[c].attempt,
                                      !.index = job[c].index + 1]
                 ELSE [Waiting EXCEPT !.pc = "done", !.index = job[c].index]]
    /\ lock' = [lock EXCEPT ![fp(c)] = Nobody]

\* Alertmanager calls, and calls again after a 503.
Deliver(c) ==
    /\ job[c].pc \in {"idle", "refused"}
    /\ job' = [job EXCEPT ![c] = [Waiting EXCEPT !.pc = "lock"]]
    /\ UNCHANGED <<lock, audit, cards, inflight, torn, overtaken, faults, edits>>

\* The lock, the latest transition under it, and the end of a stale alert.
Lock(c) ==
    /\ job[c].pc = "lock"
    /\ lock[fp(c)] = Nobody
    /\ IF \E r \in current(fp(c)) : operational_alert_is_stale(alert(c), r)
       THEN Settled(c)
       ELSE /\ lock' = [lock EXCEPT ![fp(c)] = c]
            /\ job' = [job EXCEPT ![c].pc = "find", ![c].held = TRUE]
    /\ UNCHANGED <<audit, cards, inflight, torn, overtaken, faults, edits>>

\* ensure_operational_alert reads the package; after a conflict it reads it again.
Find(c) ==
    LET w == _find_operational_alert(fp(c))
        read == [job EXCEPT ![c].seen = w, ![c].fresh = TRUE]
    IN  /\ job[c].pc = "find"
        /\ \/ /\ w = NoCard /\ ~job[c].again
              /\ Goto(c, "create") /\ lock' = lock
           \/ /\ ~Found(w) /\ (w = NoCard => job[c].again)
              /\ Failed(c)
           \/ /\ Found(w) /\ _operational_alert_matches(w, alert(c), w.text)
              /\ Ensured(c, job) /\ lock' = lock
           \/ /\ Found(w) /\ ~_operational_alert_matches(w, alert(c), w.text)
              /\ job' = [read EXCEPT ![c].pc = "patch"] /\ lock' = lock
        /\ UNCHANGED <<audit, cards, inflight, torn, overtaken, faults, edits>>

\* The answer to a write: it arrives, or it is lost and the package is read again.
Answer(c, jobs) ==
    \/ /\ Ensured(c, jobs)
       /\ faults' = faults
    \/ /\ faults < MaxFaults
       /\ job' = [jobs EXCEPT ![c].pc = "recover"]
       /\ faults' = faults + 1

\* The sender gives the request up before OpenProject has committed it, if it ever
\* does: a transport error, a 408 or a 5xx.
Lost(c) ==
    /\ job[c].pc \in {"create", "patch"}
    /\ faults < MaxFaults
    /\ faults' = faults + 1
    /\ inflight' = inflight \union Abandoned(c)
    /\ Goto(c, "recover")
    /\ UNCHANGED <<lock, audit, cards, torn, overtaken, edits>>

NewCard(a, id) == [is |-> "card", id |-> id, shows |-> a, text |-> 0, tagged |-> TRUE]

Create(c) ==
    /\ job[c].pc = "create"
    /\ cards' = [cards EXCEPT ![fp(c)] = Append(@, NewCard(alert(c), Len(@) + 1))]
    /\ Answer(c, job)
    /\ UNCHANGED <<lock, audit, inflight, torn, overtaken, edits>>

\* Mutant: an update does not carry the lock version it read.
PatchBlindly(c) ==
    /\ job[c].pc = "patch"
    /\ cards' = [cards EXCEPT ![fp(c)][job[c].seen.id] = [job[c].seen EXCEPT !.shows = alert(c)]]
    /\ Answer(c, Outdated(fp(c), job[c].seen.id))
    /\ inflight' = inflight \ Superseded(fp(c), job[c].seen.id)
    /\ UNCHANGED <<lock, audit, torn, overtaken, edits>>

\* The description is the text that was read with the region replaced.
Patch(c) ==
    /\ job[c].pc = "patch" /\ job[c].fresh
    /\ cards' = [cards EXCEPT ![fp(c)][job[c].seen.id] = [job[c].seen EXCEPT !.shows = alert(c)]]
    /\ Answer(c, Outdated(fp(c), job[c].seen.id))
    /\ inflight' = inflight \ Superseded(fp(c), job[c].seen.id)
    /\ UNCHANGED <<lock, audit, torn, overtaken, edits>>

\* 409: one more read and write, then an error.
Conflict(c) ==
    /\ job[c].pc = "patch" /\ ~job[c].fresh
    /\ IF job[c].again THEN Failed(c)
       ELSE /\ job' = [job EXCEPT ![c].pc = "find", ![c].again = TRUE]
            /\ lock' = lock
    /\ UNCHANGED <<audit, cards, inflight, torn, overtaken, faults, edits>>

\* Mutant: a lost answer counts as delivered.
RecoverBlindly(c) ==
    /\ job[c].pc = "recover"
    /\ Ensured(c, job)
    /\ UNCHANGED <<lock, audit, cards, inflight, torn, overtaken, faults, edits>>

\* Mutant: the package is read until the write shows.
RecoverWaits(c) ==
    LET text == IF job[c].seen = NoCard THEN 0 ELSE job[c].seen.text
    IN  /\ job[c].pc = "recover"
        /\ _operational_alert_matches(_find_operational_alert(fp(c)), alert(c), text)
        /\ Ensured(c, job)
        /\ UNCHANGED <<lock, audit, cards, inflight, torn, overtaken, faults, edits>>

\* The postcondition decides whether a write without an answer happened.
Recover(c) ==
    LET text == IF job[c].seen = NoCard THEN 0 ELSE job[c].seen.text
    IN  /\ job[c].pc = "recover"
        /\ IF _operational_alert_matches(_find_operational_alert(fp(c)), alert(c), text)
           THEN Ensured(c, job) /\ lock' = lock
           ELSE Failed(c)
        /\ UNCHANGED <<audit, cards, inflight, torn, overtaken, faults, edits>>

\* The audit row commits with the transaction, if there still is one.
Commit(c) ==
    /\ job[c].pc = "commit"
    /\ IF job[c].held
       THEN Settled(c) /\ audit' = audit \union {alert(c)}
       ELSE Failed(c) /\ audit' = audit
    /\ UNCHANGED <<cards, inflight, torn, overtaken, faults, edits>>

\* The worker dies, and PostgreSQL ends its transaction; its request may be under way.
Die(c) ==
    /\ job[c].pc \in Running
    /\ faults < MaxFaults
    /\ faults' = faults + 1
    /\ inflight' = inflight \union Abandoned(c)
    /\ Failed(c)
    /\ UNCHANGED <<audit, cards, torn, overtaken, edits>>

\* The connection breaks; the exchange with OpenProject does not notice.
LoseConnection(c) ==
    /\ job[c].held
    /\ faults < MaxFaults
    /\ faults' = faults + 1
    /\ lock' = [lock EXCEPT ![fp(c)] = Nobody]
    /\ job' = [job EXCEPT ![c].held = FALSE]
    /\ torn' = torn \union {fp(c)}
    /\ UNCHANGED <<audit, cards, inflight, overtaken, edits>>

\* A creation whose sender gave it up commits.  It is overtaken when there is a
\* package by then, or when a call that has found none is about to create one.
LateCreate(r) ==
    LET f == r.alert.fingerprint
    IN  /\ r.seen = NoCard
        /\ cards' = [cards EXCEPT ![f] = Append(@, NewCard(r.alert, Len(@) + 1))]
        /\ overtaken' = IF \/ cards[f] # <<>>
                           \/ \E c \in Calls : job[c].pc = "create" /\ fp(c) = f
                        THEN overtaken \union {f} ELSE overtaken
        /\ inflight' = inflight \ {r}
        /\ job' = job

\* An update whose sender gave it up commits under the version that it carries.  It is
\* overtaken when the package has been showing a newer transition.
LatePatch(r) ==
    LET f == r.alert.fingerprint
        shown == cards[f][r.seen.id].shows
    IN  /\ Found(r.seen)
        /\ cards' = [cards EXCEPT ![f][r.seen.id] = [r.seen EXCEPT !.shows = r.alert]]
        /\ overtaken' = IF operational_alert_is_stale(r.alert, shown)
                        THEN overtaken \union {f} ELSE overtaken
        /\ inflight' = inflight \ Superseded(f, r.seen.id)
        /\ job' = Outdated(f, r.seen.id)

LateCommit(r) ==
    /\ r \in inflight
    /\ LateCreate(r) \/ LatePatch(r)
    /\ UNCHANGED <<lock, audit, torn, faults, edits>>

\* A person writes into a package, or changes its fingerprint field.
Edit(f, i) ==
    /\ edits < MaxEdits
    /\ edits' = edits + 1
    /\ \/ cards' = [cards EXCEPT ![f][i].text = @ + 1]
       \/ cards' = [cards EXCEPT ![f][i].tagged = ~@]
    /\ job' = Outdated(f, i)
    /\ inflight' = inflight \ Superseded(f, i)
    /\ UNCHANGED <<lock, audit, torn, overtaken, faults>>

Init ==
    /\ job = [c \in Calls |-> Waiting]
    /\ lock = [f \in Fingerprints |-> Nobody]
    /\ audit = {}
    /\ cards = [f \in Fingerprints |-> <<>>]
    /\ inflight = {}
    /\ torn = {} /\ overtaken = {}
    /\ faults = 0 /\ edits = 0

Step(c) ==
    \/ Lock(c) \/ Find(c) \/ Create(c) \/ Patch(c) \/ Conflict(c) \/ Recover(c) \/ Commit(c)

Next ==
    \/ \E c \in Calls : Deliver(c) \/ Step(c) \/ Lost(c) \/ Die(c) \/ LoseConnection(c)
    \/ \E r \in inflight : LateCommit(r)
    \/ \E f \in Fingerprints : \E i \in DOMAIN cards[f] : Edit(f, i)

\* A worker goes on, PostgreSQL grants the lock to everybody who waits for it, and
\* Alertmanager repeats a notification until it is accepted.  Requests given up and
\* people owe nothing.
Fairness == \A c \in Calls : WF_vars(Find(c) \/ Create(c) \/ Patch(c) \/ Conflict(c)
                                     \/ Recover(c) \/ Commit(c))
                             /\ SF_vars(Lock(c)) /\ WF_vars(Deliver(c))

Spec == Init /\ [][Next]_vars /\ Fairness

-----------------------------------------------------------------------------
(* Properties.                                                             *)

\* What is known of these fingerprints only holds with exceptions: a call went on
\* without their lock, or a request committed after its sender gave it up and after
\* the calls that followed had decided without it.
Disturbed == torn \union overtaken

\* A notification that was answered with success stays visible: the package shows
\* it or a later transition, whatever older notification, repetition, half-done call
\* or late update comes after; an older firing one does not reopen it (main).  Only an
\* update that OpenProject commits after its sender gave it up, under a version that
\* shows something newer, can take the package back.
AnsweredShown ==
    \A c \in Calls : job[c].pc = "done" =>
        \A i \in DOMAIN Envelope[c] :
            LET a == Envelope[c][i]
            IN  a.fingerprint \notin Disturbed =>
                  /\ cards[a.fingerprint] # <<>>
                  /\ ~operational_alert_is_stale(cards[a.fingerprint][1].shows, a)

\* One work package for a fingerprint, however many calls find none, lose the answer
\* to their creation or meet a package without its field, and however late a creation
\* commits that was given up (ensure_operational_alert).  A second package takes a
\* creation that commits behind another call's search: it is given up as possibly
\* committed, the search that follows finds nothing, and the body is repeated.
OnePackage == \A f \in Fingerprints \ Disturbed : Len(cards[f]) <= 1

\* What a person wrote is never written back to what it was when it was read
\* (ensure_operational_alert).
TextKept ==
    [][\A f \in Fingerprints : \A i \in DOMAIN cards[f] :
           cards'[f][i].text >= cards[f][i].text]_vars

\* The identity of a package of the call's is gone, or there are two of them: the
\* search raises until a person repairs it.
Blocked(c) ==
    \E i \in DOMAIN Envelope[c] : _find_operational_alert(Envelope[c][i].fingerprint) = Unclear

\* Alertmanager's retries end: through lost answers, conflicts, dead workers, lost locks
\* and late commits every notification is answered with success in the end, unless from
\* some time on a package's identity stays unclear (main, flow.yaml).
Delivered == <>[](\A c \in Calls : job[c].pc = "done" \/ Blocked(c))
=============================================================================
