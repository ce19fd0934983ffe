---------------------------- MODULE Publication ----------------------------
(***************************************************************************)
(* Publishing an approved plan to OpenProject.                             *)
(*                                                                         *)
(* A publisher takes the plan's session fence, journals the operations of  *)
(* its envelope, and for each operation in order checks the live state,    *)
(* records an intent, sends one request, verifies it and records the       *)
(* outcome.  A run that stops anywhere is resumed from the journal.        *)
(*                                                                         *)
(* What an operation changes is abstracted to two tests.  Its precondition *)
(* holds until its own effect, a later effect on the same work package or  *)
(* somebody else's edit is visible; its postcondition holds once its own   *)
(* effect is visible and nothing else changed.  PlanDiff models the        *)
(* operations themselves.                                                  *)
(***************************************************************************)
EXTENDS Naturals

CONSTANTS
    Envelopes,   \* approved publication envelopes of one plan, one per version
    Publishers,  \* processes that run publish()
    EnvelopeOf,  \* the envelope a publisher was started with
    Packages,    \* work packages of the project
    N,           \* operations of an envelope
    Kind,        \* the kind of an operation
    Package,     \* the work package an operation is about
    MaxFaults,   \* bound on crashes, lost responses, refused requests, lost sessions
    MaxEdits     \* bound on edits made by people

Ops == 1..N

\* create: POST of a work package; relate: POST or DELETE of a relation;
\* patch: PATCH whose precondition sees its own effect (fields, parent);
\* status: PATCH whose precondition does not (reactivate, mark superseded);
\* audit: record_audit, which only the journal knows.
Kinds == {"create", "relate", "patch", "status", "audit"}
Patches == {"patch", "status"}

ASSUME PublicationAssumption ==
    /\ EnvelopeOf \in [Publishers -> Envelopes]
    /\ N \in Nat \ {0}
    /\ Kind \in [Envelopes -> [Ops -> Kinds]]
    /\ Package \in [Envelopes -> [Ops -> Packages]]
    /\ MaxFaults \in Nat
    /\ MaxEdits \in Nat
    /\ "none" \notin Publishers

VARIABLES
    approved,     \* the envelopes that exist: their snapshot was taken
    publication,  \* planning_publication.publications
    op,           \* planning_publication.operations: the state of each operation
    fence,        \* the publisher that holds the plan's advisory lock
    pc, at, known, resumed,  \* a publisher: place, operation, applied when loaded, path
    seen,         \* the lockVersion a publisher's request carries
    attempt,      \* 1, or 2 after one update conflict
    effects,      \* OpenProject: how often an operation's mutation was committed
    inflight,     \* requests given up by their sender that may still commit
    lock,         \* OpenProject: lockVersion of a work package
    foreign,      \* packages others changed in managed content since the snapshot
    stale,        \* envelopes whose snapshot no longer matches the project
    faults, edits,
    sessionLost   \* history: a fence session was dropped

vars == <<approved, publication, op, fence, pc, at, known, resumed, seen, attempt,
          effects, inflight, lock, foreign, stale, faults, edits, sessionLost>>

local == <<at, known, resumed, seen, attempt>>
journal == <<publication, op>>
remote == <<effects, inflight, lock, foreign, stale>>
environment == <<approved, faults, edits, sessionLost>>

OpState == {"planned", "intent", "applied", "retryable", "ambiguous"}
Pcs == {"idle", "loading", "snapshot", "begin", "next", "intending", "applying",
        "sending", "lost", "verifying", "outcome", "recovering", "finalizing"}
Requests == [env : Envelopes, op : Ops, seen : Nat]

TypeOK ==
    /\ approved \subseteq Envelopes
    /\ publication \in [Envelopes -> {"absent", "in_progress", "completed"}]
    /\ op \in [Envelopes -> [Ops -> OpState]]
    /\ fence \in Publishers \union {"none"}
    /\ pc \in [Publishers -> Pcs]
    /\ at \in [Publishers -> 1..N + 1]
    /\ known \in [Publishers -> SUBSET Ops]
    /\ resumed \in [Publishers -> BOOLEAN]
    /\ seen \in [Publishers -> Nat]
    /\ attempt \in [Publishers -> 0..2]
    /\ effects \in [Envelopes -> [Ops -> Nat]]
    /\ inflight \subseteq Requests
    /\ lock \in [Packages -> Nat]
    /\ foreign \in [Envelopes -> SUBSET Packages]
    /\ stale \subseteq Envelopes
    /\ faults \in Nat
    /\ edits \in Nat
    /\ sessionLost \in BOOLEAN

-----------------------------------------------------------------------------
(* OpenProject as the adapter sees it.                                     *)

\* Nobody else changed the package, and no later operation did.
Undisturbed(e, i) ==
    /\ Package[e][i] \notin foreign[e]
    /\ \A j \in Ops : j > i /\ Package[e][j] = Package[e][i] => effects[e][j] = 0

\* _assert_current and the adapter's own checks before a request.
Pre(e, i) ==
    \/ Kind[e][i] = "audit"
    \/ /\ Undisturbed(e, i)
       /\ Kind[e][i] # "status" => effects[e][i] = 0

\* postcondition(): the exact state after the effect; never true of record_audit.
Post(e, i) ==
    /\ Kind[e][i] # "audit"
    /\ Undisturbed(e, i)
    /\ effects[e][i] > 0

\* OpenProject takes a PATCH only under the current lockVersion.
Accepts(e, i, v) == Kind[e][i] \in Patches => v = lock[Package[e][i]]

\* A commit is somebody else's change to every other envelope, and the snapshot
\* of no envelope matches the project any more.
Commit(e, i) ==
    /\ effects' = [effects EXCEPT ![e][i] = @ + 1]
    /\ lock' = [lock EXCEPT ![Package[e][i]] = @ + 1]
    /\ foreign' = [x \in Envelopes |->
                     IF x \in approved \ {e} THEN foreign[x] \union {Package[e][i]}
                                             ELSE foreign[x]]
    /\ stale' = stale \union approved

Fault == faults < MaxFaults /\ faults' = faults + 1

-----------------------------------------------------------------------------
(* Steps every run shares.                                                 *)

Goto(p, l) == pc' = [pc EXCEPT ![p] = l]

\* publish() ends, well or badly: close() drops the fence, the process is gone.
End(p) ==
    /\ Goto(p, "idle")
    /\ fence' = IF fence = p THEN "none" ELSE fence
    /\ at' = [at EXCEPT ![p] = 1]
    /\ known' = [known EXCEPT ![p] = {}]
    /\ resumed' = [resumed EXCEPT ![p] = FALSE]
    /\ seen' = [seen EXCEPT ![p] = 0]
    /\ attempt' = [attempt EXCEPT ![p] = 0]

SetOp(e, i, s) == op' = [op EXCEPT ![e][i] = s]

\* journal.failure and the raise that follows it: only an intent can fail.
Fail(p, s) ==
    /\ IF op[EnvelopeOf[p]][at[p]] = "intent"
       THEN SetOp(EnvelopeOf[p], at[p], s)
       ELSE UNCHANGED op
    /\ UNCHANGED publication
    /\ End(p)

\* Mutant: an interrupted attempt counts as applied.
AttemptedOps(e) == {i \in Ops : op[e][i] \in {"applied", "intent"}}

\* The operations that are applied when the journal is read.
AppliedOps(e) == {i \in Ops : op[e][i] = "applied"}

Init ==
    /\ approved = {}
    /\ publication = [e \in Envelopes |-> "absent"]
    /\ op = [e \in Envelopes |-> [i \in Ops |-> "planned"]]
    /\ fence = "none"
    /\ pc = [p \in Publishers |-> "idle"]
    /\ at = [p \in Publishers |-> 1]
    /\ known = [p \in Publishers |-> {}]
    /\ resumed = [p \in Publishers |-> FALSE]
    /\ seen = [p \in Publishers |-> 0]
    /\ attempt = [p \in Publishers |-> 0]
    /\ effects = [e \in Envelopes |-> [i \in Ops |-> 0]]
    /\ inflight = {}
    /\ lock = [k \in Packages |-> 0]
    /\ foreign = [e \in Envelopes |-> {}]
    /\ stale = {}
    /\ faults = 0
    /\ edits = 0
    /\ sessionLost = FALSE

\* The planning PR merges: an envelope binds the snapshot of this moment.
Approve(e) ==
    /\ e \notin approved
    /\ approved' = approved \union {e}
    /\ UNCHANGED <<journal, fence, pc, local, remote, faults, edits, sessionLost>>

-----------------------------------------------------------------------------
(* The publisher.                                                          *)

\* Mutant: the answer of pg_try_advisory_lock is ignored.
StartUnfenced(p) ==
    /\ pc[p] = "idle"
    /\ EnvelopeOf[p] \in approved
    /\ fence' = p
    /\ Goto(p, "loading")
    /\ UNCHANGED <<journal, local, remote, environment>>

\* journal.resume takes the fence of the plan, whatever its version; a publisher
\* that does not get it is refused and changes nothing.
Start(p) ==
    /\ pc[p] = "idle"
    /\ EnvelopeOf[p] \in approved
    /\ fence = "none"
    /\ fence' = p
    /\ Goto(p, "loading")
    /\ UNCHANGED <<journal, local, remote, environment>>

\* Mutant: a run that finds its publication does not know that it resumes one.
LoadAsNew(p) ==
    /\ pc[p] = "loading"
    /\ known' = [known EXCEPT ![p] = AppliedOps(EnvelopeOf[p])]
    /\ Goto(p, IF publication[EnvelopeOf[p]] = "absent" THEN "snapshot" ELSE "next")
    /\ UNCHANGED <<journal, fence, at, resumed, seen, attempt, remote, environment>>

\* ... and reads the publication's row.
Load(p) ==
    LET e == EnvelopeOf[p] IN
    /\ pc[p] = "loading"
    /\ \/ /\ publication[e] = "absent"
          /\ Goto(p, "snapshot")
          /\ UNCHANGED <<known, resumed>>
       \/ /\ publication[e] # "absent"
          /\ known' = [known EXCEPT ![p] = AppliedOps(e)]
          /\ resumed' = [resumed EXCEPT ![p] = TRUE]
          /\ Goto(p, "next")
    /\ UNCHANGED <<journal, fence, at, seen, attempt, remote, environment>>

\* adapter.snapshot and _check_envelope.
Snapshot(p) ==
    /\ pc[p] = "snapshot"
    /\ \/ EnvelopeOf[p] \in stale /\ End(p)
       \/ /\ EnvelopeOf[p] \notin stale
          /\ Goto(p, "begin")
          /\ UNCHANGED <<fence, local>>
    /\ UNCHANGED <<journal, remote, environment>>

\* journal.begin inserts the publication, or finds that another run did.
Begin(p) ==
    LET e == EnvelopeOf[p] IN
    /\ pc[p] = "begin"
    /\ publication' = [publication EXCEPT ![e] = IF @ = "absent" THEN "in_progress" ELSE @]
    /\ known' = [known EXCEPT ![p] = AppliedOps(e)]
    /\ Goto(p, "next")
    /\ UNCHANGED <<op, fence, at, resumed, seen, attempt, remote, environment>>

\* Mutant: the loop passes every operation that was ever attempted.
SkipAttempted(p) ==
    /\ pc[p] = "next"
    /\ \/ /\ at[p] \in Ops
          /\ op[EnvelopeOf[p]][at[p]] # "planned"
          /\ at' = [at EXCEPT ![p] = @ + 1]
          /\ UNCHANGED pc
       \/ at[p] = N + 1 /\ Goto(p, "finalizing") /\ UNCHANGED at
    /\ UNCHANGED <<journal, fence, known, resumed, seen, attempt, remote, environment>>

\* The loop over the operations passes those that were applied when loaded.
Skip(p) ==
    /\ pc[p] = "next"
    /\ \/ at[p] \in known[p] /\ at' = [at EXCEPT ![p] = @ + 1] /\ UNCHANGED pc
       \/ at[p] = N + 1 /\ Goto(p, "finalizing") /\ UNCHANGED at
    /\ UNCHANGED <<journal, fence, known, resumed, seen, attempt, remote, environment>>

\* Mutant: an attempt whose effect is not visible is made once more.
RecoverByRetry(p) ==
    LET e == EnvelopeOf[p]
        i == at[p]
    IN
    /\ pc[p] = "next"
    /\ i \in Ops \ known[p]
    /\ resumed[p]
    /\ op[e][i] \in {"intent", "ambiguous"}
    /\ \/ /\ Post(e, i)
          /\ SetOp(e, i, "applied")
          /\ at' = [at EXCEPT ![p] = @ + 1]
       \/ /\ ~Post(e, i)
          /\ SetOp(e, i, "retryable")
          /\ UNCHANGED at
    /\ UNCHANGED <<publication, fence, pc, known, resumed, seen, attempt, remote, environment>>

\* A resumed run settles an interrupted attempt from what it observes.
Recover(p) ==
    LET e == EnvelopeOf[p]
        i == at[p]
    IN
    /\ pc[p] = "next"
    /\ i \in Ops \ known[p]
    /\ resumed[p]
    /\ op[e][i] \in {"intent", "ambiguous"}
    /\ \/ /\ Post(e, i)
          /\ Goto(p, "recovering")
          /\ UNCHANGED <<journal, fence, local>>
       \/ /\ ~Post(e, i)
          /\ Fail(p, "ambiguous")
    /\ UNCHANGED <<remote, environment>>

\* Everything else passes _assert_current first.
Check(p) ==
    LET e == EnvelopeOf[p]
        i == at[p]
    IN
    /\ pc[p] = "next"
    /\ i \in Ops \ known[p]
    /\ resumed[p] => op[e][i] \notin {"intent", "ambiguous"}
    /\ \/ Pre(e, i) /\ Goto(p, "intending") /\ UNCHANGED <<fence, local>>
       \/ ~Pre(e, i) /\ End(p)
    /\ UNCHANGED <<journal, remote, environment>>

\* Mutant: the journal records the outcome together with the intent.
IntendAsApplied(p) ==
    LET e == EnvelopeOf[p]
        i == at[p]
    IN
    /\ pc[p] = "intending"
    /\ op[e][i] \in {"planned", "retryable"}
    /\ SetOp(e, i, "applied")
    /\ Goto(p, "applying")
    /\ UNCHANGED <<publication, fence, local, remote, environment>>

\* journal.intent.
Intend(p) ==
    LET e == EnvelopeOf[p]
        i == at[p]
    IN
    /\ pc[p] = "intending"
    /\ \/ /\ op[e][i] \in {"planned", "retryable"}
          /\ SetOp(e, i, "intent")
          /\ Goto(p, "applying")
          /\ UNCHANGED <<fence, local>>
       \/ /\ op[e][i] \notin {"planned", "retryable"}
          /\ UNCHANGED op
          /\ End(p)
    /\ UNCHANGED <<publication, remote, environment>>

\* adapter.apply reads the package afresh and checks again before it writes.
Apply(p) ==
    LET e == EnvelopeOf[p]
        i == at[p]
    IN
    /\ pc[p] = "applying"
    /\ \/ /\ Kind[e][i] = "audit"
          /\ Goto(p, "outcome")
          /\ UNCHANGED <<journal, fence, local>>
       \/ /\ Kind[e][i] # "audit"
          /\ Pre(e, i)
          /\ seen' = [seen EXCEPT ![p] = lock[Package[e][i]]]
          /\ attempt' = [attempt EXCEPT ![p] = 1]
          /\ Goto(p, "sending")
          /\ UNCHANGED <<journal, fence, at, known, resumed>>
       \/ ~Pre(e, i) /\ Fail(p, "retryable")
    /\ UNCHANGED <<remote, environment>>

\* The request commits and its answer arrives.  A created package is verified
\* from the answer, everything else is read back.
Reply(p) ==
    LET e == EnvelopeOf[p]
        i == at[p]
    IN
    /\ pc[p] = "sending"
    /\ Accepts(e, i, seen[p])
    /\ Commit(e, i)
    /\ Goto(p, IF Kind[e][i] = "create" THEN "outcome" ELSE "verifying")
    /\ UNCHANGED <<journal, fence, local, inflight, environment>>

\* Mutant: the attempts are not counted.
ConflictUnbounded(p) ==
    LET e == EnvelopeOf[p]
        i == at[p]
    IN
    /\ pc[p] = "sending"
    /\ ~Accepts(e, i, seen[p])
    /\ \/ /\ Pre(e, i)
          /\ seen' = [seen EXCEPT ![p] = lock[Package[e][i]]]
          /\ attempt' = [attempt EXCEPT ![p] = @ + 1]
          /\ UNCHANGED <<journal, fence, pc, at, known, resumed>>
       \/ ~Pre(e, i) /\ Fail(p, "retryable")
    /\ UNCHANGED <<remote, environment>>

\* Mutant: the second attempt takes the new lockVersion without checking the package.
ConflictUnchecked(p) ==
    LET e == EnvelopeOf[p]
        i == at[p]
    IN
    /\ pc[p] = "sending"
    /\ ~Accepts(e, i, seen[p])
    /\ \/ /\ attempt[p] = 1
          /\ seen' = [seen EXCEPT ![p] = lock[Package[e][i]]]
          /\ attempt' = [attempt EXCEPT ![p] = 2]
          /\ UNCHANGED <<journal, fence, pc, at, known, resumed>>
       \/ attempt[p] = 2 /\ Fail(p, "retryable")
    /\ UNCHANGED <<remote, environment>>

\* 409 UpdateConflict: one more attempt on a package read afresh.
Conflict(p) ==
    LET e == EnvelopeOf[p]
        i == at[p]
    IN
    /\ pc[p] = "sending"
    /\ ~Accepts(e, i, seen[p])
    /\ \/ /\ attempt[p] = 1
          /\ Pre(e, i)
          /\ seen' = [seen EXCEPT ![p] = lock[Package[e][i]]]
          /\ attempt' = [attempt EXCEPT ![p] = 2]
          /\ UNCHANGED <<journal, fence, pc, at, known, resumed>>
       \/ attempt[p] = 2 /\ Fail(p, "retryable")
       \/ ~Pre(e, i) /\ Fail(p, "retryable")
    /\ UNCHANGED <<remote, environment>>

\* OpenProject refuses the request.
Refused(p) ==
    /\ pc[p] = "sending"
    /\ Fault
    /\ Fail(p, "retryable")
    /\ UNCHANGED <<remote, approved, edits, sessionLost>>

\* The response is lost, or a server failure that may have committed.
ResponseLost(p) ==
    LET request == [env |-> EnvelopeOf[p], op |-> at[p], seen |-> seen[p]] IN
    /\ pc[p] = "sending"
    /\ Fault
    /\ inflight' = inflight \union {request}
    /\ Goto(p, "lost")
    /\ UNCHANGED <<journal, fence, local, effects, lock, foreign, stale,
                   approved, edits, sessionLost>>

\* Mutant: a lost response is taken for a success.
AfterLossTrusts(p) ==
    /\ pc[p] = "lost"
    /\ Goto(p, "outcome")
    /\ UNCHANGED <<journal, fence, local, remote, environment>>

\* ... so only the postcondition, if it can be read, counts; an update is read
\* back once more.
AfterLoss(p) ==
    LET e == EnvelopeOf[p]
        i == at[p]
    IN
    /\ pc[p] = "lost"
    /\ \/ /\ Post(e, i)
          /\ Goto(p, IF Kind[e][i] \in Patches THEN "verifying" ELSE "outcome")
          /\ UNCHANGED <<journal, fence, local>>
       \/ Fail(p, "ambiguous")
    /\ UNCHANGED <<remote, environment>>

\* The acknowledged effect is read back.
Verify(p) ==
    /\ pc[p] = "verifying"
    /\ \/ /\ Post(EnvelopeOf[p], at[p])
          /\ Goto(p, "outcome")
          /\ UNCHANGED <<journal, fence, local>>
       \/ /\ ~Post(EnvelopeOf[p], at[p])
          /\ Fail(p, "ambiguous")
    /\ UNCHANGED <<remote, environment>>

\* The read itself fails: that error is not an ambiguous one.
VerifyError(p) ==
    /\ pc[p] = "verifying"
    /\ Fault
    /\ Fail(p, "retryable")
    /\ UNCHANGED <<remote, approved, edits, sessionLost>>

\* journal.outcome.
Outcome(p) ==
    LET e == EnvelopeOf[p]
        i == at[p]
    IN
    /\ pc[p] \in {"outcome", "recovering"}
    /\ \/ /\ op[e][i] \in {"intent", "retryable", "ambiguous"}
          /\ SetOp(e, i, "applied")
          /\ at' = [at EXCEPT ![p] = @ + 1]
          /\ Goto(p, "next")
          /\ UNCHANGED <<fence, known, resumed, seen, attempt>>
       \/ /\ op[e][i] \notin {"intent", "retryable", "ambiguous"}
          /\ UNCHANGED op
          /\ End(p)
    /\ UNCHANGED <<publication, remote, environment>>

\* journal.finalize.
Finalize(p) ==
    LET e == EnvelopeOf[p] IN
    /\ pc[p] = "finalizing"
    /\ publication' = [publication EXCEPT ![e] = IF AppliedOps(e) = Ops THEN "completed" ELSE @]
    /\ End(p)
    /\ UNCHANGED <<op, remote, environment>>

-----------------------------------------------------------------------------
(* The environment.                                                        *)

\* The process dies, or a statement of the journal raises: the run is over and
\* its session closes.
Crash(p) ==
    /\ pc[p] # "idle"
    /\ Fault
    /\ End(p)
    /\ UNCHANGED <<journal, remote, approved, edits, sessionLost>>

\* The server drops the fence's session while the publisher goes on.
SessionLost(p) ==
    /\ fence = p
    /\ Fault
    /\ fence' = "none"
    /\ sessionLost' = TRUE
    /\ UNCHANGED <<journal, pc, local, remote, approved, edits>>

\* A request that nobody waits for any more commits, or is dropped.
LateCommit(r) ==
    /\ r \in inflight
    /\ inflight' = inflight \ {r}
    /\ \/ Accepts(r.env, r.op, r.seen) /\ Commit(r.env, r.op)
       \/ UNCHANGED <<effects, lock, foreign, stale>>
    /\ UNCHANGED <<journal, fence, pc, local, environment>>

\* A person edits a package: human fields only, or what the plan manages.
Edit(k) ==
    /\ edits < MaxEdits
    /\ edits' = edits + 1
    /\ lock' = [lock EXCEPT ![k] = @ + 1]
    /\ stale' = stale \union approved
    /\ \/ UNCHANGED foreign
       \/ foreign' = [x \in Envelopes |-> IF x \in approved THEN foreign[x] \union {k}
                                                            ELSE foreign[x]]
    /\ UNCHANGED <<journal, fence, pc, local, effects, inflight, approved, faults, sessionLost>>

Run(p) ==
    \/ Start(p) \/ Load(p) \/ Snapshot(p) \/ Begin(p) \/ Skip(p) \/ Recover(p) \/ Check(p)
    \/ Intend(p) \/ Apply(p) \/ Reply(p) \/ Conflict(p) \/ AfterLoss(p) \/ Verify(p)
    \/ Outcome(p) \/ Finalize(p)

Faulty(p) ==
    Refused(p) \/ ResponseLost(p) \/ VerifyError(p) \/ Crash(p) \/ SessionLost(p)

Next ==
    \/ \E e \in Envelopes : Approve(e)
    \/ \E p \in Publishers : Run(p) \/ Faulty(p)
    \/ \E r \in inflight : LateCommit(r)
    \/ \E k \in Packages : Edit(k)

Spec == Init /\ [][Next]_vars

\* A publisher that can go on does, and one that ended is run again: apply is
\* repeated until the publication is completed.  Requests in flight, people and
\* faults owe nothing.
FairSpec == Spec /\ \A p \in Publishers : WF_vars(Run(p)) /\ WF_vars(Approve(EnvelopeOf[p]))

-----------------------------------------------------------------------------
(* Properties.                                                             *)

\* Two publishers of a plan, whatever their versions, are never at work at the
\* same time unless the database dropped a fence session.
FenceExclusive ==
    ~sessionLost => \A p, q \in Publishers : pc[p] # "idle" /\ pc[q] # "idle" => p = q

\* Operations are attempted strictly in plan order: nothing is attempted before
\* every earlier operation is recorded as applied, also with two publishers that
\* both believe they hold the fence.
InOrder ==
    \A e \in Envelopes : \A i, j \in Ops :
        j < i /\ op[e][i] # "planned" => op[e][j] = "applied"

\* What the journal calls applied was committed by OpenProject.
AppliedHasEffect ==
    \A e \in Envelopes : \A i \in Ops :
        op[e][i] = "applied" /\ Kind[e][i] # "audit" => effects[e][i] > 0

\* No crash, lost response, late commit, resume or conflict retry applies a
\* mutation twice, not even with two publishers that both believe they hold the
\* fence; only a status change, which is idempotent, may be repeated.
EffectOnce ==
    \A e \in Envelopes : \A i \in Ops : Kind[e][i] # "status" => effects[e][i] <= 1

\* A completed publication is a published one.
CompletedIsPublished ==
    \A e \in Envelopes : publication[e] = "completed" =>
        \A i \in Ops : op[e][i] = "applied" /\ (Kind[e][i] # "audit" => effects[e][i] > 0)

\* An update never lands on a package whose managed content somebody else
\* changed after the snapshot, however late the request commits.
NoOverwrite ==
    [][\A e \in Envelopes : \A i \in Ops :
        Kind[e][i] \in Patches /\ effects'[e][i] # effects[e][i]
            => Package[e][i] \notin foreign[e]]_vars

\* The reasons for which a publication waits for an operator.
Blocked(e) ==
    \/ publication[e] = "absent" /\ e \in stale
    \/ foreign[e] # {}
    \/ \E i \in Ops : op[e][i] = "ambiguous"
    \/ \E i \in Ops : op[e][i] = "retryable" /\ effects[e][i] > 0

\* Repeated apply completes a publication whatever crashes, lost responses and
\* conflicts it meets, unless an edit, an ambiguous operation or a committed but
\* unverified one blocks it.
CompletesOrBlocked ==
    \A e \in Envelopes : <>(publication[e] = "completed" \/ Blocked(e))

\* The abstract state: visible effects, recorded operations, finished envelopes.
Shown == [e \in Envelopes |-> {i \in Ops : effects[e][i] > 0}]
Recorded == [e \in Envelopes |-> AppliedOps(e)]
Finished == {e \in Envelopes : publication[e] = "completed"}

Ordered == INSTANCE OrderedPublication WITH
    Visible <- [e \in Envelopes |-> [i \in Ops |-> Kind[e][i] # "audit"]],
    shown <- Shown,
    recorded <- Recorded,
    complete <- Finished

\* The journal and OpenProject together implement the ordered publication:
\* whatever publishers, requests and faults do, effects appear one by one in plan
\* order and none appears before its predecessor is recorded.
ImplementsOrdered == Ordered!Spec
=============================================================================
