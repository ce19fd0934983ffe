# Verification of the planning platform

TLA+ models of the planning platform's durable protocols, the TLC runs that
check them on small instances, and TLAPS proofs of their safety for every
instance.  Source paths are relative to `src/`; `lifecycle/`, `planner/` and the
bare file names stand for files under `src/src/planning_platform/`.

## 1. The system

An *Idea* in OpenProject is turned by a planner into a plan, a pull request that
people approve, and then into work packages.  Every step is carried by a durable
record in PostgreSQL and by calls to services that may fail half way.

| Component | State it keeps | Operations | Talks to |
|---|---|---|---|
| Webhook ingress (`lifecycle/ingress.py`, `webhooks.py`) | none | verify, seal, start a Windmill flow | Windmill |
| Delivery deduplication (`lifecycle/dedupe.py`) | `delivery_deduplications`: state, lease, claim token; one session advisory lock per claimed delivery | claim, renew, complete, retry, dead_letter, restore_dead_letter, recover_dead_letter | PostgreSQL |
| Delivery worker (`lifecycle/worker.py`, `concurrency.py`) | the claim, an effect task and a heartbeat task | execute_delivery | deduplication, lifecycle service |
| Windmill flows (`windmill/f/planning`) | retries left, current script | lifecycle job, failure module, dead-letter recovery | worker |
| Lifecycle store (`lifecycle/store.py`) | `plan_runs`, `implementation_pr_associations`, `audit` | begin, set_state, record_pull_request, approve, pending resume, bind and check evidence | PostgreSQL |
| Lifecycle service (`lifecycle/service.py`) | none of its own | one handler per event, nightly reconciliation, operator corrections | store, planner, GitHub, OpenProject, publisher |
| Planner (`planner/`) | idempotency claims, LangGraph checkpoints | start, resume, abandon, convert | PostgreSQL, a model |
| Plan diff, replan, validation (`diff.py`, `replan.py`, `validation.py`) | none | pure functions | - |
| Publisher (`publisher.py`) | the run in progress | publish, fresh or resumed | journal, adapter |
| Publication journal (`publication_journal.py`) | `publications`, `operations`; an advisory lock per plan | resume, begin, intent, outcome, failure, finalize | PostgreSQL |
| OpenProject adapter (`openproject_adapter.py`) | none; OpenProject holds packages and lockVersions | snapshot, apply, postcondition, lifecycle status, comments, alerts | OpenProject |
| Alert delivery (`alert_delivery.py`) | last transition per fingerprint under a lock | converge one alert package | OpenProject |

What is hard here is never one function.  A webhook is delivered twice and late;
a worker outlives its lease; a heartbeat runs beside the step that ends it; a
process dies between a journal entry and the request it announces; a response is
lost and the request commits later; people edit the same work packages; two
versions of a plan are published at once; an operator corrects a run while its
answer is redelivered.  `PROJECT.json` lists these hazards,
each at its line and with the properties that would show it going wrong.

What makes each component correct:

* *Deliveries*: one worker at a time per delivery, the row is settled only by its
  owner, no path leaks the lock, an effect is not repeated without a fault, and a
  delivery ends completed or dead-lettered.
* *Publication*: operations are attempted in order, none is committed twice or
  skipped, nobody's edit is overwritten, completed means published, and repeating
  an apply finishes the work.
* *Plan diff*: every operation's recorded precondition holds when its turn comes,
  and replaying the diff yields the approved plan.
* *Replan*: nothing outside the boundary is touched, also after a chain of replans.
* *Planner*: a response describes the state its
  own request produced, an answer is taken once, abandonment never discards a
  result, artifacts come only from an accepted and valid draft.
* *Plan runs*: publication only after verified approval evidence of the stored
  head and in the order of versions, one version in work, every question is asked,
  a recorded answer is replayed and never replaced.
* *Alerts*: one package per fingerprint, nothing older hides a newer transition, a
  person's text survives, every notification is delivered in the end.
* *Implementation evidence*: a merge is final, a check counts only for the current
  head, what a work package shows was true, every merge is shown in the end.

## 2. Modules

| Module | Models | Role |
|---|---|---|
| `DeliveryLease` | `lifecycle/dedupe.py`, `lifecycle/worker.py`, `lifecycle/concurrency.py`, the Windmill job, failure module and recovery flow | component |
| `DeliveryLeaseProofs` | - | theorems about `DeliveryLease` |
| `MCDeliveryLease` | two flows of one delivery and a recovery | instance for TLC |
| `Publication` | `publisher.py`, `publication_journal.py`, the publishing part of `openproject_adapter.py` | component |
| `OrderedPublication` | what publishing promises | abstract specification |
| `PublicationProofs` | - | theorems about `Publication` |
| `MCPublication` | one plan with two versions | instance for TLC |
| `Evidence` | the implementation pull requests of `lifecycle/store.py`, their handlers, projection and reconciliation in `lifecycle/service.py`, `set_lifecycle_state` of `openproject_adapter.py`, `pull_request_evidence` of `github_adapter.py` | component |
| `EvidenceProofs` | - | theorems about `Evidence` |
| `MCEvidence` | pull requests of one work package | instance for TLC |
| `PlannerGraph` | `planner/graph.py` | the nodes as operators on a checkpoint |
| `Planner` | `planner/service.py`, `planner/idempotency.py`, `planner/execution.py`, on top of `PlannerGraph` | component |
| `PlannerThread` | what the planner promises of one thread | abstract specification |
| `PlannerProofs` | - | theorems about `Planner` |
| `MCPlanner` | one start, two answers to one interrupt, one to the next | instance for TLC |
| `LifecycleRun` | `plan_runs` of `lifecycle/store.py`, the planning handlers of `lifecycle/service.py`, and what they see of planner, GitHub, journal and deliveries | composition |
| `LifecycleRunProofs` | - | theorems about the runs of `LifecycleRun` |
| `LifecyclePlanProofs` | - | theorems about the versions and questions of `LifecycleRun` |
| `MCLifecycleRun` | one Idea and the events that may reach it together | instance for TLC |
| `PlanGraph` | the graph rules of `validation.py`, and `replan.py` | operators |
| `PlanDiff` | `diff.py` and the publication of its operations, on top of `PlanGraph` | component |
| `PlanDiffProofs` | - | theorems about `PlanDiff` |
| `MCPlanDiff` | all plans over a few keys | instance for TLC |
| `AlertDelivery` | `alert_delivery.py`, `windmill/f/planning/alertmanager_delivery.py` and its flow, `ensure_operational_alert` of `openproject_adapter.py` | component |
| `AlertDeliveryProofs` | - | theorems about `AlertDelivery` |
| `MCAlertDelivery` | three webhook calls of two alerts, one of them firing, late and resolved | instance for TLC |

### DeliveryLease

One *flow* is a Windmill flow run: its `script` is the lifecycle job, after the
last failed retry the failure module, or the operator's recovery.  `row` is the
delivery's database row, `fence` the token whose session holds the advisory lock,
`pc` the point a script has reached, `beat` its heartbeat task.  Each statement
against the database is one action, because that is where other workers can come
in between:

| Action | Code |
|---|---|
| `AcquireFence`, `FenceRefused` | `_acquire_fence`, and what claim and recover_dead_letter do when it is refused |
| `Claim`, `ClaimRefused`, `ReadExisting` | the INSERT ... ON CONFLICT of claim, the UPDATE of recover_dead_letter, and the two reads of a row that was not acquired |
| `ClaimCancelled`, `ClaimError` | a cancellation that wins over the claim's result (`acquire_sync_owned`); a claim whose commit is in doubt |
| `Renew`, `RenewError` | one heartbeat; it may run at any time until `Cleanup` cancels it |
| `EffectSucceeds`, `EffectFails`, `HeartbeatFails` | the three ways `asyncio.wait` returns |
| `Complete`, `Retry`, `DeadLetter`, `FinalizeError` | finalization under the claim token, releasing the fence |
| `Cleanup` | the finally block, the runtime's close and the end of the script (`JobFails`: reschedule, then the failure module) |
| `LeaseExpires`, `Crash`, `FenceSessionLost` | the environment |

Time is not modelled: a live lease may expire at any moment, which covers every
clock and every length of lease.  A token is the number of fences taken so far,
which is as unique as a uuid4.

### Publication

`publication` and `op` are the two journal tables, `fence` the advisory lock of
the plan (shared by all its versions), `pc`, `at`, `known` and `resumed` a
publisher, `effects` and `lock` what OpenProject has committed.  What an operation
does to a package is abstracted to the two tests the code makes of it: `Pre`, the
checks before a request, and `Post`, the exact postcondition.  They are false as
soon as somebody else changed the package's managed content (`foreign`) or a later
operation of the same envelope did.  Five kinds of operation differ in what these
tests can see and in whether a request carries a lockVersion.  A request whose
sender gave up stays in `inflight` and may commit at any later moment, also after
another run has started.

The publisher's loop is split at each journal statement and each request
(`Load`, `Snapshot`, `Begin`, `Check`, `Intend`, `Apply`, `Reply`, `Conflict`,
`Refused`, `ResponseLost`, `AfterLoss`, `Verify`, `VerifyError`, `Outcome`,
`Finalize`), and `Recover` is the resumed path for an interrupted attempt.
`Crash` ends a run at any of these points.

`OrderedPublication` knows no publishers, requests or failures: effects become
visible one at a time in plan order, each is recorded after it is visible and
before the next one is.  The refinement mapping takes the operations with an
effect, the operations recorded as applied, and the completed publications.

### Evidence

`gh` and `green` are GitHub: head, state and merge of each pull request, and the
heads whose required checks pass (`everGreen`, a history variable, remembers the
ones that ever did).  Every change there sends a webhook that joins `sent` for
ever: it may be handled at any later time, any number of times, in any order, or
never, which is what redelivery, retries of a job and lost webhooks amount to.
`assoc` is the table of associations, `package` the work package they all belong
to.  A head is the number of pushes so far, a time is a second of GitHub's clock.

A worker's job runs through `pc`, and other workers can come in between at every
database statement and every request:

| Action | Code |
|---|---|
| `HandlePull`, `HandleCheck`, `StartReconcile` | the three ways in, with their early returns |
| `Scan`, `Scanned` | the loop over associations of `_reconcile` and the projection after it |
| `ReadPull`, `ReadChecks`, `EvidenceFails` | the requests of `pull_request_evidence`; reconciliation goes on after a failure, a handler raises |
| `BindFacts` | the transaction of `bind_implementation_pull_request`: `Mismatch` are its raises, `Bound` its result |
| `Record` | `record_implementation_check_result`, for the head that was read |
| `ReadAssociations`, `Resolve` | `_project_implementation_work_package` up to its decision |
| `Get`, `Patch` | `set_lifecycle_state`: its own read, and the request under the lockVersion of that read |
| `Edit`, `Crash` | a person's status change, a process that dies |

`Proposed` ranks with `Ready` and is left out; `Done` stands for every terminal
status and `Blocked` for every other status without a rank.  The identity checks
of an association compare values that no event of the model changes.  A check
delivery names one pull request (the code loops over them).  Reconciliation's
planning part, which runs before the scan and may raise, is assumed to have
succeeded.

### Planner and PlannerGraph

`cp` is the thread's latest checkpoint: the node that comes next, the pending
interrupt, the answer consumed last, the critique's attempts and verdict, validity,
artifacts and status.  `PlannerGraph` has one operator per node, which returns the
set of checkpoints the node may leave, because the model's answers are input;
`Routed` is the conditional edge after the critique with its two attempts.  An
interrupt is known by what its digest covers: the questions, or the critique
together with the answer consumed before it.

`claims` and `bindings` are the two tables, `guard` is the session advisory lock.
The lock's connection also writes the checkpoints, so a process that lost it stops
at its next checkpoint; claims, tombstones and responses go through a pool and do
not notice.  That difference is why every handler is split where it is:

| Action | Code |
|---|---|
| `start`, `ReadForResume`, `resume` | the guard and what the two handlers do up to their claim; `claim` inserts, takes over an expired claim, or refuses |
| `_run_or_recover_start`, `_run_or_recover_resume` | the decision between serving the checkpoint, running on and answering the interrupt |
| `RunNode`, `Respond` | `ainvoke`: one node with its checkpoint, and its end |
| `Complete`, `_with_heartbeat` | `finalize` under the claim's token; one beat, which cancels the operation when the claim is gone |
| `ReadForAbandon`, `Tombstone`, `Rewind` | `abandon_terminal_resume`, in three steps on two connections |
| `convert_failed_critique_to_interrupt` | the correction of threads which an earlier release left failed (`Legacy` in `Init`) |
| `Abort`, `LoseConnection`, `ExpireLease` | a raise, a cancellation or a crash; a dead session; any clock |

`PlannerThread` knows no processes or leases: an interrupt is raised, answered once,
the answer is settled or abandoned for good, and only an abandoned answer is taken
back.  The mapping reads `dead` and `settled` off the claims.

### LifecycleRun

A worker steps from await to await with the row it read first; each store call is
one step with the guard of its UPDATE (`set_state` compares with the state that was
read, `record_pending_resume` with the marker).  Deliveries are the ones of
`DeliveryLease`: one worker at a time, unless the database dropped the fence
(`Unfenced`), retried or dead-lettered after a failure at any step.  The planner is
abstracted to what its clients can see, an operation that succeeds or leaves its
claim open on the way, with the rules of `Planner` for what is replayed and what is
refused; the journal to its key (approval event and version), which is what makes a
second approval event of a published version fail.  `Init` includes the two kinds
of runs that an earlier release may have left behind, for which the corrections
exist.

| Action | Code |
|---|---|
| `_work_package_changed`, `_replan_affected_subgraph`, `Begin`, `NeedsRepository`, `PlannerStart`, `PlannerGet` | the ways into a new or an existing version |
| `_planning_input`, `ReadInterrupt`, `RecordPendingResume`, `PlannerResume`, `ClearPendingResume` | a comment, with the marker around the resume |
| `HandleResponse`, `SettleResponse`, `EnsurePullRequest`, `RecordPullRequest` | `_handle_planner_response` |
| `_pull_request`, `_reconcile`, `Approve`, `BindArtifact`, `OpenJournal`, `Publish`, `RecordPublished`, `RecordBlocked` | the merge gate and publication, for a webhook and for the night |
| `abandon_terminal_resume`, `PlannerAbandon`, `CompleteAbandonment`; `convert_failed_critique_to_interrupt`, `PlannerConvert`, `CompleteCorrection`, `_ensure_interrupt_side_effects` | the two operator corrections |
| `Merge`, `Retry`, `DeadLetter` | people, failures and crashes |

### PlanGraph and PlanDiff

A plan is a function from keys to items with a type, a parent and relations.
`validate_plan`, the replan operators and `plan_diff` are translated as operators;
`_has_cycle` and `_selected_root_owner` are stated without the code's recursion.
A package keeps what `managed_hash` covers (here the item's type and the version its
node carries), its parent, which may be somebody's own, its relations and the id by
which OpenProject orders a symmetric one.  `publish` computes the operations from
the packages of that moment (`snapshot`), `apply` makes the publisher's and the adapter's checks and writes,
`Refuse` is their failure; `Move` and `Unrelate` are people, before and during the
publication.  Journal and faults are `Publication`'s.

### AlertDelivery

A call is a Windmill flow that goes through its alerts, each under the
fingerprint's transaction lock: `Lock` (with the stale check under it), `Find`,
`Create` or `Patch` with `Conflict`, `Lost` and `Recover`, and `Commit` of the audit
row.  A raise ends the transaction and starts the whole body again (`Failed`), and
after the last attempt the answer is 503, so that `Deliver` happens again.  `Die` is
a dead worker; `LoseConnection` takes the lock from a worker that does not notice
before `Commit`, and `torn` remembers for which fingerprints it happened.

The adapter calls a write whose answer it did not get *possibly committed*, and the
body is repeated all the same.  A request that `Lost` or `Die` gives up before
OpenProject has committed it therefore joins `inflight`, and `LateCommit` may commit
it at any later moment, or never: a creation always (`LateCreate`), an update as long
as its lockVersion is current (`LatePatch`; every other write to the package takes it
out of `inflight`).  `overtaken` remembers the fingerprints at which such a commit
came out of its turn: a creation when there was a package already, or when a call had
found none and was about to create one, an update when the package had been showing a
newer transition.  `Disturbed` is `torn` and `overtaken` together.

`Edit` is a person who writes into the description or changes the fingerprint field.
A change of status by hand, the deletion of a package and broken markers in its
description are left out.

## 3. Runs

| Run | Checks | Result |
|---|---|---|
| `delivery_lease` | exclusive effects, ownership of the row, no leaked fence, completion after the effect, at most one effect without faults, settlement only by the owner | holds |
| `delivery_lease_live` | every flow ends; without faults a delivery is settled, unless a late heartbeat revived a lease | holds |
| `publication` | order, evidence, at-most-once, one publisher per plan, completed means published, no edit overwritten, refinement of `OrderedPublication` | holds |
| `publication_live` | repeated apply completes or is blocked for a stated reason | holds |
| `evidence` | a success belongs to the current head, shown evidence was true, a merge is sticky | holds |
| `evidence_live` | the schedule alone projects every merge of an associated pull request | holds |
| `planner` | responses made from the request's own state, artifacts only from an accepted draft, refinement of `PlannerThread` | holds |
| `planner_restore` | an abandoned answer is rewound to the interrupt it answered | violated, finding 1 |
| `lifecycle` | published versions are reviewed, bound, applied and in order; one version in work; questions asked; answers kept | holds |
| `diff` | the operations fit one after the other and converge, a second publication is empty, a replan stays local, nobody's move is undone | holds |
| `diff_parent` | no recorded precondition fails without somebody's change | violated, finding 2 |
| `alert` | nothing older hides what was answered and one package per fingerprint, unless the fingerprint is disturbed; text kept; every notification delivered unless a package's identity stays unclear | holds |

Bounds.  `delivery_lease` has two interchangeable flows and a recovery flow of one
delivery (deliveries share nothing, so one shows what any number do), one retry,
so that both the rescheduled job and the failure module run, and one fault at any
place.  `publication` has two publishers of one three-operation envelope that
creates a package, updates another and records the audit, a publisher of the next
version, whose operations supersede the package that the first one updates and
relate the one that it creates, one fault, and two edits (one that makes a request
conflict and one that makes its retry conflict); `publication_live` has one
publisher and two faults (a crash during the recovery from a lost response needs
two).  Fewer operations would leave no one to be before and after the one at fault;
more repeat the same steps.  `evidence` has one handler beside the reconciliation
(the shortest race between two jobs), two pull requests, which nothing tells apart
(symmetry), and three changes in two seconds, enough for a push, a check and a
second push, merge or reopening, two of them in one second.  `evidence_live` has one
pull request that is pushed and merged, closed or checked, with one failure and one
edit at any place.

`planner` has two interchangeable processes, two answers to the first interrupt, so
that one can lose, an answer to the critique that follows, one dead session, and any
number of aborts and expired leases: the thread goes through two interrupts and back
by a rewind.  `lifecycle` has two interchangeable workers, three versions and two
interrupts; `Arrivals` are the sets of events that may meet (two comments and a
merge, merges with a night and a replan, two replans and a night, a change of
status by a person and by the service), because events outside a set would only
find the run elsewhere and multiply the states.  Failures and retries are not
bounded.  `diff` has every valid plan over three keys with an epic and at most one
relation of three kinds, a reversed, a directed and the symmetric one (the other kinds
are stored like the directed one), every replan of every such plan, also with a node that an earlier version left, and one
edit.  `diff_parent` and `planner_restore` are as small as their counterexamples
allow.  `alert` has a firing notification, a later one and a resolution of the same
instant with a second alert in its body, two attempts (the flow has three; after the
last, Alertmanager calls again, so the number of attempts only decides when), two
faults (a lost answer and a dead worker, two requests in flight, or a lost connection
and what follows) and one edit, enough for an update that conflicts or a field that
is gone (a field that comes back, and two conflicts by people alone, are left to the
proofs).  One fault is enough for a creation that is overtaken, two for an update.

The proofs below remove the bounds for the safety of every component.

Fairness.  In `delivery_lease_live` the steps of a worker are weakly fair: Windmill
runs what it scheduled, and each effect ends because its calls have timeouts.  No
fairness is assumed of the heartbeat, of lease expiry or of faults.  In
`publication_live` the steps of a publisher are weakly fair and a publisher that
ended is started again, as the command line, the retries of a job and an operator
do; requests in flight and people owe nothing.  In `evidence_live` a job that
started goes on, the nightly schedule keeps firing in a process of its own, and time
passes up to its bound (`MaxTime`, at which nothing happens any more, so that the
last reconciliations are later than every change); webhooks need not arrive.  In
`alert` the steps of a call are weakly fair, Alertmanager repeats a notification
that was answered 503 (weak fairness of `Deliver`), and `Lock` is strongly fair,
because PostgreSQL queues the waiters of an advisory lock; requests in flight and
people owe nothing.

Runs without a deadlock check: plan runs, threads, publications and alerts come to
an end (published, failed, blocked, delivered), after which nothing need happen.

### Findings

1. `planner_restore`: `abandon_terminal_resume` restores the values of the checkpoint
   before the answer, but always as the node `identify_consequential_questions`
   (`planner/service.py:254-258`).  A critique's interrupt that came before any answer
   is then answered at `human_interrupt_when_required`, and the thread drafts the
   backlog again instead of revising it; `docs/planner.md:83-84` promises the exact
   interrupt.
2. `diff_parent`: the comment at `diff.py:258-259` says that later operations see the
   hierarchy after the parent operation.  They see the new identity, but
   `expected_unmanaged_parent` still comes from the snapshot, so a package that a
   person put under a parent of their own and that gets both a parent and a relation
   blocks its own publication.

### Observations

Met while modelling; the properties name them as exceptions, or the hazards do.

* `worker.py:104-122`: the heartbeat is cancelled after `retry()` expired the lease,
  so a renewal in between revives the lease of a failed attempt (`DeliverySettles`
  excepts it; `docs/operations.md:102-103`).
* `openproject_adapter.py:1846`: a write that OpenProject acknowledged and whose
  read-back raises is journaled as retryable, and no resume can go on
  (`CompletesOrBlocked` counts it as blocked).
* `openproject_adapter.py:1862`: a crash between intent and outcome of `record_audit`
  leaves a fully applied publication ambiguous (likewise).
* `lifecycle/service.py:2109-2120`: the rank is compared with a status read before
  `set_lifecycle_state` reads the package again, so a slow projection can move a
  status backward (`docs/contracts.md:30-33` says never).
* `lifecycle/store.py:1580`: a merge that is seen while the association has an older
  head keeps that head for good.
* `lifecycle/service.py:1366`: a second approval event of a version whose operations
  are all applied blocks its run, and no operation leads out of blocked by itself.
* `diff.py:273-316`: a relation that replaces another one of the same stored pair is
  created before the other is removed, and a node that is gone keeps its relations;
  both block (`OperationsFit` excepts them).
* `planner/service.py:236-245`: the answer to a second interrupt cannot be abandoned.
* A critique correction may open an older version beside a newer one
  (`OneActive` and `PublishedInOrder` except such versions).
* `alertmanager_delivery.py:51`: with the database connection the fingerprint's lock
  is lost while the exchange with OpenProject goes on (`torn`).
* `openproject_adapter.py:1180-1203`: a creation given up as possibly committed is
  repeated with the body of the flow; when OpenProject commits the first one after the
  repetition has searched, the fingerprint has two packages and every later call raises
  until a person removes one.  `docs/operations.md:144-146` promises a single package.
  TLC finds it with one fault as soon as `OnePackage` does not except `overtaken`
  (likewise `AnsweredShown` the next one).
* `openproject_adapter.py:1297-1323`: an update given up as possibly committed keeps its
  lockVersion.  When the call that follows finds the package as it should be, and so
  writes nothing, the update may still commit and take the package back to an older
  state.  `docs/operations.md:149-150` says that an older firing notification cannot
  reopen a resolved alert.  TLC finds it with two faults.

## 4. Proofs

All theorems are proved by TLAPS for arbitrary sets of deliveries, flows,
envelopes, publishers, packages, processes, requests, workers, events, calls and
plans, any number of operations, retries, versions, interrupts, faults and edits.
The assumptions (`DeliveryLeaseAssumption`, `PublicationAssumption`,
`EvidenceAssumption`, `PlannerAssumption`, `LifecycleAssumption`,
`EnvelopeAssumption`, `PlanAssumption`, `DiffAssumption`) say that the constants have
their types and that values which stand for nothing are none of the others.  Beyond
that: different kinds of requests and events are different (`Starts` and `Resumes`,
`Changes` and `Replans`), a start request's key is no comment's, the body of a call is
one that `alertmanager_envelope` admits, the plans that may have been published
before passed `validate_plan`, and keys are finitely many.

`DeliveryLeaseProofs`.  The invariant has two halves.  `FenceInv`: tokens in use
were issued and are different, and whoever is between taking and releasing the
fence holds it unless its session was lost.  That is what makes `EffectExclusive`
and `OwnerKeepsRow` inductive: the row can change hands only through a claim, and
a claim needs the fence.  `EffectInv` connects the count of finished effects with
where flows are: who is about to complete has an effect behind it, and without
faults an effect that is not yet finished implies that none finished before.

`PublicationProofs`.  `OrderInv` says that a publisher at operation i has every
earlier one recorded as applied; with it `InOrder` is inductive even when two
publishers both believe they hold the fence, because the journal refuses an intent
on anything but a planned or retryable operation.  `AttemptInv` and `RequestInv`
say which journal states allow a request to be under way or in flight, so that a
second request for an operation implies that the first is gone; `EvidenceInv` that
whoever records an outcome has seen the effect; `LockInv` that a lockVersion that
is current was read after the last foreign change.  `PublicationImplementsOrdered`
follows from these step by step.

`EvidenceProofs`.  Every copy of a fact, in a webhook, in a worker, in an
association or in a projection on its way, may be old.  `EvidenceInv` says of each
copy that it was true once (`MergesTrue`, `ChecksTrue`, `ProjectionsTrue`) and that
nothing is known of a pull request nobody opened (`PullsOpened`), and GitHub's
changes keep that, because a merge is final and `everGreen` only grows.  The
lemmas `BoundFacts` and `BoundAfterMerge` say what the bind transaction does to an
association; `LocalStep` reduces every worker action to the values it leaves in its
own entry.  `MergesStaySticky` follows from `BoundAfterMerge`.

`PlannerProofs`.  Two things protect a thread: the session lock, which a process may
lose without knowing, and the claim, which another process may take over.
`PlannerInv` says what a checkpoint has earned by its place in the graph (`Earned`,
with one lemma per node), what each process knows (`Knows`), and what only the holder
of the lock may rely on (`Holds`).  `DigestsOrdered` and `TakenAbandoned` carry the
refinement: a digest covers only answers taken before it, so an interrupt that was
answered waits again only after a rewind, and the tombstone comes before the rewind.
`ImplementsThreadAlways` maps every step to a step of `PlannerThread` or a stutter.

`LifecycleRunProofs`.  A worker acts on what it read some awaits ago.  `RunInv` says
what each place of a worker knows (`Knows`), and every conjunct of it is about
something that only grows (`Grows`: an approval, a binding, a merge, an applied
publication, a completed or abandoned claim) or is compared again by the store's
UPDATE.  `PublishedEarned` is a part of it.  For `AnswerKept`, whoever clears a marker
has the planner's completed or abandoned claim of the same comment.

`LifecyclePlanProofs`.  `OrderInv`: a worker at `begin` decided by the latest version,
and what it decided by stays true, because a terminal version is terminal for good
unless an earlier release left its thread failed (`Past`, `Follows`).  `OneActive` and
`PublishedInOrder` follow.  `AskedInv`: the interrupt of a waiting run was asked, or
the marker replays the request that raised it (`Replays`); the first interrupt is
asked before the run waits at all, an abandoned answer gives back a question that was
asked, and corrections come one at a time.

`PlanDiffProofs`.  The library's induction theorems are out of the provers' reach,
so the facts about lists (`InOrderLists`, `SetToSeqLists`, `FlattenOccurs`) are derived
from a least-number principle proved for sets (`LeastNumber`).  `DiffLists` then says
what `plan_diff` lists: only operations with a reason in plan and snapshot
(`Reasoned`), and every operation that a node needs (`Serves`).  The invariant
`Progress` says of a package that nobody touched that each of its parts is the
snapshot's or the plan's, and the plan's once an operation was at it; that holds
in whatever order operations are listed, because each writes one part.  Once all
are done this is `Converges`, and over converged packages no operation has a reason,
which is `ReapplyIsEmpty`.  `ReplanIsLocal` needs that a protected node is asked for
nothing new: its binding is kept by the scope, and its symmetric relations, which the
other end may declare, by the comparison of crossing edges (`SymmetricEdges`,
`ProtectedAsks`).  `MovesKept` comes from the preconditions that `set_parent` carries.

`OperationsFit` does depend on the order of the list.  `DiffFits` says that order
(`Ordered`: nodes are created first, the operations of one node come by their rank,
and of two relations the later expects the earlier done) and what each operation
expects in terms of plan and snapshot (`Expected`).  The invariant `FitInv` has of every
untouched package what the operations so far have made of it, as an equation and not as
a bound (`Exact`), and that the snapshot is `Sound`: a package has a hash and its
relations lead to packages.  The next operation then finds the text, the parent and the
relations that it expects (`TextDone`, `ParentDone`, `RelationsDone`, `CurrentHolds`),
because what ranks lower is done (`Earlier`) and what does not is not (`NotYet`); its
target is there (`StillThere`); and its stored pair is free (`PairFree`), because two
relations of a valid plan never share one (`OnePair`), and a relation that the plan does
not have would be one that is retyped, which the property excepts.

`AlertDeliveryProofs`.  As long as a fingerprint is undisturbed, whoever is between
`Lock` and `Commit` holds the lock and is alone (`LockHeld`), so what it read is still
true when it writes (`ReadsTrue`, `CreatesFirst`, `WritesCurrent`), unless a request in
flight commits meanwhile; of those `InFlightTrue` says that an update carries the text
of the version that it would replace.  `LateKeeps` says that a commit that overtakes
nobody leaves everything else as it was.  `RowsShown` and `SettledCovered` connect a
call's answered alerts with the rows of the audit and those with the package; the order
of transitions is shown to be total and transitive.  `TextKept` holds for disturbed
fingerprints too, from the lockVersion of the update.

Only model-checked: the liveness properties (`DeliverySettles`, `FlowsEnd`,
`CompletesOrBlocked`, `MergeProjected`, `Delivered`), which need fairness and ENABLED.

## 5. What is left out, and the plan

Not modelled because it has no state or no control of its own: HTTP plumbing, hash
computations, schema DDL and checks, rendering, discovery, the planner's HTTP layer,
the command line, the offline evaluations.  The in-memory twins used by tests are not
modelled either.  Left for lack of a property that would tell the difference: the
rules of `validate_plan` about an item's wording and evidence, the comments and status
that the lifecycle shows on the Idea, the drift report of the night, the v5 migration
of the journal.

Simplifications inside the modelled parts, none of which a property depends on:
`Publication.Approve` is the environment, without the envelope and boundary checks of
`publisher.py` (`PlanDiff` has the boundary); `LifecycleRun` reads the replan context
and takes the journal's fence in one step (`OpenJournal`), ends a delivery with its
last store write, the comments and audit entries after it included (`Return`), does not
recover a delivery from the dead letters, and knows as runs of an earlier release only
a version 1 with an exhausted answer and a replan that failed for another reason;
`PlanGraph._cross_boundary` has no mutex.

Planned: the blocked-status transitions of reconciliation as a module of their own.
