------------------------------ MODULE Evidence ------------------------------
(***************************************************************************)
(* Implementation evidence: from GitHub to the status of a work package.   *)
(*                                                                         *)
(* Pull requests and checks of a repository arrive as webhooks, late,      *)
(* twice, in any order or never; a nightly reconciliation reads GitHub     *)
(* itself.  Each handler binds what it knows to the pull request's durable *)
(* association, records the check result, aggregates all associations of   *)
(* the work package and projects them on its status and evidence field.    *)
(*                                                                         *)
(* All pull requests here belong to one work package, which nothing but    *)
(* the projection connects with others.  A head is the number of pushes so *)
(* far; a time is GitHub's clock, in the seconds its timestamps carry.     *)
(***************************************************************************)
EXTENDS Naturals, FiniteSets

CONSTANTS
    Pulls,        \* implementation pull requests of the work package
    Workers,      \* processes: the handlers of webhooks and the reconcilers
    Reconcilers,  \* the processes the schedule starts, for reconciliation only
    MaxTime,      \* bound on GitHub's clock; nothing changes at the last second
    MaxChanges,   \* bound on what happens in GitHub
    MaxEdits,     \* bound on what people do to the work package
    MaxFaults     \* bound on handlers that die

ASSUME EvidenceAssumption ==
    /\ Reconcilers \subseteq Workers
    /\ MaxTime \in Nat
    /\ MaxChanges \in Nat
    /\ MaxEdits \in Nat
    /\ MaxFaults \in Nat

VARIABLES
    now,        \* GitHub's clock
    gh,         \* GitHub: head, state and merge of a pull request
    green,      \* GitHub: the heads whose required checks pass
    everGreen,  \* history: the heads whose required checks ever passed
    sent,       \* the webhooks sent so far
    assoc,      \* planning_lifecycle.implementation_pr_associations
    package,    \* OpenProject: status, evidence and lockVersion
    pc, job, todo,  \* a worker: place, delivery, associations left to scan
    facts,      \* what a worker read of a pull request
    desired,    \* the status and evidence a worker projects
    seen,       \* the lockVersion a worker's request carries
    changes, edits, faults

github == <<now, gh, green, everGreen, sent, changes>>
worker == <<job, todo, facts, desired, seen>>
vars == <<github, assoc, package, pc, worker, edits, faults>>

NoHead == 0
None == "none"

\* Proposed ranks with Ready; the other terminal statuses behave like Done.
Statuses == {"Ready", "In Progress", "Review", "Blocked", "Done"}
Terminal == {"Done"}
Evidences == {"pending", "pr_open", "check_passed", "pr_merged", "pr_closed"}
PullStates == {"open", "closed"}

PullFacts == [head : Nat, state : PullStates, merged : BOOLEAN]
Facts == [pull : Pulls \union {None}, head : Nat, state : PullStates, merged : BOOLEAN,
          green : BOOLEAN]
Events == [kind : {"pull_request", "check_run"}, pull : Pulls, head : Nat,
           state : PullStates, merged : BOOLEAN, at : Nat]
Association == [bound : BOOLEAN, head : Nat, observed : Nat, state : PullStates,
                merged : BOOLEAN, success : Nat]
Jobs == [kind : {None, "pull_request", "check_run", "reconcile"}, at : Nat]
Projections == [status : Statuses \union {None}, evidence : Evidences \union {None}]
Pcs == {"idle", "scan", "evidence", "checks", "bind", "record", "project", "resolve",
        "get", "patch"}

TypeOK ==
    /\ now \in 0..MaxTime
    /\ gh \in [Pulls -> PullFacts]
    /\ green \subseteq Pulls \X Nat
    /\ everGreen \subseteq Pulls \X Nat
    /\ sent \subseteq Events
    /\ assoc \in [Pulls -> Association]
    /\ package \in [status : Statuses, evidence : Evidences, lock : Nat]
    /\ pc \in [Workers -> Pcs]
    /\ job \in [Workers -> Jobs]
    /\ todo \in [Workers -> SUBSET Pulls]
    /\ facts \in [Workers -> Facts]
    /\ desired \in [Workers -> Projections]
    /\ seen \in [Workers -> Nat]
    /\ changes \in 0..MaxChanges
    /\ edits \in 0..MaxEdits
    /\ faults \in 0..MaxFaults

-----------------------------------------------------------------------------
NoJob == [kind |-> None, at |-> 0]
NoFacts == [pull |-> None, head |-> NoHead, state |-> "open", merged |-> FALSE, green |-> FALSE]
Nothing == [status |-> None, evidence |-> None]

Init ==
    /\ now = 0
    /\ gh = [p \in Pulls |-> [head |-> NoHead, state |-> "open", merged |-> FALSE]]
    /\ green = {}
    /\ everGreen = {}
    /\ sent = {}
    /\ assoc = [p \in Pulls |-> [bound |-> FALSE, head |-> NoHead, observed |-> 0,
                                 state |-> "open", merged |-> FALSE, success |-> NoHead]]
    /\ package = [status |-> "Ready", evidence |-> "pending", lock |-> 0]
    /\ pc = [w \in Workers |-> "idle"]
    /\ job = [w \in Workers |-> NoJob]
    /\ todo = [w \in Workers |-> {}]
    /\ facts = [w \in Workers |-> NoFacts]
    /\ desired = [w \in Workers |-> Nothing]
    /\ seen = [w \in Workers |-> 0]
    /\ changes = 0
    /\ edits = 0
    /\ faults = 0

-----------------------------------------------------------------------------
(* GitHub: what happens there, and the webhook it sends.                   *)

Happens(p, kind, value) ==
    /\ now < MaxTime
    /\ changes < MaxChanges
    /\ changes' = changes + 1
    /\ gh' = [gh EXCEPT ![p] = value]
    /\ sent' = sent \union {[kind |-> kind, pull |-> p, head |-> value.head,
                             state |-> value.state, merged |-> value.merged, at |-> now]}
    /\ UNCHANGED <<now, assoc, package, pc, worker, edits, faults>>

\* The first push opens the pull request.
Push(p) == /\ gh[p].state = "open"
           /\ Happens(p, "pull_request", [gh[p] EXCEPT !.head = @ + 1])
           /\ UNCHANGED <<green, everGreen>>

Close(p) == /\ gh[p].state = "open" /\ gh[p].head # NoHead
            /\ \E m \in BOOLEAN :
                  Happens(p, "pull_request", [gh[p] EXCEPT !.state = "closed", !.merged = m])
            /\ UNCHANGED <<green, everGreen>>

Reopen(p) == /\ gh[p].state = "closed" /\ ~gh[p].merged
             /\ Happens(p, "pull_request", [gh[p] EXCEPT !.state = "open"])
             /\ UNCHANGED <<green, everGreen>>

\* The required checks of the current head complete, well or badly.
CheckCompletes(p) ==
    LET head == <<p, gh[p].head>> IN
    /\ gh[p].head # NoHead
    /\ Happens(p, "check_run", gh[p])
    /\ \/ green' = green \union {head} /\ everGreen' = everGreen \union {head}
       \/ green' = green \ {head} /\ UNCHANGED everGreen

Tick ==
    /\ now < MaxTime
    /\ now' = now + 1
    /\ UNCHANGED <<gh, green, everGreen, sent, changes, assoc, package, pc, worker,
                   edits, faults>>

-----------------------------------------------------------------------------
(* bind_implementation_pull_request: one transaction on the locked row.    *)

Differs(a, f) == f.head # a.head \/ f.state # a.state

\* The transaction raises: two facts at one time, or a new head after the merge.
Mismatch(a, f, at) ==
    /\ a.bound
    /\ \/ at = a.observed /\ Differs(a, f)
       \/ a.merged /\ f.head # a.head

\* Mutant: a merged pull request is still replaced by later observations.
ReplacesAfterMerge(a, f, at) ==
    ~f.merged /\ at > a.observed /\ Differs(a, f)

\* Only a later observation of an unmerged pull request replaces head and state.
Replaces(a, f, at) ==
    ~a.merged /\ ~f.merged /\ at > a.observed /\ Differs(a, f)

Inserted(f, at) ==
    [bound |-> TRUE, head |-> f.head, observed |-> at, state |-> f.state,
     merged |-> f.merged, success |-> NoHead]

Merged(a, f) ==
    [a EXCEPT !.merged = a.merged \/ f.merged,
              !.state = IF a.merged \/ f.merged THEN "closed" ELSE @]

\* Mutant: a new head keeps the successful check of the old one.
BoundKeepingSuccess(a, f, at) ==
    IF ~a.bound THEN Inserted(f, at)
    ELSE IF Replaces(a, f, at)
         THEN [a EXCEPT !.head = f.head, !.observed = at, !.state = f.state]
         ELSE Merged(a, f)

Bound(a, f, at) ==
    IF ~a.bound THEN Inserted(f, at)
    ELSE IF Replaces(a, f, at)
         THEN [a EXCEPT !.head = f.head, !.observed = at, !.state = f.state,
                        !.success = IF f.head # a.head THEN NoHead ELSE @]
         ELSE Merged(a, f)

-----------------------------------------------------------------------------
(* The handlers.                                                           *)

Goto(w, l) == pc' = [pc EXCEPT ![w] = l]

\* The handler returns or raises.
Leave(w) ==
    /\ Goto(w, "idle")
    /\ job' = [job EXCEPT ![w] = NoJob]
    /\ todo' = [todo EXCEPT ![w] = {}]
    /\ facts' = [facts EXCEPT ![w] = NoFacts]
    /\ desired' = [desired EXCEPT ![w] = Nothing]
    /\ seen' = [seen EXCEPT ![w] = 0]

\* A job begins with what its delivery says.
Begin(w, e, l) ==
    /\ Goto(w, l)
    /\ job' = [job EXCEPT ![w] = [kind |-> e.kind, at |-> e.at]]
    /\ facts' = [facts EXCEPT ![w] = [pull |-> e.pull, head |-> e.head, state |-> e.state,
                                      merged |-> e.merged, green |-> FALSE]]
    /\ UNCHANGED <<todo, desired, seen>>

\* A pull-request delivery: an association exists, or the node is active.
HandlePull(w, e) ==
    /\ pc[w] = "idle"
    /\ e.kind = "pull_request"
    /\ assoc[e.pull].bound \/ package.status \notin Terminal
    /\ Begin(w, e, "bind")
    /\ UNCHANGED <<github, assoc, package, edits, faults>>

\* A check-run delivery counts only for the associated head.
HandleCheck(w, e) ==
    /\ pc[w] = "idle"
    /\ e.kind = "check_run"
    /\ assoc[e.pull].bound
    /\ assoc[e.pull].head = e.head
    /\ Begin(w, e, "evidence")
    /\ UNCHANGED <<github, assoc, package, edits, faults>>

\* The schedule fires: every association is scanned.
StartReconcile(w) ==
    /\ pc[w] = "idle"
    /\ job' = [job EXCEPT ![w] = [kind |-> "reconcile", at |-> now]]
    /\ todo' = [todo EXCEPT ![w] = {p \in Pulls : assoc[p].bound}]
    /\ Goto(w, "scan")
    /\ UNCHANGED <<github, assoc, package, facts, desired, seen, edits, faults>>

\* The next association.
Scan(w) ==
    /\ pc[w] = "scan"
    /\ \E p \in todo[w] :
          /\ todo' = [todo EXCEPT ![w] = @ \ {p}]
          /\ facts' = [facts EXCEPT ![w] = [NoFacts EXCEPT !.pull = p]]
    /\ Goto(w, "evidence")
    /\ UNCHANGED <<github, assoc, package, job, desired, seen, edits, faults>>

\* Mutant: reconciliation repairs the associations and does not project them.
ScannedWithoutProjection(w) ==
    /\ pc[w] = "scan"
    /\ todo[w] = {}
    /\ Leave(w)
    /\ UNCHANGED <<github, assoc, package, edits, faults>>

\* All are scanned: the work package is projected if it has an association.
Scanned(w) ==
    /\ pc[w] = "scan"
    /\ todo[w] = {}
    /\ \/ (\E p \in Pulls : assoc[p].bound) /\ Goto(w, "project") /\ UNCHANGED worker
       \/ (\A p \in Pulls : ~assoc[p].bound) /\ Leave(w)
    /\ UNCHANGED <<github, assoc, package, edits, faults>>

\* pull_request_evidence reads the pull request; a check-run delivery expects
\* its own head there ...
ReadPull(w) ==
    LET p == facts[w].pull IN
    /\ pc[w] = "evidence"
    /\ \/ /\ job[w].kind = "check_run"
          /\ gh[p].head # facts[w].head
          /\ Leave(w)
       \/ /\ job[w].kind = "check_run" => gh[p].head = facts[w].head
          /\ facts' = [facts EXCEPT ![w] = [pull |-> p, head |-> gh[p].head,
                          state |-> gh[p].state, merged |-> gh[p].merged, green |-> FALSE]]
          /\ Goto(w, "checks")
          /\ UNCHANGED <<job, todo, desired, seen>>
    /\ UNCHANGED <<github, assoc, package, edits, faults>>

\* ... and then the check runs of that head.
ReadChecks(w) ==
    /\ pc[w] = "checks"
    /\ facts' = [facts EXCEPT ![w].green = <<facts[w].pull, facts[w].head>> \in green]
    /\ Goto(w, "bind")
    /\ UNCHANGED <<github, assoc, package, job, todo, desired, seen, edits, faults>>

\* GitHub cannot be read: reconciliation goes on with the next association.
EvidenceFails(w) ==
    /\ pc[w] \in {"evidence", "checks"}
    /\ faults < MaxFaults
    /\ faults' = faults + 1
    /\ \/ job[w].kind = "reconcile" /\ Goto(w, "scan") /\ UNCHANGED worker
       \/ job[w].kind # "reconcile" /\ Leave(w)
    /\ UNCHANGED <<github, assoc, package, edits>>

BindFacts(w) ==
    LET p == facts[w].pull
        mismatch == Mismatch(assoc[p], facts[w], job[w].at)
    IN
    /\ pc[w] = "bind"
    /\ \/ /\ mismatch
          /\ UNCHANGED assoc
          /\ \/ job[w].kind = "reconcile" /\ Goto(w, "scan") /\ UNCHANGED worker
             \/ job[w].kind # "reconcile" /\ Leave(w)
       \/ /\ ~mismatch
          /\ assoc' = [assoc EXCEPT ![p] = Bound(@, facts[w], job[w].at)]
          /\ Goto(w, IF job[w].kind = "pull_request" THEN "project" ELSE "record")
          /\ UNCHANGED worker
    /\ UNCHANGED <<github, package, edits, faults>>

\* record_implementation_check_result: WHERE head_sha = the head that was read.
Record(w) ==
    LET p == facts[w].pull
        current == assoc[p].head = facts[w].head
    IN
    /\ pc[w] = "record"
    /\ assoc' = [assoc EXCEPT ![p].success = IF ~current THEN @
                                             ELSE IF facts[w].green THEN facts[w].head
                                             ELSE NoHead]
    /\ \/ job[w].kind = "reconcile" /\ Goto(w, "scan") /\ UNCHANGED worker
       \/ job[w].kind # "reconcile" /\ current /\ Goto(w, "project") /\ UNCHANGED worker
       \/ job[w].kind # "reconcile" /\ ~current /\ Leave(w)
    /\ UNCHANGED <<github, package, edits, faults>>

-----------------------------------------------------------------------------
(* _project_implementation_work_package and set_lifecycle_state.           *)

Rank == [s \in {"Ready", "In Progress", "Review"} |->
           CASE s = "Ready" -> 0 [] s = "In Progress" -> 1 [] s = "Review" -> 2]

\* A status is only ever advanced, and never out of one without a rank.
Advances(from, to) ==
    /\ to # None
    /\ from \in DOMAIN Rank
    /\ Rank[to] > Rank[from]

\* Mutant: a check that was never recorded counts for an open pull request.
ProjectionUnchecked ==
    LET open == {p \in Pulls : assoc[p].bound /\ assoc[p].state = "open"} IN
    IF \E p \in Pulls : assoc[p].bound /\ assoc[p].merged
    THEN [status |-> "Review", evidence |-> "pr_merged"]
    ELSE IF open # {}
    THEN [status |-> "Review", evidence |-> "check_passed"]
    ELSE [status |-> None, evidence |-> "pr_closed"]

\* Mutant: the projection names a status that is not configured.
ProjectionUnknownStatus == [status |-> "Merged", evidence |-> "pr_merged"]

\* _implementation_projection over all associations of the work package.
Projection ==
    LET open == {p \in Pulls : assoc[p].bound /\ assoc[p].state = "open"} IN
    IF \E p \in Pulls : assoc[p].bound /\ assoc[p].merged
    THEN [status |-> "Review", evidence |-> "pr_merged"]
    ELSE IF \E p \in open : assoc[p].success = assoc[p].head
    THEN [status |-> "Review", evidence |-> "check_passed"]
    ELSE IF open # {}
    THEN [status |-> "In Progress", evidence |-> "pr_open"]
    ELSE [status |-> None, evidence |-> "pr_closed"]

ReadAssociations(w) ==
    /\ pc[w] = "project"
    /\ desired' = [desired EXCEPT ![w] = Projection]
    /\ Goto(w, "resolve")
    /\ UNCHANGED <<github, assoc, package, job, todo, facts, seen, edits, faults>>

\* What is left of a projection for the package as it was read.
Needed(d) ==
    [status |-> IF Advances(package.status, d.status) THEN d.status ELSE None,
     evidence |-> IF d.evidence # package.evidence THEN d.evidence ELSE None]

Resolve(w) ==
    /\ pc[w] = "resolve"
    /\ \/ Needed(desired[w]) = Nothing /\ Leave(w)
       \/ /\ Needed(desired[w]) # Nothing
          /\ desired' = [desired EXCEPT ![w] = Needed(@)]
          /\ Goto(w, "get")
          /\ UNCHANGED <<job, todo, facts, seen>>
    /\ UNCHANGED <<github, assoc, package, edits, faults>>

\* set_lifecycle_state reads the package once more, for its lockVersion and to
\* leave out what is already there.
Get(w) ==
    LET d == desired[w]
        left == [status |-> IF d.status # package.status THEN d.status ELSE None,
                 evidence |-> IF d.evidence # package.evidence THEN d.evidence ELSE None]
    IN
    /\ pc[w] = "get"
    /\ \/ left = Nothing /\ Leave(w)
       \/ /\ left # Nothing
          /\ desired' = [desired EXCEPT ![w] = left]
          /\ seen' = [seen EXCEPT ![w] = package.lock]
          /\ Goto(w, "patch")
          /\ UNCHANGED <<job, todo, facts>>
    /\ UNCHANGED <<github, assoc, package, edits, faults>>

\* The PATCH: taken under the lockVersion that was read, otherwise a conflict.
Patch(w) ==
    LET d == desired[w] IN
    /\ pc[w] = "patch"
    /\ \/ /\ seen[w] = package.lock
          /\ package' = [status |-> IF d.status = None THEN package.status ELSE d.status,
                         evidence |-> IF d.evidence = None THEN package.evidence
                                                           ELSE d.evidence,
                         lock |-> package.lock + 1]
       \/ seen[w] # package.lock /\ UNCHANGED package
    /\ Leave(w)
    /\ UNCHANGED <<github, assoc, edits, faults>>

-----------------------------------------------------------------------------
(* People and processes.                                                   *)

\* Somebody sets the status.
Edit(s) ==
    /\ edits < MaxEdits
    /\ edits' = edits + 1
    /\ package' = [package EXCEPT !.status = s, !.lock = @ + 1]
    /\ UNCHANGED <<github, assoc, pc, worker, faults>>

\* The worker dies; its delivery may be handled again.
Crash(w) ==
    /\ pc[w] # "idle"
    /\ faults < MaxFaults
    /\ faults' = faults + 1
    /\ Leave(w)
    /\ UNCHANGED <<github, assoc, package, edits>>

Work(w) ==
    \/ Scan(w) \/ Scanned(w) \/ ReadPull(w) \/ ReadChecks(w) \/ BindFacts(w)
    \/ Record(w) \/ ReadAssociations(w) \/ Resolve(w) \/ Get(w) \/ Patch(w)

Next ==
    \/ \E p \in Pulls : Push(p) \/ Close(p) \/ Reopen(p) \/ CheckCompletes(p)
    \/ Tick
    \/ \E w \in Workers \ Reconcilers, e \in sent : HandlePull(w, e) \/ HandleCheck(w, e)
    \/ \E w \in Workers :
          Work(w) \/ EvidenceFails(w) \/ Crash(w)
    \/ \E w \in Reconcilers : StartReconcile(w)
    \/ \E s \in Statuses : Edit(s)

Spec == Init /\ [][Next]_vars

\* Time passes, a job that was started goes on, and the schedule keeps firing.
\* Webhooks need not arrive; GitHub, people and faults owe nothing.
FairSpec ==
    /\ Spec
    /\ WF_vars(Tick)
    /\ \A w \in Workers : WF_vars(Work(w))
    /\ \A w \in Reconcilers : WF_vars(StartReconcile(w))

-----------------------------------------------------------------------------
(* Properties.                                                             *)

\* A successful check is bound to the association's current head and was really
\* seen on it, however the check's delivery, a push and reconciliation interleave.
SuccessIsCurrent ==
    \A p \in Pulls : assoc[p].success # NoHead =>
        /\ assoc[p].success = assoc[p].head
        /\ <<p, assoc[p].head>> \in everGreen

\* The package shows merged or checked evidence only when some pull request was
\* merged or had its checks pass: no stale read or late write invents evidence.
EvidenceJustified ==
    /\ package.evidence = "pr_merged" => \E p \in Pulls : gh[p].merged
    /\ package.evidence = "check_passed" => everGreen # {}

\* A merge is sticky: after it no delivery, however late, changes the head, the
\* state or the merge of the association.
MergeSticky ==
    [][\A p \in Pulls : assoc[p].merged =>
        [assoc'[p] EXCEPT !.success = NoHead] = [assoc[p] EXCEPT !.success = NoHead]]_vars

\* Once everything is quiet, reconciliation has projected a merge.
MergeProjected ==
    <>[]((\E p \in Pulls : assoc[p].bound /\ gh[p].merged) => package.evidence = "pr_merged")
=============================================================================
