----------------------------- MODULE LifecycleRun -----------------------------
(***************************************************************************)
(* The lifecycle of one Idea's plan, from the Planning status to the        *)
(* published graph: the rows of plan_runs, the service that handles the     *)
(* events of OpenProject, GitHub, the operators and the night, and what     *)
(* those handlers see of the planner, of GitHub and of the journal.         *)
(*                                                                          *)
(* A handler is a worker that steps from await to await with the row it     *)
(* read first.  Whatever it raises, a lost lease or a crash is Fail: the    *)
(* delivery is tried again or dead-lettered.  A sealed request is known by  *)
(* the worker that sealed it: the cipher draws a nonce, so no two are equal.*)
(* The status and the evidence the service shows on the Idea are left out:  *)
(* no handler of this module decides by them.                               *)
(***************************************************************************)
EXTENDS Naturals

CONSTANTS
    Workers,
    MaxVersion,    \* bound on plan versions
    MaxInterrupt,  \* bound on the interrupts a thread raises
    Changes,       \* work-package events with the status Planning
    Service,       \* those of them that the service itself caused
    Comments,      \* comment events of people
    Merges,        \* webhooks of merged pull requests
    Pull,          \* the version whose pull request such an event is about
    Nights,        \* scheduled reconciliations
    Replans,       \* operators' requests for a partial replan
    Base,          \* the version such a request starts from
    Arrivals,      \* the sets of events that may reach the service together
    Unfenced       \* deliveries whose fence the database may drop

Versions == 1..MaxVersion
Approvals == Merges \union Nights
Events == Changes \union Comments \union Approvals \union Replans
None == "none"
Start == "start"   \* the key of a start request

ASSUME LifecycleAssumption ==
    /\ MaxVersion \in Nat \ {0}
    /\ MaxInterrupt \in Nat
    /\ Service \subseteq Changes
    /\ Pull \in [Merges -> Versions]
    /\ Base \in [Replans -> Versions]
    /\ None \notin Events \union Workers
    /\ Changes \intersect Replans = {}
    /\ Start \notin Comments
    /\ \A A \in Arrivals : A \subseteq Events
    /\ Unfenced \subseteq Events

VARIABLES
    runs,       \* plan_runs
    thread,     \* the planner's thread of a version
    pull,       \* the planning pull request of a version
    reviewed,   \* merged pull requests with an approval and the required check
    journal,    \* publications, by approval event and version
    applied,    \* what of a version's operations OpenProject has
    fence,      \* the worker that holds the plan's publication lock
    asked,      \* interrupts whose questions are a comment of the Idea
    delivery,   \* delivery_deduplications
    abandoned,  \* audited terminal resume abandonments
    worker      \* a worker: place, event and what it read

remote == <<pull, reviewed>>
publication == <<journal, applied, fence>>
deliveries == <<delivery, abandoned>>
vars == <<runs, thread, remote, publication, asked, deliveries, worker>>

-----------------------------------------------------------------------------
(* Rows, threads and workers.                                              *)

States == {None, "planning", "needs_input", "pr_open", "publishing", "published",
           "blocked", "failed"}
Terminal == {"published", "failed"}

\* A sealed planner-resume request.
Markers == [comment : Comments, interrupt : 1..MaxInterrupt, seal : Workers]
NoMarker == [comment |-> None, interrupt |-> 0, seal |-> None]

Rows ==
    [state : States,
     request : Changes \union Replans \union {None},  \* the event that began the run
     marker : Markers \union {NoMarker},              \* pending_resume_ciphertext
     pull : BOOLEAN,                                  \* planning commit and pull request
     approved : BOOLEAN,                              \* merge commit and evidence digest
     bound : BOOLEAN]                                 \* digests of the merged backlog
NoRun == [state |-> None, request |-> None, marker |-> NoMarker, pull |-> FALSE,
          approved |-> FALSE, bound |-> FALSE]

Responses == [status : {None, "planning", "needs_input", "artifacts_ready", "failed"},
              interrupt : 0..MaxInterrupt]
NoResponse == [status |-> None, interrupt |-> 0]

\* A claim of the planner; its key is Start or a comment.
Keys == Comments \union {Start}
Claims == [state : {None, "open", "completed", "abandoned"},
           interrupt : 0..MaxInterrupt, response : Responses]
NoClaim == [state |-> None, interrupt |-> 0, response |-> NoResponse]

Threads ==
    [status : {"absent", "planning", "needs_input", "artifacts_ready", "failed"},
     interrupt : 0..MaxInterrupt,            \* the pending one, or 0
     raised : 0..MaxInterrupt,               \* how many were raised
     consumed : Comments \union {None},      \* the answer it took last
     claim : [Keys -> Claims]]
NoThread == [status |-> "absent", interrupt |-> 0, raised |-> 0, consumed |-> None,
             claim |-> [k \in Keys |-> NoClaim]]

Places == {"idle", "begin", "start", "get", "ask", "record", "resume", "respond",
           "settle", "pull", "bind_pull", "clear", "approve", "bind", "publish", "publishing",
           "published", "block", "abandon", "restored", "convert", "corrected",
           "notify"}
Idle == [pc |-> "idle", event |-> None, v |-> 1, state |-> None, marker |-> NoMarker,
         response |-> NoResponse]

\* Rows, threads and workers keep their types: an interrupt that is answered, for
\* one, is one that was raised (ReadInterrupt checks the planner's answer).
TypeOK ==
    /\ runs \in [Versions -> Rows]
    /\ thread \in [Versions -> Threads]
    /\ pull \in [Versions -> {None, "open", "merged"}]
    /\ reviewed \subseteq Versions
    /\ journal \in [Approvals \X Versions -> {None, "in_progress", "completed"}]
    /\ applied \in [Versions -> {"nothing", "part", "all"}]
    /\ fence \in Workers \union {None}
    /\ asked \subseteq Versions \X (1..MaxInterrupt)
    /\ delivery \in [Events -> {"new", "completed", "dead_letter"}]
    /\ abandoned \subseteq Markers
    /\ worker \in [Workers -> [pc : Places, event : Events \union {None}, v : Versions,
                               state : States, marker : Markers \union {NoMarker},
                               response : Responses]]

Response(t) == [status |-> t.status, interrupt |-> t.interrupt]
Completed(t, k, i) ==
    [t EXCEPT !.claim[k] = [state |-> "completed", interrupt |-> i, response |-> Response(t)]]

\* A run that an earlier release left before it recorded the planner's failure.
Exhausted(c) ==
    [NoThread EXCEPT !.status = "failed", !.raised = 1, !.consumed = c,
        !.claim = [k \in Keys |->
            IF k = c THEN [state |-> "completed", interrupt |-> 1,
                           response |-> [status |-> "failed", interrupt |-> 0]]
            ELSE IF k = Start THEN [state |-> "completed", interrupt |-> 0,
                           response |-> [status |-> "needs_input", interrupt |-> 1]]
            ELSE NoClaim]]

Fresh(A) ==
    /\ runs = [v \in Versions |-> NoRun]
    /\ thread = [v \in Versions |-> NoThread]
    /\ delivery = [x \in Events |-> IF x \in A THEN "new" ELSE "completed"]
    /\ asked = {}
    /\ pull = [v \in Versions |-> None]
    /\ reviewed = {}
    /\ journal = [a \in Approvals \X Versions |-> None]
    /\ applied = [v \in Versions |-> "nothing"]

LegacyAnswer(A, e, c) ==
    /\ MaxInterrupt > 0
    /\ runs = [v \in Versions |->
                  IF v = 1 THEN [NoRun EXCEPT !.state = "needs_input", !.request = e]
                           ELSE NoRun]
    /\ thread = [v \in Versions |-> IF v = 1 THEN Exhausted(c) ELSE NoThread]
    /\ delivery = [x \in Events |-> IF x \in A \ {c} THEN "new" ELSE "completed"]
    /\ asked = {<<1, 1>>}
    /\ pull = [v \in Versions |-> None]
    /\ reviewed = {}
    /\ journal = [a \in Approvals \X Versions |-> None]
    /\ applied = [v \in Versions |-> "nothing"]

\* The second version was a replan of the first, and failed.
LegacyReplan(A, e, m, r) ==
    /\ MaxVersion > 2 /\ Pull[m] = 1 /\ Base[r] = 1
    /\ runs = [v \in Versions |->
          CASE v = 1 -> [NoRun EXCEPT !.state = "published", !.request = e, !.pull = TRUE,
                                      !.approved = TRUE, !.bound = TRUE]
            [] v = 2 -> [NoRun EXCEPT !.state = "failed", !.request = r]
            [] OTHER -> NoRun]
    /\ thread = [v \in Versions |->
          CASE v = 1 -> Completed([NoThread EXCEPT !.status = "artifacts_ready"], Start, 0)
            [] v = 2 -> Completed([NoThread EXCEPT !.status = "failed"], Start, 0)
            [] OTHER -> NoThread]
    /\ delivery = [x \in Events |-> IF x \in A \ {e, m, r} THEN "new" ELSE "completed"]
    /\ asked = {}
    /\ pull = [v \in Versions |-> IF v = 1 THEN "merged" ELSE None]
    /\ reviewed = {1}
    /\ journal = [a \in Approvals \X Versions |-> IF a = <<m, 1>> THEN "completed" ELSE None]
    /\ applied = [v \in Versions |-> IF v = 1 THEN "all" ELSE "nothing"]

Init ==
    /\ \E A \in Arrivals :
          \/ Fresh(A)
          \/ \E e \in Changes, c \in Comments \intersect A : LegacyAnswer(A, e, c)
          \/ \E e \in Changes, m \in Merges, r \in Replans \intersect A : LegacyReplan(A, e, m, r)
    /\ fence = None
    /\ abandoned = {}
    /\ worker = [w \in Workers |-> Idle]

-----------------------------------------------------------------------------
(* The store.                                                              *)

Begun == {v \in Versions : runs[v].state # None}
\* latest_for_idea and latest_published; 0 when there is none.
latest_for_idea == IF Begun = {} THEN 0 ELSE CHOOSE v \in Begun : \A u \in Begun : u <= v
latest_published ==
    LET P == {v \in Versions : runs[v].state = "published"}
    IN  IF P = {} THEN 0 ELSE CHOOSE v \in P : \A u \in P : u <= v

_TRANSITIONS ==
    [planning |-> {"planning", "needs_input", "pr_open", "blocked", "failed"},
     needs_input |-> {"needs_input", "planning", "pr_open", "blocked", "failed"},
     pr_open |-> {"pr_open", "publishing", "blocked", "failed"},
     publishing |-> {"publishing", "published", "blocked", "failed"},
     published |-> {"published"},
     blocked |-> {"blocked", "planning", "failed"},
     failed |-> {"failed"}]

\* Mutant: the state of the row is not compared with the one that was read.
SetStateUnchecked(v, old, new) ==
    /\ new \in _TRANSITIONS[old]
    /\ runs' = [runs EXCEPT ![v].state = new]

\* The transition starts from the state the worker read, and is done already
\* when another worker made it.
set_state(v, old, new) ==
    /\ new \in _TRANSITIONS[old]
    /\ runs[v].state \in {old, new}
    /\ runs' = [runs EXCEPT ![v].state = new]

\* The row exists already: its sealed start request differs from any other.
begin(v, e) ==
    /\ runs[v].state = None
    /\ runs' = [runs EXCEPT ![v] = [NoRun EXCEPT !.state = "planning", !.request = e]]

\* The pull request of a version has one number and one head.
record_pull_request(v) ==
    /\ runs[v].state \in {"planning", "needs_input", "pr_open"}
    /\ runs' = [runs EXCEPT ![v].state = "pr_open", ![v].pull = TRUE]

approve_for_publication(v) ==
    /\ runs[v].state \in {"pr_open", "publishing"}
    /\ runs' = [runs EXCEPT ![v].state = "publishing", ![v].approved = TRUE]

record_publication_binding(v) ==
    /\ runs[v].state \in {"pr_open", "publishing", "published"}
    /\ runs' = [runs EXCEPT ![v].approved = TRUE, ![v].bound = TRUE]

\* Mutant: a later answer takes the marker of an earlier one.
RecordOverMarker(v, m) ==
    /\ runs[v].state = "needs_input"
    /\ runs' = [runs EXCEPT ![v].marker = m]

record_pending_resume(v, m) ==
    /\ runs[v].state = "needs_input"
    /\ runs[v].marker \in {NoMarker, m}
    /\ runs' = [runs EXCEPT ![v].marker = m]

clear_pending_resume(v, m) ==
    /\ runs[v].marker \in {NoMarker, m}
    /\ runs' = [runs EXCEPT ![v].marker = NoMarker]

\* What nobody has approved, published or opened a pull request for.
ArtifactFree(row) == ~row.pull /\ ~row.approved /\ ~row.bound

complete_terminal_resume_abandonment(v, m) ==
    /\ delivery[m.comment] = "dead_letter"
    /\ runs[v].state = "needs_input"
    /\ \/ runs[v].marker = m /\ ArtifactFree(runs[v])
       \/ runs[v].marker = NoMarker /\ m \in abandoned
    /\ runs' = [runs EXCEPT ![v].marker = NoMarker]
    /\ abandoned' = abandoned \union {m}

complete_critique_correction(v, c) ==
    /\ delivery[c] = "completed"
    /\ runs[v].state = "failed"
    /\ runs[v].marker = NoMarker
    /\ ArtifactFree(runs[v])
    /\ runs' = [runs EXCEPT ![v].state = "needs_input"]

-----------------------------------------------------------------------------
(* The planner, as its clients see it: an operation succeeds, or leaves its  *)
(* claim open somewhere on the way.                                          *)

Open(t) == {k \in Keys : t.claim[k].state = "open"}

\* Where the graph goes from a thread that has nothing to serve.
Planned(t) ==
    IF t.status # "planning" THEN {t}
    ELSE {[t EXCEPT !.status = "artifacts_ready"]}
         \union (IF t.raised = MaxInterrupt THEN {}
                 ELSE {[t EXCEPT !.status = "needs_input", !.interrupt = t.raised + 1,
                                 !.raised = t.raised + 1]})

Claimed(t, k, i) == [t EXCEPT !.claim[k] = [NoClaim EXCEPT !.state = "open", !.interrupt = i]]

planner_start_admits(t) == Open(t) \subseteq {Start}
Started(t) == IF t.status = "absent" THEN [t EXCEPT !.status = "planning"] ELSE t

\* A completed request is admitted while its answer is the last one or another
\* interrupt waits, and then only replayed.
planner_resume_admits(t, m) ==
    LET row == t.claim[m.comment]
    IN  /\ t.status # "absent"
        /\ \/ row.state = None /\ Open(t) = {} /\ t.interrupt = m.interrupt
           \/ /\ row.interrupt = m.interrupt
              /\ row.state = "open"
              /\ t.interrupt = m.interrupt \/ t.consumed = m.comment
           \/ /\ row.interrupt = m.interrupt
              /\ row.state = "completed"
              /\ t.interrupt # 0 \/ t.consumed = m.comment
Consumed(t, m) ==
    IF t.interrupt = m.interrupt
    THEN [t EXCEPT !.interrupt = 0, !.status = "planning", !.consumed = m.comment]
    ELSE t

\* Tombstones an expired claim; an answer that was the first of its thread is
\* taken back.
planner_abandon_admits(t, m) ==
    /\ t.claim[m.comment].state \in {"open", "abandoned"}
    /\ t.claim[m.comment].interrupt = m.interrupt
    /\ \/ t.interrupt = m.interrupt
       \/ t.consumed = m.comment /\ t.status = "planning" /\ m.interrupt = 1
Abandoned(t, m) ==
    [t EXCEPT !.claim[m.comment].state = "abandoned",
              !.interrupt = m.interrupt, !.status = "needs_input",
              !.consumed = IF t.interrupt = m.interrupt THEN t.consumed ELSE None]

\* Only a thread of an earlier release failed; repeating the correction finds it done.
planner_convert_admits(t, c) ==
    /\ t.claim[c].state = "completed"
    /\ t.claim[c].response.status = "failed"
    /\ t.consumed = c
    /\ t.raised < MaxInterrupt \/ t.interrupt # 0
Converted(t) ==
    IF t.status # "failed" THEN t
    ELSE [t EXCEPT !.status = "needs_input", !.interrupt = t.raised + 1,
                   !.raised = t.raised + 1]

-----------------------------------------------------------------------------
(* Steps the handlers share.                                               *)

\* One worker handles a delivery at a time, unless the fence of the first was
\* dropped (EffectExclusive of DeliveryLease).
Takes(w, e) ==
    /\ worker[w].pc = "idle"
    /\ delivery[e] = "new"
    /\ e \in Unfenced \/ \A x \in Workers : worker[x].event # e

Enter(w, place, e, v, m) ==
    worker' = [worker EXCEPT ![w] = [Idle EXCEPT !.pc = place, !.event = e, !.v = v,
                  !.state = runs[v].state, !.marker = m]]

Goto(w, place) == worker' = [worker EXCEPT ![w].pc = place]

Replied(w, place, r) == worker' = [worker EXCEPT ![w].pc = place, ![w].response = r]

\* The handler returned its outcome.
Handled(e) == delivery' = [delivery EXCEPT ![e] = IF @ = "new" THEN "completed" ELSE @]
Return(w) ==
    /\ worker' = [worker EXCEPT ![w] = Idle]
    /\ Handled(worker[w].event)
    /\ UNCHANGED abandoned

At(w, place) == worker[w].pc = place

-----------------------------------------------------------------------------
(* _work_package_changed and _replan_affected_subgraph.                     *)

\* The run of the latest version takes no new one beside it.
Active(v) == v # 0 /\ runs[v].state \notin Terminal

\* A status the service set itself, or a plan that only a bounded replan may follow.
Ignored(e) ==
    LET v == latest_for_idea
    IN  \/ e \in Service /\ Active(v) /\ runs[v].request # e
        \/ v # 0 /\ latest_published # 0
           /\ (runs[v].state = "published" \/ latest_published < v)

_work_package_changed(w, e) ==
    LET v == latest_for_idea
    IN  /\ Takes(w, e)
        /\ \/ /\ Ignored(e)
              /\ Handled(e)
              /\ UNCHANGED worker
           \/ /\ ~Ignored(e)
              /\ Active(v)
              /\ Enter(w, "get", e, v, NoMarker)
              /\ UNCHANGED delivery
           \/ /\ ~Ignored(e)
              /\ ~Active(v)
              /\ v < MaxVersion
              /\ Enter(w, "begin", e, v + 1, NoMarker)
              /\ UNCHANGED delivery
        /\ UNCHANGED <<runs, thread, remote, publication, asked, abandoned>>

\* The successor of the latest published version: a new one, one after failed
\* ones, or the run this very request began.
_replan_affected_subgraph(w, e) ==
    LET b == Base[e]  v == latest_for_idea
    IN  /\ Takes(w, e)
        /\ latest_published = b
        /\ \/ /\ v = b \/ (runs[v].state = "failed" /\ runs[v].request \in Replans \ {e}
                             /\ Base[runs[v].request] = b)
              /\ v < MaxVersion
              /\ Enter(w, "begin", e, v + 1, NoMarker)
              /\ UNCHANGED delivery
           \/ /\ v # b
              /\ runs[v].request = e
              /\ runs[v].state \in {"planning", "needs_input", "pr_open"}
              /\ Enter(w, "get", e, v, NoMarker)
              /\ UNCHANGED delivery
           \/ /\ v # b
              /\ runs[v].request = e
              /\ runs[v].state \in Terminal
              /\ Handled(e)
              /\ UNCHANGED worker
        /\ UNCHANGED <<runs, thread, remote, publication, asked, abandoned>>

Begin(w) ==
    /\ At(w, "begin")
    /\ begin(worker[w].v, worker[w].event)
    /\ worker' = [worker EXCEPT ![w].pc = "start", ![w].state = "planning"]
    /\ UNCHANGED <<thread, remote, publication, asked, deliveries>>

\* The Idea names no repository: nothing is begun.
NeedsRepository(w) ==
    /\ At(w, "begin")
    /\ worker[w].event \in Changes
    /\ Return(w)
    /\ UNCHANGED <<runs, thread, remote, publication, asked>>

\* planner.start() with the request of the row; a failing call leaves the thread
\* and the claim where they are, and the worker fails.
PlannerStart(w) ==
    LET v == worker[w].v  t == Started(thread[v])
    IN  /\ At(w, "start")
        /\ planner_start_admits(thread[v])
        /\ \/ /\ thread[v].claim[Start].state = "completed"
              /\ Replied(w, "respond", thread[v].claim[Start].response)
              /\ UNCHANGED thread
           \/ /\ thread[v].claim[Start].state # "completed"
              /\ \E p \in Planned(t) :
                    /\ thread' = [thread EXCEPT ![v] = Completed(p, Start, 0)]
                    /\ Replied(w, "respond", Response(p))
           \/ /\ thread[v].claim[Start].state # "completed"
              /\ \E p \in {t} \union Planned(t) :
                    thread' = [thread EXCEPT ![v] = Claimed(p, Start, 0)]
              /\ worker' = [worker EXCEPT ![w] = Idle]
        /\ UNCHANGED <<runs, remote, publication, asked, deliveries>>

PlannerGet(w) ==
    LET t == thread[worker[w].v]
    IN  /\ At(w, "get")
        /\ IF t.status = "absent" THEN Goto(w, "start") ELSE Replied(w, "respond", Response(t))
        /\ UNCHANGED <<runs, thread, remote, publication, asked, deliveries>>

-----------------------------------------------------------------------------
(* _planning_input.                                                        *)

\* A run with a marker replays the request of the marker, whatever the comment.
_planning_input(w, c) ==
    LET v == latest_for_idea
    IN  /\ Takes(w, c)
        /\ IF v = 0 \/ runs[v].state # "needs_input"
           THEN Handled(c) /\ UNCHANGED worker
           ELSE /\ Enter(w, IF runs[v].marker = NoMarker THEN "ask" ELSE "resume", c, v,
                         runs[v].marker)
                /\ UNCHANGED delivery
        /\ UNCHANGED <<runs, thread, remote, publication, asked, abandoned>>

ReadInterrupt(w) ==
    LET t == thread[worker[w].v]
    IN  /\ At(w, "ask")
        /\ IF t.interrupt = 0
           THEN Replied(w, "respond", Response(t))
           ELSE worker' = [worker EXCEPT ![w].pc = "record",
                   ![w].marker = [comment |-> worker[w].event, interrupt |-> t.interrupt,
                                  seal |-> w]]
        /\ UNCHANGED <<runs, thread, remote, publication, asked, deliveries>>

RecordPendingResume(w) ==
    /\ At(w, "record")
    /\ record_pending_resume(worker[w].v, worker[w].marker)
    /\ worker' = [worker EXCEPT ![w].pc = "resume", ![w].state = "needs_input"]
    /\ UNCHANGED <<thread, remote, publication, asked, deliveries>>

\* planner.resume() with the sealed request.
PlannerResume(w) ==
    LET v == worker[w].v  m == worker[w].marker  t == Consumed(thread[v], m)
        done == thread[v].claim[m.comment].state = "completed"
    IN  /\ At(w, "resume")
        /\ planner_resume_admits(thread[v], m)
        /\ \/ /\ done
              /\ Replied(w, "respond", thread[v].claim[m.comment].response)
              /\ UNCHANGED thread
           \/ /\ ~done
              /\ \E p \in Planned(t) :
                    /\ thread' = [thread EXCEPT ![v] = Completed(p, m.comment, m.interrupt)]
                    /\ Replied(w, "respond", Response(p))
           \/ /\ ~done
              /\ \E p \in {thread[v], t} \union Planned(t) :
                    thread' = [thread EXCEPT ![v] = Claimed(p, m.comment, m.interrupt)]
              /\ worker' = [worker EXCEPT ![w] = Idle]
        /\ UNCHANGED <<runs, remote, publication, asked, deliveries>>

-----------------------------------------------------------------------------
(* _handle_planner_response.                                               *)

\* Every handler that answered a comment clears the marker it had in the end.
AfterResponse(w) == IF worker[w].marker = NoMarker THEN "idle" ELSE "clear"
Leave(w) ==
    IF AfterResponse(w) = "clear"
    THEN Goto(w, "clear") /\ UNCHANGED deliveries
    ELSE Return(w)

\* Mutant: a run that waits for input is taken to have asked already.
HandleResponseAsked(w) ==
    LET r == worker[w].response  v == worker[w].v
    IN  /\ At(w, "respond")
        /\ asked' = IF r.status = "needs_input" /\ worker[w].state # "needs_input"
                    THEN asked \union {<<v, r.interrupt>>} ELSE asked
        /\ IF r.status = "planning" THEN Leave(w)
           ELSE /\ Goto(w, IF r.status = "artifacts_ready" THEN "pull" ELSE "settle")
                /\ UNCHANGED deliveries
        /\ UNCHANGED <<runs, thread, remote, publication>>

\* _ensure_interrupt_side_effects, or the notice of a failure.
HandleResponse(w) ==
    LET r == worker[w].response  v == worker[w].v
    IN  /\ At(w, "respond")
        /\ \/ /\ r.status = "needs_input"
              /\ asked' = asked \union {<<v, r.interrupt>>}
              /\ Goto(w, "settle")
              /\ UNCHANGED deliveries
           \/ /\ r.status = "failed"
              /\ Goto(w, "settle")
              /\ UNCHANGED <<asked, deliveries>>
           \/ /\ r.status = "planning"
              /\ Leave(w)
              /\ UNCHANGED asked
           \/ /\ r.status = "artifacts_ready"
              /\ Goto(w, "pull")
              /\ UNCHANGED <<asked, deliveries>>
        /\ UNCHANGED <<runs, thread, remote, publication>>

SettleResponse(w) ==
    /\ At(w, "settle")
    /\ set_state(worker[w].v, worker[w].state, worker[w].response.status)
    /\ Leave(w)
    /\ UNCHANGED <<thread, remote, publication, asked>>

\* The commit and the open pull request are found or made; a merged one is
\* neither, and the call fails.
EnsurePullRequest(w) ==
    LET v == worker[w].v
    IN  /\ At(w, "pull")
        /\ pull[v] # "merged"
        /\ pull' = [pull EXCEPT ![v] = "open"]
        /\ Goto(w, "bind_pull")
        /\ UNCHANGED <<runs, thread, reviewed, publication, asked, deliveries>>

RecordPullRequest(w) ==
    /\ At(w, "bind_pull")
    /\ record_pull_request(worker[w].v)
    /\ Leave(w)
    /\ UNCHANGED <<thread, remote, publication, asked>>

ClearPendingResume(w) ==
    /\ At(w, "clear")
    /\ clear_pending_resume(worker[w].v, worker[w].marker)
    /\ Return(w)
    /\ UNCHANGED <<thread, remote, publication, asked>>

-----------------------------------------------------------------------------
(* _pull_request, for a webhook and for the night's missed merges.          *)

\* Mutant: the evidence of the merge is not checked.
MergedUnreviewed(w, e, v) ==
    /\ runs[v].state \in {"pr_open", "publishing"}
    /\ Enter(w, IF runs[v].approved THEN "bind" ELSE "approve", e, v, NoMarker)
    /\ UNCHANGED delivery

\* Evidence has to be read before the approval, and only once.
Merged(w, e, v) ==
    \/ /\ runs[v].state = "pr_open" \/ (runs[v].state = "publishing" /\ ~runs[v].approved)
       /\ v \in reviewed
       /\ Enter(w, "approve", e, v, NoMarker)
       /\ UNCHANGED delivery
    \/ /\ runs[v].state = "publishing" /\ runs[v].approved
       /\ Enter(w, "bind", e, v, NoMarker)
       /\ UNCHANGED delivery

\* A pull request that no run knows belongs to somebody's implementation.
_pull_request(w, e) ==
    LET v == Pull[e]
    IN  /\ Takes(w, e)
        /\ pull[v] = "merged"
        /\ IF ~runs[v].pull \/ runs[v].state = "published"
           THEN Handled(e) /\ UNCHANGED worker
           ELSE Merged(w, e, v)
        /\ UNCHANGED <<runs, thread, remote, publication, asked, abandoned>>

_reconcile(w, e) ==
    LET v == latest_for_idea
    IN  /\ Takes(w, e)
        /\ IF v # 0 /\ runs[v].state = "pr_open" /\ pull[v] = "merged"
           THEN Merged(w, e, v)
           ELSE Handled(e) /\ UNCHANGED worker
        /\ UNCHANGED <<runs, thread, remote, publication, asked, abandoned>>

Approve(w) ==
    /\ At(w, "approve")
    /\ approve_for_publication(worker[w].v)
    /\ Goto(w, "bind")
    /\ UNCHANGED <<thread, remote, publication, asked, deliveries>>

BindArtifact(w) ==
    /\ At(w, "bind")
    /\ record_publication_binding(worker[w].v)
    /\ worker' = [worker EXCEPT ![w].pc = "publish", ![w].state = runs[worker[w].v].state]
    /\ UNCHANGED <<thread, remote, publication, asked, deliveries>>

\* A bounded replan publishes only on top of the version it started from.
_replan_publication_context(v) ==
    runs[v].request \in Replans => Base[runs[v].request] = latest_published

\* journal.resume(): the fence, then the journal of this very approval event.
\* Without one the snapshot has to match, which it does not once anything of
\* the version was applied, and may not whatever happened.
OpenJournal(w) ==
    LET v == worker[w].v  key == <<worker[w].event, v>>
    IN  /\ At(w, "publish")
        /\ _replan_publication_context(v)
        /\ \/ /\ fence = None
              /\ journal[key] # None \/ applied[v] = "nothing"
              /\ fence' = w
              /\ journal' = [journal EXCEPT ![key] = IF @ = None THEN "in_progress" ELSE @]
              /\ Goto(w, "publishing")
           \/ /\ fence # None \/ journal[key] = None
              /\ Goto(w, "block")
              /\ UNCHANGED <<fence, journal>>
        /\ UNCHANGED <<runs, thread, remote, applied, asked, deliveries>>

\* publish() changes OpenProject, and ends well or in a conflict.
Publish(w) ==
    LET v == worker[w].v  key == <<worker[w].event, v>>
    IN  /\ At(w, "publishing")
        /\ \/ /\ applied[v] = "nothing"
              /\ applied' = [applied EXCEPT ![v] = "part"]
              /\ UNCHANGED <<journal, fence, worker>>
           \/ /\ applied' = [applied EXCEPT ![v] = "all"]
              /\ journal' = [journal EXCEPT ![key] = "completed"]
              /\ fence' = None
              /\ Goto(w, "published")
           \/ /\ journal[key] # "completed"
              /\ fence' = None
              /\ Goto(w, "block")
              /\ UNCHANGED <<applied, journal>>
        /\ UNCHANGED <<runs, thread, remote, asked, deliveries>>

RecordPublished(w) ==
    /\ At(w, "published")
    /\ set_state(worker[w].v, worker[w].state, "published")
    /\ Return(w)
    /\ UNCHANGED <<thread, remote, publication, asked>>

RecordBlocked(w) ==
    /\ At(w, "block")
    /\ set_state(worker[w].v, worker[w].state, "blocked")
    /\ Return(w)
    /\ UNCHANGED <<thread, remote, publication, asked>>

-----------------------------------------------------------------------------
(* Operators' corrections.                                                 *)

abandon_terminal_resume(w, v) ==
    LET m == runs[v].marker
    IN  /\ worker[w].pc = "idle"
        /\ runs[v].state = "needs_input"
        /\ m # NoMarker
        /\ delivery[m.comment] = "dead_letter"
        /\ Enter(w, "abandon", m.comment, v, m)
        /\ UNCHANGED <<runs, thread, remote, publication, asked, deliveries>>

PlannerAbandon(w) ==
    LET v == worker[w].v  m == worker[w].marker
    IN  /\ At(w, "abandon")
        /\ planner_abandon_admits(thread[v], m)
        /\ thread' = [thread EXCEPT ![v] = Abandoned(thread[v], m)]
        /\ Goto(w, "restored")
        /\ UNCHANGED <<runs, remote, publication, asked, deliveries>>

CompleteAbandonment(w) ==
    /\ At(w, "restored")
    /\ complete_terminal_resume_abandonment(worker[w].v, worker[w].marker)
    /\ worker' = [worker EXCEPT ![w] = Idle]
    /\ UNCHANGED <<thread, remote, publication, asked, delivery>>

\* The lock of the corrections admits one at a time; what is done already only
\* repeats the notice.
convert_failed_critique_to_interrupt(w, v, c) ==
    /\ worker[w].pc = "idle"
    /\ \A x \in Workers : worker[x].pc \notin {"convert", "corrected", "notify"}
    /\ delivery[c] = "completed"
    /\ runs[v].marker = NoMarker
    /\ ArtifactFree(runs[v])
    /\ \/ /\ runs[v].state = "failed"
          /\ Enter(w, "convert", c, v, NoMarker)
       \/ /\ runs[v].state = "needs_input"
          /\ planner_convert_admits(thread[v], c)
          /\ thread[v].interrupt # 0
          /\ worker' = [worker EXCEPT ![w] = [Idle EXCEPT !.pc = "notify", !.event = c,
                            !.v = v, !.response = Response(thread[v])]]
    /\ UNCHANGED <<runs, thread, remote, publication, asked, deliveries>>

PlannerConvert(w) ==
    LET v == worker[w].v  t == Converted(thread[v])
    IN  /\ At(w, "convert")
        /\ planner_convert_admits(thread[v], worker[w].event)
        /\ thread' = [thread EXCEPT ![v] = t]
        /\ Replied(w, "corrected", Response(t))
        /\ UNCHANGED <<runs, remote, publication, asked, deliveries>>

CompleteCorrection(w) ==
    /\ At(w, "corrected")
    /\ complete_critique_correction(worker[w].v, worker[w].event)
    /\ Goto(w, "notify")
    /\ UNCHANGED <<thread, remote, publication, asked, deliveries>>

_ensure_interrupt_side_effects(w) ==
    /\ At(w, "notify")
    /\ asked' = asked \union {<<worker[w].v, worker[w].response.interrupt>>}
    /\ worker' = [worker EXCEPT ![w] = Idle]
    /\ UNCHANGED <<runs, thread, remote, publication, deliveries>>

-----------------------------------------------------------------------------
(* People and failures.                                                    *)

\* Somebody merges the planning pull request, reviewed or not.
Merge(v) ==
    /\ pull[v] = "open"
    /\ pull' = [pull EXCEPT ![v] = "merged"]
    /\ \E R \in {{}, {v}} : reviewed' = reviewed \union R
    /\ UNCHANGED <<runs, thread, publication, asked, deliveries, worker>>

\* A handler raises, is cancelled or dies; its delivery stays or is dead-lettered.
Fail(w) ==
    /\ worker[w].pc # "idle"
    /\ worker' = [worker EXCEPT ![w] = Idle]
    /\ fence' = IF fence = w THEN None ELSE fence
    /\ UNCHANGED <<runs, thread, remote, journal, applied, asked, abandoned>>

Retry(w) == Fail(w) /\ UNCHANGED delivery

DeadLetter(w) ==
    /\ Fail(w)
    /\ delivery' = [delivery EXCEPT ![worker[w].event] = IF @ = "new" THEN "dead_letter" ELSE @]

Handle(w) ==
    \/ \E e \in Changes : _work_package_changed(w, e)
    \/ \E e \in Replans : _replan_affected_subgraph(w, e)
    \/ \E c \in Comments : _planning_input(w, c)
    \/ \E e \in Merges : _pull_request(w, e)
    \/ \E e \in Nights : _reconcile(w, e)

Step(w) ==
    \/ Begin(w) \/ NeedsRepository(w) \/ PlannerStart(w) \/ PlannerGet(w)
    \/ ReadInterrupt(w) \/ RecordPendingResume(w) \/ PlannerResume(w)
    \/ HandleResponse(w) \/ SettleResponse(w)
    \/ EnsurePullRequest(w) \/ RecordPullRequest(w) \/ ClearPendingResume(w)
    \/ Approve(w) \/ BindArtifact(w) \/ OpenJournal(w) \/ Publish(w)
    \/ RecordPublished(w) \/ RecordBlocked(w)
    \/ PlannerAbandon(w) \/ CompleteAbandonment(w)
    \/ PlannerConvert(w) \/ CompleteCorrection(w) \/ _ensure_interrupt_side_effects(w)

Correct(w) ==
    \E v \in Versions :
        \/ abandon_terminal_resume(w, v)
        \/ \E c \in Comments : convert_failed_critique_to_interrupt(w, v, c)

Next ==
    \/ \E w \in Workers : Handle(w) \/ Step(w) \/ Correct(w) \/ Retry(w) \/ DeadLetter(w)
    \/ \E v \in Versions : Merge(v)

Spec == Init /\ [][Next]_vars

-----------------------------------------------------------------------------
(* Properties.                                                             *)

\* A published version was merged, reviewed and bound to its backlog, and its
\* operations are in OpenProject (_pull_request).
PublishedEarned ==
    \A v \in Versions :
        runs[v].state = "published" =>
            /\ runs[v].approved /\ runs[v].bound /\ v \in reviewed
            /\ pull[v] = "merged" /\ applied[v] = "all"

\* The thread failed in an earlier release: the correction of such a run asks
\* no later version and may open it again beside one.
Reopened(v) == \E c \in Comments : thread[v].claim[c].response.status = "failed"

\* Versions are published in order, and a bounded replan on top of the latest
\* version published before it (_replan_publication_context).
PublishedInOrder ==
    \A v \in Versions : runs[v].state = "published" =>
        /\ \A u \in 1..v - 1 : runs[u].state \in Terminal \/ Reopened(u)
        /\ runs[v].request \in Replans =>
              LET b == Base[runs[v].request]
              IN  /\ runs[b].state = "published"
                  /\ \A u \in b + 1..v - 1 : runs[u].state = "failed"

\* A question that waits for an answer was asked on the Idea, unless a marker
\* will replay the request that led to it, or the thread is one that an operator's
\* critique correction may still convert: then the correction asks
\* (_ensure_interrupt_side_effects).
QuestionAsked ==
    \A v \in Versions :
        /\ runs[v].state = "needs_input"
        /\ runs[v].marker = NoMarker
        /\ thread[v].interrupt # 0
        /\ \A c \in Comments : ~planner_convert_admits(thread[v], c)
        => <<v, thread[v].interrupt>> \in asked

\* The marker of an answer goes only when the planner took the answer or an
\* operator abandoned it.
AnswerKept ==
    [][\A v \in Versions :
        LET c == runs[v].marker.comment
        IN  runs[v].marker # NoMarker /\ runs'[v].marker # runs[v].marker =>
              thread[v].claim[c].state \in {"completed", "abandoned"}]_vars

\* At most one version of the plan is in work, whatever people, operators and the
\* night start at the same time (_work_package_changed, begin).
OneActive == \A u, v \in Begun : Active(u) /\ Active(v) /\ ~Reopened(u) /\ ~Reopened(v) => u = v
=============================================================================
