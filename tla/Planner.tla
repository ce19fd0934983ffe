------------------------------ MODULE Planner -------------------------------
(***************************************************************************)
(* The planner service on one planning thread.                             *)
(*                                                                         *)
(* Several processes serve start and resume requests, their redeliveries   *)
(* and an operator's corrections.  Each runs under the thread's session    *)
(* advisory lock, whose connection also carries the checkpoints; claims,   *)
(* tombstones and responses go through other connections of a pool, so a   *)
(* process that lost its lock can still write those.  A claim transaction  *)
(* holds the thread's transaction lock: it is one step.                    *)
(*                                                                         *)
(* A request stands for its body, hence for its hash.  A claim token is a  *)
(* fresh random value and dies with its process: the process itself.       *)
(***************************************************************************)
EXTENDS PlannerGraph

CONSTANTS
    Procs,      \* processes that serve requests
    Starts,     \* start requests of the thread
    Keys,       \* idempotency keys
    Key,        \* the key of a request
    Comments,   \* comments of the Idea
    Comment,    \* the comment a resume request quotes
    Answers,    \* the interrupt a resume request names; its comment is newer (a
                \* request with an older one is always refused)
    MaxLost     \* bound on sessions that die under a living process

Requests == Starts \union Resumes

ASSUME PlannerAssumption ==
    /\ Key \in [Requests -> Keys]
    /\ Comment \in [Resumes -> Comments]
    /\ Answers \in [Resumes -> Interrupts]
    /\ MaxLost \in Nat
    /\ Starts \intersect Resumes = {}
    /\ None \notin Requests \union Procs

VARIABLES
    cp,         \* the latest checkpoint of the thread
    preResume,  \* the newest checkpoint with an interrupt and no consumed answer
    claims,     \* planner_idempotency
    bindings,   \* planner_resume_bindings
    guard,      \* holder of the session advisory lock
    proc,       \* a process: place, job and what it read
    lost,       \* sessions that died under a living process
    used        \* history: the answers that ever entered the thread

tables == <<claims, bindings>>
checkpoints == <<cp, preResume, used>>
vars == <<checkpoints, tables, guard, proc, lost>>

\* Jobs of a process; a correction names the resume request it is about.
Jobs ==
    [kind : {"start"}, req : Starts]
        \union [kind : {"resume", "abandon"}, req : Resumes]
NoJob == [kind |-> None, req |-> None]

Claims ==
    [state : {None, "in_progress", "completed", "abandoned"},
     req : Requests \union {None},
     token : Procs \union {None},
     live : BOOLEAN,             \* lease_expires_at is ahead of the database's clock
     response : Checkpoints]     \* what the response tells of its state

NoClaim == [state |-> None, req |-> None, token |-> None, live |-> FALSE,
            response |-> NoState]

\* "target": the history was searched; "running" has an answer left in job.req
\* while fresh is TRUE.
Places == {"idle", "checked", "claimed", "running", "ran", "abandon",
           "target", "rewind"}
Idle == [pc |-> "idle", job |-> NoJob, fresh |-> FALSE, seen |-> NoState]

\* Every row, checkpoint and process is one the service can write; among others
\* a status is one that the response model of planner/models.py knows.
TypeOK ==
    /\ cp \in Checkpoints
    /\ preResume \in [Interrupts -> Checkpoints]
    /\ claims \in [Keys -> Claims]
    /\ bindings \in [Comments -> Resumes \union {None}]
    /\ guard \in Procs \union {None}
    /\ proc \in [Procs -> [pc : Places, job : Jobs \union {NoJob}, fresh : BOOLEAN,
                           seen : Checkpoints]]
    /\ lost \in 0..MaxLost
    /\ used \subseteq Resumes

\* A thread that an earlier release left with an exhausted critique.
FailedCritique(r) ==
    [NoState EXCEPT !.next = "END", !.consumed = r, !.attempts = 2, !.status = "failed"]

Fresh ==
    /\ cp = NoState
    /\ claims = [k \in Keys |-> NoClaim]
    /\ bindings = [c \in Comments |-> None]
    /\ used = {}

Legacy(s, r) ==
    /\ Key[s] # Key[r]
    /\ Answers[r] = Questions
    /\ cp = FailedCritique(r)
    /\ claims = [k \in Keys |->
                    IF k = Key[s]
                    THEN [NoClaim EXCEPT !.state = "completed", !.req = s,
                                         !.response = [NoState EXCEPT !.pending = Questions]]
                    ELSE IF k = Key[r]
                    THEN [NoClaim EXCEPT !.state = "completed", !.req = r,
                                         !.response = _response_from_state(FailedCritique(r))]
                    ELSE NoClaim]
    /\ bindings = [c \in Comments |-> IF c = Comment[r] THEN r ELSE None]
    /\ used = {r}

Init ==
    /\ Fresh \/ \E s \in Starts, r \in Resumes : Legacy(s, r)
    /\ preResume = [i \in Interrupts |-> NoState]
    /\ guard = None
    /\ proc = [p \in Procs |-> Idle]
    /\ lost = 0

-----------------------------------------------------------------------------
(* The idempotency repository.                                             *)

Unfinished == {k \in Keys : claims[k].state = "in_progress"}

_assert_resume_binding(q) ==
    q \in Resumes => bindings[Comment[q]] \in {None, q}

Inserts(q) ==
    /\ claims[Key[q]].state = None
    /\ Unfinished = {}
    /\ q \in Starts => \A k \in Keys : claims[k].req \notin Starts
    /\ _assert_resume_binding(q)

\* A row of the same operation, thread and body.
_validate_row_identity(q) == claims[Key[q]].state # None /\ claims[Key[q]].req = q

\* Mutant: a tombstone is taken for an expired lease.
RecoversAbandoned(q) ==
    /\ _validate_row_identity(q)
    /\ claims[Key[q]].state \in {"in_progress", "abandoned"}
    /\ ~claims[Key[q]].live

Recovers(q) ==
    /\ _validate_row_identity(q)
    /\ claims[Key[q]].state = "in_progress"
    /\ ~claims[Key[q]].live

\* __aexit__ of the execution guard: the connection is closed in any case.
Finish(p) ==
    /\ proc' = [proc EXCEPT ![p] = Idle]
    /\ guard' = IF guard = p THEN None ELSE guard

Goto(p, place) == proc' = [proc EXCEPT ![p].pc = place] /\ guard' = guard

Claimable(q) == Inserts(q) \/ Recovers(q)

\* A request that is not claimable is answered from its completed row, or refused:
\* IdempotencyConflict, or IdempotencyInProgress for a lease that seems live.
claim(p, q) ==
    /\ Claimable(q)
    /\ claims' = [claims EXCEPT ![Key[q]] = [NoClaim EXCEPT !.state = "in_progress",
                                    !.req = q, !.token = p, !.live = TRUE]]
    /\ bindings' = IF q \in Resumes THEN [bindings EXCEPT ![Comment[q]] = q] ELSE bindings

Owns(p, q) == claims[Key[q]].state = "in_progress" /\ claims[Key[q]].token = p

finalize(p, q) ==
    IF Owns(p, q)
    THEN /\ claims' = [claims EXCEPT ![Key[q]].state = "completed",
                                     ![Key[q]].response = proc[p].seen]
         /\ UNCHANGED bindings
    ELSE UNCHANGED tables

completed_resume_matches(r) ==
    /\ claims[Key[r]].state = "completed"
    /\ claims[Key[r]].req = r
    /\ bindings[Comment[r]] = r

\* The claim an operator may tombstone, now or before.
Abandonable(r) ==
    /\ claims[Key[r]].req = r
    /\ bindings[Comment[r]] = r
    /\ \/ claims[Key[r]].state = "in_progress" /\ ~claims[Key[r]].live
       \/ claims[Key[r]].state = "abandoned"

abandon_resume(r) ==
    /\ Abandonable(r)
    /\ claims' = [claims EXCEPT ![Key[r]] = [NoClaim EXCEPT !.state = "abandoned",
                                                            !.req = r]]
    /\ UNCHANGED bindings

-----------------------------------------------------------------------------
(* The service.                                                            *)

\* A checkpoint is written through the connection that holds the lock.
Write(c) ==
    /\ cp' = c
    /\ preResume' = IF c.pending # NoInterrupt /\ c.consumed = None
                    THEN [preResume EXCEPT ![c.pending] = c]
                    ELSE preResume

\* The guard refuses a process while another one holds the thread's lock.  What
\* a handler does first under the lock is one step with taking it.
execution(p) == proc[p].pc = "idle" /\ guard = None

Enter(p, place, kind, q, seen) ==
    /\ guard' = p
    /\ proc' = [proc EXCEPT ![p] = [Idle EXCEPT !.pc = place, !.seen = seen,
                                               !.job = [kind |-> kind, req |-> q]]]

At(p, place, kind) == proc[p].pc = place /\ proc[p].job.kind = kind

start(p, q) ==
    /\ execution(p)
    /\ claim(p, q)
    /\ Enter(p, "claimed", "start", q, NoState)
    /\ UNCHANGED checkpoints

\* The state is read through the connection of the lock: without it the
\* handler fails here and leaves its claim behind.
_run_or_recover_start(p) ==
    /\ At(p, "claimed", "start")
    /\ guard = p
    /\ IF cp.next # None /\ _is_servable(cp)
       THEN /\ proc' = [proc EXCEPT ![p].pc = "ran", ![p].seen = _response_from_state(cp)]
            /\ UNCHANGED <<cp, preResume>>
       ELSE /\ proc' = [proc EXCEPT ![p].pc = "running"]
            /\ IF cp.next = None THEN Write(Initial) ELSE UNCHANGED <<cp, preResume>>
    /\ UNCHANGED <<used, guard, tables>>

\* Mutant: a later answer passes for the request's own.
ValidateAnyConsumed(c, r) == c.consumed # None \/ c.pending = Answers[r]

\* Whether a state admits a resume request.
_validate_resume_state(c, r) == c.consumed = r \/ c.pending = Answers[r]

\* A completed request whose thread waits for a later interrupt is replayed.
Superseded(c, r) ==
    c.pending \notin {NoInterrupt, Answers[r]} /\ completed_resume_matches(r)

\* resume() before its claim: the state it read decides, and the claim comes
\* after an await.
ReadForResume(p, r) ==
    /\ execution(p)
    /\ cp.next # None
    /\ Superseded(cp, r) \/ _validate_resume_state(cp, r)
    /\ Enter(p, "checked", "resume", r, NoState)
    /\ UNCHANGED <<checkpoints, tables>>

resume(p) ==
    /\ At(p, "checked", "resume")
    /\ \/ claim(p, proc[p].job.req) /\ Goto(p, "claimed")
       \/ ~Claimable(proc[p].job.req) /\ Finish(p) /\ UNCHANGED tables
    /\ UNCHANGED checkpoints

\* The claimed request finds its interrupt pending, or its own answer consumed.
Serve(p, r) ==
    /\ \/ /\ cp.pending = Answers[r]
          /\ proc' = [proc EXCEPT ![p].pc = "running", ![p].fresh = TRUE]
       \/ /\ cp.pending # Answers[r]
          /\ proc' = IF _is_servable(cp)
                     THEN [proc EXCEPT ![p].pc = "ran", ![p].seen = _response_from_state(cp)]
                     ELSE [proc EXCEPT ![p].pc = "running"]
    /\ UNCHANGED guard

_run_or_recover_resume(p) ==
    LET r == proc[p].job.req
    IN  /\ At(p, "claimed", "resume")
        /\ guard = p
        /\ IF _validate_resume_state(cp, r) THEN Serve(p, r) ELSE Finish(p)
        /\ UNCHANGED <<checkpoints, tables>>

\* The answer an invocation still carries.
Carried(p) == IF proc[p].fresh THEN proc[p].job.req ELSE None

\* ainvoke: the next node runs and its checkpoint is written.
RunNode(p) ==
    /\ proc[p].pc = "running"
    /\ guard = p
    /\ \E c \in Results(cp, Carried(p)) :
          /\ Write(c)
          /\ IF c.consumed # cp.consumed
             THEN /\ used' = used \union {c.consumed}
                  /\ proc' = [proc EXCEPT ![p].fresh = FALSE]
             ELSE UNCHANGED <<used, proc>>
    /\ UNCHANGED <<guard, tables>>

\* ainvoke returns, and the response is made from the state.
Respond(p) ==
    /\ proc[p].pc = "running"
    /\ guard = p
    /\ Returns(cp, Carried(p))
    /\ proc' = [proc EXCEPT ![p].pc = "ran", ![p].seen = _response_from_state(cp)]
    /\ UNCHANGED <<checkpoints, guard, tables>>

\* The last step of start() and resume(), lock or no lock.
Complete(p) ==
    /\ proc[p].pc = "ran"
    /\ finalize(p, proc[p].job.req)
    /\ Finish(p)
    /\ UNCHANGED checkpoints

\* One beat of _with_heartbeat: a lost claim cancels the operation.
_with_heartbeat(p) ==
    /\ proc[p].pc \in {"claimed", "running"}
    /\ IF Owns(p, proc[p].job.req)
       THEN /\ claims' = [claims EXCEPT ![Key[proc[p].job.req]].live = TRUE]
            /\ UNCHANGED <<proc, guard>>
       ELSE /\ Finish(p)
            /\ UNCHANGED claims
    /\ UNCHANGED <<checkpoints, bindings>>

\* abandon_terminal_resume() up to its first write: a thread that still waits
\* needs no rewinding; else the checkpoint before the answer is looked up.
ReadForAbandon(p, r) ==
    /\ execution(p)
    /\ cp.next # None
    /\ \/ /\ cp.pending = Answers[r]
          /\ Enter(p, "abandon", "abandon", r, NoState)
       \/ /\ cp.pending # Answers[r]
          /\ cp.consumed = r
          /\ ~cp.artifacts
          /\ cp.status \notin {"artifacts_ready", "failed"}
          /\ preResume[Answers[r]] # NoState
          /\ Enter(p, "target", "abandon", r, preResume[Answers[r]])
    /\ UNCHANGED <<checkpoints, tables>>

\* The tombstone, through the pool.
Tombstone(p) ==
    LET r == proc[p].job.req
    IN  /\ proc[p].pc \in {"abandon", "target"}
        /\ \/ /\ abandon_resume(r)
              /\ IF proc[p].pc = "target" THEN Goto(p, "rewind") ELSE Finish(p)
           \/ /\ ~Abandonable(r)
              /\ Finish(p)
              /\ UNCHANGED tables
        /\ UNCHANGED <<checkpoints>>

\* aupdate_state with the values of the old checkpoint, as_node
\* identify_consequential_questions: the edge of that node comes next.
Restored(c) == [c EXCEPT !.next = Edge["identify_consequential_questions"]]

Rewind(p) ==
    /\ proc[p].pc = "rewind"
    /\ guard = p
    /\ Write(Restored(proc[p].seen))
    /\ Finish(p)
    /\ UNCHANGED <<used, tables>>

\* The failed critique of an earlier release becomes an interrupt; repeating
\* the correction finds it done.
convert_failed_critique_to_interrupt(p, r) ==
    /\ execution(p)
    /\ completed_resume_matches(r)
    /\ cp.consumed = r
    /\ cp.status = "failed"
    /\ cp.attempts >= 2
    /\ ~cp.acceptable
    /\ ~cp.artifacts
    /\ Write([cp EXCEPT !.pending = critique_interrupt(r), !.status = "planning",
                         !.correction = r, !.next = "human_interrupt_after_critique"])
    /\ UNCHANGED <<used, tables, guard, proc>>

-----------------------------------------------------------------------------
(* Failures.                                                               *)

\* A node raises, the request is cancelled or the process dies: the claim
\* stays, the lock goes with the connection.
Abort(p) ==
    /\ proc[p].pc # "idle"
    /\ Finish(p)
    /\ UNCHANGED <<checkpoints, tables>>

\* The session dies and its lock with it; the process does not know yet.
LoseConnection(p) ==
    /\ guard = p
    /\ lost < MaxLost
    /\ lost' = lost + 1
    /\ guard' = None
    /\ UNCHANGED <<checkpoints, tables, proc>>

\* No heartbeat came in time.  A claimant whose own clock is ahead of the
\* database's sees the same, and one whose clock is behind only gives up.
ExpireLease(k) ==
    /\ claims[k].live
    /\ claims' = [claims EXCEPT ![k].live = FALSE]
    /\ UNCHANGED <<checkpoints, bindings, guard, proc>>

Step(p) ==
    \/ \E q \in Starts : start(p, q)
    \/ _run_or_recover_start(p)
    \/ \E r \in Resumes : ReadForResume(p, r) \/ ReadForAbandon(p, r)
                            \/ convert_failed_critique_to_interrupt(p, r)
    \/ resume(p) \/ _run_or_recover_resume(p)
    \/ RunNode(p) \/ Respond(p) \/ Complete(p) \/ _with_heartbeat(p)
    \/ Tombstone(p) \/ Rewind(p)
    \/ Abort(p)

Next ==
    \/ ((\E p \in Procs : Step(p)) \/ (\E k \in Keys : ExpireLease(k))) /\ UNCHANGED lost
    \/ \E p \in Procs : LoseConnection(p)

Spec == Init /\ [][Next]_vars

-----------------------------------------------------------------------------
(* Properties.                                                             *)

\* A durable response was made from a state one can serve, and from the state
\* the request itself produced: a start before any answer, a resume after its
\* own.  So no process finalizes for a state another one made
\* (start(), resume() and finalize()).
ResponseFaithful ==
    \A k \in Keys :
        claims[k].state = "completed" =>
            /\ \/ claims[k].response.pending # NoInterrupt
               \/ claims[k].response.status # "planning"
            /\ claims[k].response.consumed =
                  IF claims[k].req \in Resumes THEN claims[k].req ELSE None

\* Artifacts come only from a draft that the critique accepted and that passed
\* the validation, on every path through revisions, interrupts and recovery.
ArtifactsEarned ==
    cp.artifacts => cp.acceptable /\ cp.valid /\ cp.pending = NoInterrupt

Thread == INSTANCE PlannerThread WITH
    Requests <- Resumes,
    NoRequest <- None,
    pending <- cp.pending,
    consumed <- cp.consumed,
    used <- used,
    dead <- {r \in Resumes : claims[Key[r]].state = "abandoned" /\ claims[Key[r]].req = r},
    settled <- {r \in Resumes : claims[Key[r]].state = "completed" /\ claims[Key[r]].req = r}

\* The service implements the abstract thread: every answer is taken once, an
\* abandoned one never again, and a settled one is never abandoned.
ImplementsThread == Thread!Spec

\* docs/planner.md: abandoning "forks a new latest checkpoint from the exact
\* pre-resume interrupt".  After a rewind the node that comes next is the one
\* that had raised the interrupt.
ExactInterrupt ==
    cp.pending # NoInterrupt /\ cp.consumed = None =>
        cp.next = IF cp.pending = Questions THEN "human_interrupt_when_required"
                                            ELSE "human_interrupt_after_critique"
=============================================================================
