------------------------- MODULE LifecyclePlanProofs --------------------------
(***************************************************************************)
(* The versions of one plan, for any number of versions, interrupts, workers *)
(* and events: they are worked on one at a time and published in order, and  *)
(* what a version waits for was asked.                                      *)
(*                                                                         *)
(* A worker decides by the latest version and begins a new one some steps    *)
(* later.  What it decided by stays true: a terminal version is terminal     *)
(* for good, but for the first one when its thread failed in an earlier      *)
(* release.                                                                 *)
(***************************************************************************)
EXTENDS LifecycleRunProofs

-----------------------------------------------------------------------------
(* The order of versions.                                                  *)

\* A version that takes no more part in the order.
Past(u) == runs[u].state \in Terminal \/ (Reopened(u) /\ runs[u].state # None)

\* The version v may follow the others for the request e.
Follows(v, e) ==
    /\ \A u \in 1 .. v - 1 : Past(u)
    /\ e \in Replans =>
         /\ Base[e] < v
         /\ runs[Base[e]].state = "published"
         /\ \A u \in Base[e] + 1 .. v - 1 : runs[u].state = "failed"

\* Corrects(w): the worker corrects a run whose thread failed on an answer.
Corrects(w) == thread[worker[w].v].claim[worker[w].event].response.status = "failed"

OrderInv ==
    /\ \A v \in Begun : Follows(v, runs[v].request)
    /\ \A v \in Versions : Reopened(v) => v = 1
    /\ \A w \in Workers : worker[w].pc = "begin" => Follows(worker[w].v, worker[w].event)
    /\ \A w \in Workers : worker[w].pc = "corrected" => Corrects(w)

\* What no step takes back.
RowStays ==
    \A u \in Versions :
        /\ runs[u].state # None => runs'[u].state # None /\ runs'[u].request = runs[u].request
        /\ runs[u].state = "published" => runs'[u].state = "published"
        /\ runs[u].state = "failed" => runs'[u].state = "failed" \/ Reopened(u)
ThreadStays ==
    \A u \in Versions, c \in Comments :
        thread[u].claim[c].response.status = "failed" <=>
        thread'[u].claim[c].response.status = "failed"

\* The failed answers of a version stay.
LEMMA ReopenedStays ==
    ASSUME ThreadStays, NEW u \in Versions
    PROVE  Reopened(u) <=> Reopened(u)'
BY DEF ThreadStays, Reopened

\* What a version follows stays behind it.
LEMMA FollowsStays ==
    ASSUME RunInv, OrderInv, RowStays, ThreadStays, NEW v \in Versions, NEW e, Follows(v, e)
    PROVE  Follows(v, e)'
<1>1. \A u \in 1 .. v - 1 : u \in Versions
  BY LifecycleAssumption DEF Versions
<1>2. ASSUME NEW u \in 1 .. v - 1 PROVE Past(u)'
  <2>1. u \in Versions /\ Past(u) /\ (Reopened(u) <=> Reopened(u)')
    BY <1>1, <1>2, ReopenedStays DEF Follows
  <2>2. /\ runs[u].state # None => runs'[u].state # None
        /\ runs[u].state = "published" => runs'[u].state = "published"
        /\ runs[u].state = "failed" => runs'[u].state = "failed" \/ Reopened(u)
    BY <2>1 DEF RowStays
  <2> QED  BY <2>1, <2>2 DEF Past, Terminal, None
<1>3. CASE e \in Replans
  <2> DEFINE b == Base[e]
  <2>1. /\ b \in Versions /\ b < v /\ runs[b].state = "published"
        /\ \A u \in b + 1 .. v - 1 : runs[u].state = "failed"
    BY <1>3, LifecycleAssumption DEF Follows
  <2>2. runs'[b].state = "published"
    BY <2>1 DEF RowStays
  <2>3. ASSUME NEW u \in b + 1 .. v - 1 PROVE runs'[u].state = "failed"
    <3>1. u \in Versions /\ u # 1 /\ runs[u].state = "failed"
      BY <2>1, <2>3, LifecycleAssumption DEF Versions
    <3>2. ~Reopened(u)
      BY <3>1 DEF OrderInv
    <3> QED  BY <3>1, <3>2 DEF RowStays
  <2> QED  BY <1>2, <2>1, <2>2, <2>3 DEF Follows
<1>4. CASE e \notin Replans
  BY <1>2, <1>4 DEF Follows
<1> QED  BY <1>3, <1>4

\* The invariant after a step: what is new has to be shown.
LEMMA OrderFrame ==
    ASSUME RunInv, OrderInv, RowStays, ThreadStays,
           \A v \in Versions : runs[v].state = None /\ runs'[v].state # None =>
               Follows(v, runs'[v].request),
           \A w \in Workers : \/ worker'[w] = worker[w]
                              \/ worker'[w].pc \notin {"begin", "corrected"}
                              \/ worker'[w].pc = "corrected" /\ Corrects(w)'
                              \/ /\ worker'[w].pc = "begin" /\ worker'[w].v \in Versions
                                 /\ Follows(worker'[w].v, worker'[w].event)
    PROVE  OrderInv'
<1>0. \A v \in Versions : \A e : Follows(v, e) => Follows(v, e)'
  BY FollowsStays
<1>1. ASSUME NEW v \in Begun', NEW e, e = runs'[v].request PROVE Follows(v, e)'
  <2>1. v \in Versions /\ runs'[v].state # None
    BY <1>1 DEF Begun
  <2>2. CASE runs[v].state = None
    BY <1>0, <1>1, <2>1, <2>2
  <2>3. CASE runs[v].state # None
    <3>1. e = runs[v].request /\ v \in Begun
      BY <1>1, <2>1, <2>3 DEF RowStays, Begun
    <3>2. Follows(v, e)
      BY <3>1 DEF OrderInv
    <3> QED  BY <1>0, <2>1, <3>2
  <2> QED  BY <2>2, <2>3
<1>2. \A v \in Versions : Reopened(v)' => v = 1
  BY ReopenedStays DEF OrderInv
<1>3. ASSUME NEW w \in Workers, worker'[w].pc = "begin", NEW v, v = worker'[w].v,
             NEW e, e = worker'[w].event
      PROVE  Follows(v, e)'
  <2>1. CASE worker'[w] = worker[w]
    <3>1. Follows(v, e) /\ v \in Versions
      BY <1>3, <2>1, WorkerFields DEF OrderInv, RunInv
    <3> QED  BY <1>0, <3>1
  <2>2. CASE v \in Versions /\ Follows(v, e)
    BY <1>0, <2>2
  <2> QED  BY <1>3, <2>1, <2>2
<1>4. ASSUME NEW w \in Workers, worker'[w].pc = "corrected" PROVE Corrects(w)'
  <2>1. CASE worker'[w] = worker[w]
    <3>1. Corrects(w) /\ worker[w].v \in Versions /\ worker[w].event \in Comments
      BY <1>4, <2>1, WorkerFields DEF OrderInv, RunInv, Knows
    <3> QED  BY <2>1, <3>1 DEF Corrects, ThreadStays
  <2> QED  BY <1>4, <2>1
<1>5. \A v \in Begun' : Follows(v, runs[v].request)'
  BY <1>1 DEF Follows, Past
<1>6. \A w \in Workers : (worker[w].pc = "begin" => Follows(worker[w].v, worker[w].event))'
  BY <1>3 DEF Follows, Past
<1> QED  BY <1>2, <1>4, <1>5, <1>6 DEF OrderInv

-----------------------------------------------------------------------------
(* What stays.                                                             *)

\* A thread that moves keeps its failed answers.
LEMMA ThreadStaysFor ==
    ASSUME TypeOK, NEW v \in Versions, NEW n, thread' = [thread EXCEPT ![v] = n],
           \A c \in Comments : n.claim[c].response.status = "failed" <=>
                               thread[v].claim[c].response.status = "failed"
    PROVE  ThreadStays
<1>1. thread'[v] = n /\ \A u \in Versions : u # v => thread'[u] = thread[u]
  BY DEF TypeOK
<1> QED  BY <1>1 DEF ThreadStays

\* No step adds or takes back a failed answer: the planner of this release fails
\* no thread.
LEMMA ThreadStep ==
    ASSUME RunInv, NEW w \in Workers,
           PlannerStart(w) \/ PlannerResume(w) \/ PlannerAbandon(w) \/ PlannerConvert(w)
    PROVE  ThreadStays
<1> DEFINE v == worker[w].v
           m == worker[w].marker
           t == thread[v]
<1>1. TypeOK /\ Knows(w) /\ v \in Versions /\ t \in Threads /\ ThreadOK(t)
  BY WorkerFields, RowFields DEF RunInv
<1>2. CASE UNCHANGED thread
  BY <1>2 DEF ThreadStays
<1>3. ASSUME t.claim[Start].state # "completed",
             NEW p \in {Started(t)} \union Planned(Started(t)),
             NEW n, n = Completed(p, Start, 0) \/ n = Claimed(p, Start, 0),
             thread' = [thread EXCEPT ![v] = n]
      PROVE  ThreadStays
  <2>1. \A c \in Comments : n.claim[c] = t.claim[c]
    <3> HIDE DEF t
    <3> QED  BY <1>1, <1>3, StartCompletes
  <2>2. \A c \in Comments : n.claim[c].response.status = "failed" <=>
                            t.claim[c].response.status = "failed"
    BY <2>1
  <2> HIDE DEF v
  <2> QED  BY <1>1, <1>3, <2>2, ThreadStaysFor
<1>4. CASE PlannerStart(w)
  <2>1. ASSUME t.claim[Start].state # "completed", NEW p \in Planned(Started(t)),
               thread' = [thread EXCEPT ![v] = Completed(p, Start, 0)]
        PROVE  ThreadStays
    BY <1>3, <2>1
  <2>2. ASSUME t.claim[Start].state # "completed",
               NEW p \in {Started(t)} \union Planned(Started(t)),
               thread' = [thread EXCEPT ![v] = Claimed(p, Start, 0)]
        PROVE  ThreadStays
    BY <1>3, <2>2
  <2> QED  BY <1>2, <1>4, <2>1, <2>2 DEF PlannerStart
<1>5. ASSUME m \in Markers, planner_resume_admits(t, m), t.claim[m.comment].state # "completed",
             NEW p \in {t, Consumed(t, m)} \union Planned(Consumed(t, m)), NEW n,
             \/ n = Completed(p, m.comment, m.interrupt) /\ p \in Planned(Consumed(t, m))
             \/ n = Claimed(p, m.comment, m.interrupt),
             thread' = [thread EXCEPT ![v] = n]
      PROVE  ThreadStays
  <2>0. m.comment \in Comments /\ \A c \in Comments : c \in Keys
    BY <1>5 DEF Markers, Keys
  <2> DEFINE k == m.comment
  <2>1. /\ \A c \in Keys : c # k => n.claim[c] = t.claim[c]
        /\ n.claim[k].response = Response(p) \/ n.claim[k].response = NoResponse
        /\ t.claim[k].state \in {None, "open"}
    <3> HIDE DEF t, m
    <3> QED  BY <1>1, <1>5, ResumeCompletes
  <2>2. p \in Threads /\ p.status \notin {"absent", "failed"}
    <3> HIDE DEF t, m
    <3> QED  BY <1>1, <1>5, ConsumedThread
  <2>3. Response(p).status # "failed" /\ NoResponse.status # "failed"
    BY <2>2, ResponseTyped, NothingTyped DEF None
  <2>4. n.claim[k].response.status # "failed" /\ t.claim[k].response.status # "failed"
    BY <1>1, <2>0, <2>1, <2>3 DEF ThreadOK, None
  <2>5. \A c \in Comments : n.claim[c].response.status = "failed" <=>
                            t.claim[c].response.status = "failed"
    BY <2>0, <2>1, <2>4
  <2> QED  BY <1>1, <1>5, <2>5, ThreadStaysFor
<1>6. CASE PlannerResume(w)
  <2>0. m \in Markers /\ planner_resume_admits(t, m)
    BY <1>1, <1>6, WorkerFields DEF PlannerResume, Knows, At
  <2>1. ASSUME t.claim[m.comment].state # "completed", NEW p \in Planned(Consumed(t, m)),
               thread' = [thread EXCEPT ![v] = Completed(p, m.comment, m.interrupt)]
        PROVE  ThreadStays
    BY <1>5, <2>0, <2>1
  <2>2. ASSUME t.claim[m.comment].state # "completed",
               NEW p \in {t, Consumed(t, m)} \union Planned(Consumed(t, m)),
               thread' = [thread EXCEPT ![v] = Claimed(p, m.comment, m.interrupt)]
        PROVE  ThreadStays
    BY <1>5, <2>0, <2>2
  <2> QED  BY <1>2, <1>6, <2>1, <2>2 DEF PlannerResume
<1>7. CASE PlannerAbandon(w)
  <2>0. m \in Markers /\ planner_abandon_admits(t, m) /\ \A c \in Comments : c \in Keys
    BY <1>1, <1>7, WorkerFields DEF PlannerAbandon, Knows, At, Keys
  <2>1. \A c \in Comments : Abandoned(t, m).claim[c].response = t.claim[c].response
    <3> HIDE DEF t, m
    <3> QED  BY <1>1, <2>0, AbandonedThread
  <2> DEFINE n == Abandoned(t, m)
  <2>2. thread' = [thread EXCEPT ![v] = n]
    BY <1>7 DEF PlannerAbandon
  <2>3. \A c \in Comments : n.claim[c].response.status = "failed" <=>
                            t.claim[c].response.status = "failed"
    BY <2>1
  <2> HIDE DEF v, n
  <2> QED  BY <1>1, <2>2, <2>3, ThreadStaysFor
<1>8. CASE PlannerConvert(w)
  <2>0. worker[w].event \in Comments /\ planner_convert_admits(t, worker[w].event)
    BY <1>1, <1>8 DEF PlannerConvert, Knows, At
  <2>1. Converted(t).claim = t.claim
    <3> HIDE DEF t
    <3> QED  BY <1>1, <2>0, ConvertedThread
  <2> DEFINE n == Converted(t)
  <2>2. thread' = [thread EXCEPT ![v] = n]
    BY <1>8 DEF PlannerConvert
  <2>3. \A c \in Comments : n.claim[c].response.status = "failed" <=>
                            t.claim[c].response.status = "failed"
    BY <2>1
  <2> HIDE DEF v, n
  <2> QED  BY <1>1, <2>2, <2>3, ThreadStaysFor
<1> QED  BY <1>4, <1>6, <1>7, <1>8

\* A row that is written keeps its request, and its place in the order.
LEMMA RowStaysFor ==
    ASSUME TypeOK, NEW v \in Versions, NEW row, runs' = [runs EXCEPT ![v] = row],
           runs[v].state # None => row.state # None /\ row.request = runs[v].request,
           runs[v].state = "published" => row.state = "published",
           runs[v].state = "failed" => row.state = "failed" \/ Reopened(v)
    PROVE  RowStays
<1>1. runs'[v] = row /\ \A u \in Versions : u # v => runs'[u] = runs[u]
  BY DEF TypeOK
<1> QED  BY <1>1 DEF RowStays

\* The state of a row is written, and moves from no terminal state.
LEMMA StateStays ==
    ASSUME TypeOK, NEW v \in Versions, NEW new \in States \ {None},
           runs' = [runs EXCEPT ![v].state = new],
           runs[v].state = "published" => new = "published",
           runs[v].state = "failed" => new = "failed" \/ Reopened(v)
    PROVE  RowStays
<1> DEFINE row == [runs[v] EXCEPT !.state = new]
<1>1. /\ runs' = [runs EXCEPT ![v] = row] /\ row.state = new /\ row.request = runs[v].request
  BY StateSet
<1> HIDE DEF row
<1> QED  BY <1>1, RowStaysFor

\* The marker of a row is written.
LEMMA MarkerStays ==
    ASSUME TypeOK, NEW v \in Versions, NEW m \in Markers \union {NoMarker},
           runs' = [runs EXCEPT ![v].marker = m]
    PROVE  RowStays
<1> DEFINE row == [runs[v] EXCEPT !.marker = m]
<1>1. /\ runs' = [runs EXCEPT ![v] = row] /\ row.state = runs[v].state
      /\ row.request = runs[v].request
  BY MarkerSet
<1> HIDE DEF row
<1> QED  BY <1>1, RowStaysFor

\* set_state() moves no terminal row.
LEMMA SetStateStays ==
    ASSUME RunInv, NEW w \in Workers, worker[w].pc \notin Early, NEW new,
           new \in _TRANSITIONS[worker[w].state], runs[worker[w].v].state \in {worker[w].state, new},
           runs' = [runs EXCEPT ![worker[w].v].state = new]
    PROVE  RowStays
<1>1. TypeOK /\ worker[w].v \in Versions /\ worker[w].state \in States \ {None}
  BY WorkerFields DEF RunInv, Knows
<1>2. /\ new \in States \ {None}
      /\ runs[worker[w].v].state \in Terminal => new = runs[worker[w].v].state
  BY <1>1, TransitionsKnown
<1> DEFINE v == worker[w].v
<1>3. /\ runs[v].state = "published" => new = "published"
      /\ runs[v].state = "failed" => new = "failed"
  BY <1>2 DEF Terminal
<1>4. v \in Versions /\ runs' = [runs EXCEPT ![v].state = new]
  BY <1>1
<1> HIDE DEF v
<1> QED  BY <1>1, <1>2, <1>3, <1>4, StateStays

\* The operations of the store keep the order.
LEMMA RowStep ==
    ASSUME RunInv, OrderInv, NEW w \in Workers, Step(w)
    PROVE  RowStays
<1> DEFINE v == worker[w].v
<1>1. TypeOK /\ Knows(w) /\ v \in Versions /\ runs \in [Versions -> Rows] /\ runs[v] \in Rows
  BY WorkerFields, RowFields DEF RunInv, TypeOK
<1>2. CASE UNCHANGED runs
  BY <1>2 DEF RowStays
<1>3. CASE Begin(w)
  <2>1. /\ runs[v].state = None /\ \A u \in Versions : u # v => runs'[u] = runs[u]
    BY <1>1, <1>3 DEF Begin, begin
  <2> QED  BY <2>1 DEF RowStays, None
<1>4. CASE RecordPendingResume(w) \/ ClearPendingResume(w) \/ CompleteAbandonment(w)
  <2>1. PICK m \in Markers \union {NoMarker} : runs' = [runs EXCEPT ![v].marker = m]
    BY <1>1, <1>4, WorkerFields DEF RecordPendingResume, record_pending_resume,
         ClearPendingResume, clear_pending_resume, CompleteAbandonment,
         complete_terminal_resume_abandonment
  <2> HIDE DEF v
  <2> QED  BY <1>1, <2>1, MarkerStays
<1>5. CASE SettleResponse(w) \/ RecordPublished(w) \/ RecordBlocked(w)
  <2>1. PICK new : /\ new \in _TRANSITIONS[worker[w].state]
                   /\ runs[v].state \in {worker[w].state, new}
                   /\ runs' = [runs EXCEPT ![v].state = new]
    BY <1>5 DEF SettleResponse, RecordPublished, RecordBlocked, set_state
  <2>2. worker[w].pc \notin Early
    BY <1>5 DEF SettleResponse, RecordPublished, RecordBlocked, At, Early
  <2> QED  BY <2>1, <2>2, SetStateStays
<1>6. CASE RecordPullRequest(w)
  <2> DEFINE row == [runs[v] EXCEPT !.state = "pr_open", !.pull = TRUE]
  <2>1. runs[v].state \in {"planning", "needs_input", "pr_open"} /\ runs' = [runs EXCEPT ![v] = row]
    BY <1>1, <1>6 DEF RecordPullRequest, record_pull_request, Rows
  <2>2. row.state = "pr_open" /\ row.request = runs[v].request
    BY <1>1 DEF Rows
  <2> HIDE DEF row, v
  <2> QED  BY <1>1, <2>1, <2>2, RowStaysFor DEF None
<1>7. CASE Approve(w)
  <2> DEFINE row == [runs[v] EXCEPT !.state = "publishing", !.approved = TRUE]
  <2>1. runs[v].state \in {"pr_open", "publishing"} /\ runs' = [runs EXCEPT ![v] = row]
    BY <1>1, <1>7 DEF Approve, approve_for_publication, Rows
  <2>2. row.state = "publishing" /\ row.request = runs[v].request
    BY <1>1 DEF Rows
  <2> HIDE DEF row, v
  <2> QED  BY <1>1, <2>1, <2>2, RowStaysFor DEF None
<1>8. CASE BindArtifact(w)
  <2> DEFINE row == [runs[v] EXCEPT !.approved = TRUE, !.bound = TRUE]
  <2>1. runs' = [runs EXCEPT ![v] = row]
    BY <1>1, <1>8 DEF BindArtifact, record_publication_binding, Rows
  <2>2. row.state = runs[v].state /\ row.request = runs[v].request
    BY <1>1 DEF Rows
  <2> HIDE DEF row, v
  <2> QED  BY <1>1, <2>1, <2>2, RowStaysFor
<1>9. CASE CompleteCorrection(w)
  <2> DEFINE new == "needs_input"
  <2>1. runs[v].state = "failed" /\ runs' = [runs EXCEPT ![v].state = new] /\ worker[w].pc = "corrected"
    BY <1>9 DEF CompleteCorrection, complete_critique_correction, At
  <2>2. Reopened(v)
    BY <1>1, <2>1 DEF OrderInv, Corrects, Knows, Reopened
  <2>3. new \in States \ {None}
    BY DEF States, None
  <2> HIDE DEF v, new
  <2> QED  BY <1>1, <2>1, <2>2, <2>3, StateStays
<1>10. CASE \/ NeedsRepository(w) \/ PlannerStart(w) \/ PlannerGet(w) \/ ReadInterrupt(w)
            \/ PlannerResume(w) \/ HandleResponse(w) \/ EnsurePullRequest(w) \/ OpenJournal(w)
            \/ Publish(w) \/ PlannerAbandon(w) \/ PlannerConvert(w)
            \/ _ensure_interrupt_side_effects(w)
  BY <1>2, <1>10 DEF NeedsRepository, PlannerStart, PlannerGet, ReadInterrupt, PlannerResume,
       HandleResponse, EnsurePullRequest, OpenJournal, Publish, PlannerAbandon, PlannerConvert,
       _ensure_interrupt_side_effects
<1> QED  BY <1>3, <1>4, <1>5, <1>6, <1>7, <1>8, <1>9, <1>10 DEF Step

-----------------------------------------------------------------------------
(* The steps.                                                              *)

\* The forms in which a worker moves.
LEMMA PlaceSet ==
    ASSUME TypeOK, NEW w \in Workers, NEW place, NEW a,
           \/ worker' = [worker EXCEPT ![w] = Idle] /\ place = "idle"
           \/ worker' = [worker EXCEPT ![w].pc = place]
           \/ worker' = [worker EXCEPT ![w].pc = place, ![w].response = a]
           \/ worker' = [worker EXCEPT ![w].pc = place, ![w].state = a]
           \/ worker' = [worker EXCEPT ![w].pc = place, ![w].marker = a]
           \/ UNCHANGED worker,
           NEW o \in Workers
    PROVE  worker'[o] = worker[o] \/ (o = w /\ worker'[o].pc = place)
<1>1. worker \in [Workers -> Process] /\ worker[w] \in Process
  BY WorkerFields DEF TypeOK, Process
<1> QED  BY <1>1 DEF Process, Idle

\* Where a worker goes after its first step; only a conversion leads to a correction.
LEMMA PlaceStep ==
    ASSUME RunInv, NEW w \in Workers, Step(w), NEW o \in Workers
    PROVE  \/ worker'[o] = worker[o]
           \/ worker'[o].pc \notin {"begin", "convert", "corrected"}
           \/ o = w /\ PlannerConvert(w) /\ worker'[o].pc = "corrected"
<1>0. worker \in [Workers -> Process] /\ worker[w] \in Process
  BY WorkerFields DEF RunInv, TypeOK, Process
<1>1. TypeOK
  BY DEF RunInv
<1>2. ASSUME NEW place, NEW a, place \notin {"begin", "convert", "corrected"},
             \/ worker' = [worker EXCEPT ![w] = Idle] /\ place = "idle"
             \/ worker' = [worker EXCEPT ![w].pc = place]
             \/ worker' = [worker EXCEPT ![w].pc = place, ![w].response = a]
             \/ worker' = [worker EXCEPT ![w].pc = place, ![w].state = a]
             \/ worker' = [worker EXCEPT ![w].pc = place, ![w].marker = a]
             \/ UNCHANGED worker
      PROVE  worker'[o] = worker[o] \/ worker'[o].pc \notin {"begin", "convert", "corrected"}
  BY <1>1, <1>2, PlaceSet
<1>3. CASE PlannerConvert(w)
  <2>1. PICK a : worker' = [worker EXCEPT ![w].pc = "corrected", ![w].response = a]
    BY <1>3 DEF PlannerConvert, Replied
  <2> QED  BY <1>0, <1>3, <2>1 DEF Process
<1>4. CASE Leave(w) \/ Return(w) \/ worker' = [worker EXCEPT ![w] = Idle]
  <2>1. worker' = [worker EXCEPT ![w] = Idle] \/ worker' = [worker EXCEPT ![w].pc = "clear"]
    BY <1>4 DEF Leave, Return, Goto
  <2> QED  BY <1>0, <2>1 DEF Process, Idle
<1>5. CASE Begin(w) \/ RecordPendingResume(w) \/ BindArtifact(w)
  BY <1>2, <1>5 DEF Begin, RecordPendingResume, BindArtifact
<1>6. CASE \/ NeedsRepository(w) \/ SettleResponse(w) \/ RecordPullRequest(w)
           \/ ClearPendingResume(w) \/ RecordPublished(w) \/ RecordBlocked(w)
           \/ CompleteAbandonment(w) \/ _ensure_interrupt_side_effects(w)
  BY <1>4, <1>6 DEF NeedsRepository, SettleResponse, RecordPullRequest, ClearPendingResume,
       RecordPublished, RecordBlocked, CompleteAbandonment, _ensure_interrupt_side_effects
<1>7. CASE PlannerStart(w) \/ PlannerGet(w) \/ ReadInterrupt(w) \/ PlannerResume(w)
  <2>1. \/ worker' = [worker EXCEPT ![w] = Idle]
        \/ Goto(w, "start")
        \/ \E r : Replied(w, "respond", r)
        \/ \E m : worker' = [worker EXCEPT ![w].pc = "record", ![w].marker = m]
    BY <1>7 DEF PlannerStart, PlannerGet, ReadInterrupt, PlannerResume
  <2>2. CASE \E r : Replied(w, "respond", r)
    <3>1. PICK r : worker' = [worker EXCEPT ![w].pc = "respond", ![w].response = r]
      BY <2>2 DEF Replied
    <3> QED  BY <1>0, <3>1 DEF Process
  <2>3. CASE \E m : worker' = [worker EXCEPT ![w].pc = "record", ![w].marker = m]
    <3>1. PICK m : worker' = [worker EXCEPT ![w].pc = "record", ![w].marker = m]
      BY <2>3
    <3> QED  BY <1>0, <3>1 DEF Process
  <2>4. CASE Goto(w, "start")
    BY <1>0, <2>4 DEF Goto, Process
  <2> QED  BY <1>4, <2>1, <2>2, <2>3, <2>4
<1>8. CASE \/ HandleResponse(w) \/ EnsurePullRequest(w) \/ Approve(w) \/ OpenJournal(w)
           \/ Publish(w) \/ PlannerAbandon(w) \/ CompleteCorrection(w)
  <2>1. \/ Leave(w) \/ UNCHANGED worker
        \/ \E place \in {"settle", "pull", "bind_pull", "bind", "publishing", "block", "published",
                         "restored", "notify"} : Goto(w, place)
    BY <1>8 DEF HandleResponse, EnsurePullRequest, Approve, OpenJournal, Publish, PlannerAbandon,
         CompleteCorrection
  <2> QED  BY <1>2, <1>4, <2>1 DEF Goto
<1> QED  BY <1>3, <1>5, <1>6, <1>7, <1>8 DEF Step

\* Nothing is begun or answered.
LEMMA OrderMoves ==
    ASSUME RunInv, OrderInv, UNCHANGED <<runs, thread>>,
           \A o \in Workers : \/ worker'[o] = worker[o]
                              \/ worker'[o].pc \notin {"begin", "corrected"}
                              \/ /\ worker'[o].pc = "begin" /\ worker'[o].v \in Versions
                                 /\ Follows(worker'[o].v, worker'[o].event)
    PROVE  OrderInv'
<1>1. RowStays /\ ThreadStays
  BY DEF RowStays, ThreadStays
<1> QED  BY <1>1, OrderFrame

\* A worker that begins at another place than begin().
LEMMA OrderEnters ==
    ASSUME RunInv, OrderInv, UNCHANGED <<runs, thread>>, NEW w \in Workers, NEW place \in Places,
           NEW e \in Events, NEW v \in Versions, NEW m \in Markers \union {NoMarker},
           Enter(w, place, e, v, m), place # "corrected",
           place = "begin" => Follows(v, e)
    PROVE  OrderInv'
<1>1. TypeOK
  BY DEF RunInv
<1>2. /\ worker'[w].pc = place /\ worker'[w].v = v /\ worker'[w].event = e
      /\ \A o \in Workers : o # w => worker'[o] = worker[o]
  BY <1>1, Entered
<1> QED  BY <1>2, OrderMoves

\* The latest version, and the latest that is published, in the order.
LEMMA LatestFollows ==
    ASSUME RunInv, OrderInv
    PROVE  /\ latest_for_idea # 0 => Follows(latest_for_idea, runs[latest_for_idea].request)
           /\ latest_published # 0 =>
                /\ latest_published \in Versions /\ runs[latest_published].state = "published"
                /\ latest_published <= latest_for_idea
                /\ Follows(latest_published, runs[latest_published].request)
<1>1. latest_for_idea # 0 => latest_for_idea \in Begun
  BY LatestFound
<1>2. latest_published # 0 => latest_published \in PublishedVersions
  BY LatestFound
<1>3. PublishedVersions \subseteq Begun
  BY DEF PublishedVersions, Begun, None
<1>4. latest_published # 0 => latest_published <= latest_for_idea
  BY <1>2, <1>3, LatestFound
<1> QED  BY <1>1, <1>2, <1>3, <1>4 DEF OrderInv, PublishedVersions

\* A work-package event begins a version when the latest one is done.
LEMMA WorkPackageOrdered ==
    ASSUME RunInv, OrderInv, NEW w \in Workers, NEW e \in Changes, _work_package_changed(w, e)
    PROVE  OrderInv'
<1> DEFINE v == latest_for_idea
<1>1. UNCHANGED <<runs, thread>> /\ e \in Events /\ e \notin Replans
  BY LifecycleAssumption DEF _work_package_changed, Events
<1>2. CASE UNCHANGED worker
  BY <1>1, <1>2, OrderMoves
<1>3. CASE Active(v) /\ Enter(w, "get", e, v, NoMarker)
  <2>1. v \in Versions /\ "get" \in Places
    BY <1>3, LatestVersion DEF Active, Places
  <2> HIDE DEF v
  <2> QED  BY <1>1, <1>3, <2>1, OrderEnters
<1>4. CASE ~Active(v) /\ v < MaxVersion /\ Enter(w, "begin", e, v + 1, NoMarker)
  <2>1. v + 1 \in Versions /\ "begin" \in Places /\ v \in Nat /\ (v # 0 => v \in Versions)
    BY <1>4, LatestVersion DEF Places
  <2>2. ASSUME NEW u \in 1 .. v PROVE Past(u)
    <3>1. CASE u = v
      BY <1>4, <2>1, <2>2, <3>1 DEF Active, Past
    <3>2. CASE u # v
      <4>1. u \in 1 .. v - 1 /\ v # 0
        BY <2>1, <2>2, <3>2
      <4> QED  BY <4>1, LatestFollows DEF Follows
    <3> QED  BY <3>1, <3>2
  <2>3. (v + 1) - 1 = v
    BY <2>1
  <2>4. Follows(v + 1, e)
    BY <1>1, <2>2, <2>3 DEF Follows
  <2> DEFINE n == v + 1
  <2>5. n \in Versions /\ Follows(n, e) /\ Enter(w, "begin", e, n, NoMarker)
    BY <1>4, <2>1, <2>4
  <2> HIDE DEF n, v
  <2> QED  BY <1>1, <2>1, <2>5, OrderEnters
<1> QED  BY <1>2, <1>3, <1>4 DEF _work_package_changed

\* A replan begins a version on top of the latest published one.
LEMMA ReplanOrdered ==
    ASSUME RunInv, OrderInv, NEW w \in Workers, NEW e \in Replans, _replan_affected_subgraph(w, e)
    PROVE  OrderInv'
<1> DEFINE v == latest_for_idea
           b == Base[e]
<1>1. /\ UNCHANGED <<runs, thread>> /\ e \in Events /\ b \in Versions /\ b # 0
      /\ latest_published = b
  BY LifecycleAssumption DEF _replan_affected_subgraph, Events, Versions
<1>2. /\ runs[b].state = "published" /\ b <= v /\ v \in Versions /\ v # 0
      /\ v \in Nat /\ b \in Nat
      /\ Follows(v, runs[v].request) /\ Follows(b, runs[b].request)
  BY <1>1, LatestFollows, LatestVersion DEF Versions
<1>3. CASE UNCHANGED worker
  BY <1>1, <1>3, OrderMoves
<1>4. CASE Enter(w, "get", e, v, NoMarker)
  <2>1. "get" \in Places
    BY DEF Places
  <2> HIDE DEF v
  <2> QED  BY <1>1, <1>2, <1>4, <2>1, OrderEnters
<1>5. CASE /\ v = b \/ (runs[v].state = "failed" /\ runs[v].request \in Replans \ {e}
                         /\ Base[runs[v].request] = b)
           /\ v < MaxVersion /\ Enter(w, "begin", e, v + 1, NoMarker)
  <2>1. v + 1 \in Versions /\ "begin" \in Places /\ (v + 1) - 1 = v
    BY <1>2, <1>5, LatestVersion DEF Places
  <2>2. runs[v].state \in Terminal
    BY <1>2, <1>5 DEF Terminal
  <2>3. ASSUME NEW u \in 1 .. v PROVE Past(u)
    <3>1. CASE u = v
      BY <2>2, <3>1 DEF Past
    <3>2. CASE u # v
      <4>1. u \in 1 .. v - 1
        BY <1>2, <2>3, <3>2
      <4> QED  BY <1>2, <4>1 DEF Follows
    <3> QED  BY <3>1, <3>2
  <2>4. ASSUME NEW u \in b + 1 .. v PROVE runs[u].state = "failed"
    <3>1. v # b
      BY <1>2, <2>4
    <3>2. /\ runs[v].state = "failed" /\ runs[v].request \in Replans
          /\ Base[runs[v].request] = b
      BY <1>5, <3>1
    <3>3. CASE u = v
      BY <3>2, <3>3
    <3>4. CASE u # v
      <4>1. u \in b + 1 .. v - 1
        BY <1>2, <2>4, <3>4
      <4> QED  BY <1>2, <3>2, <4>1 DEF Follows
    <3> QED  BY <3>3, <3>4
  <2>5. b < v + 1
    BY <1>2
  <2>6. Follows(v + 1, e)
    BY <1>2, <2>1, <2>3, <2>4, <2>5 DEF Follows
  <2> DEFINE n == v + 1
  <2>7. n \in Versions /\ Follows(n, e) /\ Enter(w, "begin", e, n, NoMarker)
    BY <1>5, <2>1, <2>6
  <2> HIDE DEF n, v
  <2> QED  BY <1>1, <2>1, <2>7, OrderEnters
<1> QED  BY <1>3, <1>4, <1>5 DEF _replan_affected_subgraph

\* The other handlers begin no version.
LEMMA HandlersOrdered ==
    ASSUME RunInv, OrderInv, NEW w \in Workers,
           \/ \E c \in Comments : _planning_input(w, c)
           \/ \E e \in Merges : _pull_request(w, e)
           \/ \E e \in Nights : _reconcile(w, e)
           \/ Correct(w)
    PROVE  OrderInv'
<1>1. UNCHANGED <<runs, thread>>
  BY DEF _planning_input, _pull_request, _reconcile, Correct, abandon_terminal_resume,
         convert_failed_critique_to_interrupt
<1>2. CASE UNCHANGED worker
  BY <1>1, <1>2, OrderMoves
<1>3. ASSUME NEW x, worker' = [worker EXCEPT ![w] = x], x.pc \notin {"begin", "corrected"}
      PROVE  OrderInv'
  <2>1. \A o \in Workers : worker'[o] = worker[o] \/ worker'[o].pc \notin {"begin", "corrected"}
    BY <1>3 DEF RunInv, TypeOK
  <2> QED  BY <1>1, <2>1, OrderMoves
<1>4. ASSUME NEW place \in {"ask", "resume", "approve", "bind", "abandon", "convert"},
             NEW e, NEW v, NEW m, Enter(w, place, e, v, m)
      PROVE  OrderInv'
  <2> DEFINE x == [Idle EXCEPT !.pc = place, !.event = e, !.v = v, !.state = runs[v].state,
                               !.marker = m]
  <2>1. worker' = [worker EXCEPT ![w] = x]
    BY <1>4 DEF Enter
  <2>2. x.pc \notin {"begin", "corrected"}
    BY <1>4 DEF Idle
  <2> HIDE DEF x
  <2> QED  BY <1>3, <2>1, <2>2
<1>5. ASSUME NEW c \in Comments, _planning_input(w, c) PROVE OrderInv'
  BY <1>2, <1>4, <1>5 DEF _planning_input
<1>6. ASSUME NEW e \in Merges, _pull_request(w, e) PROVE OrderInv'
  BY <1>2, <1>4, <1>6 DEF _pull_request, Merged
<1>7. ASSUME NEW e \in Nights, _reconcile(w, e) PROVE OrderInv'
  BY <1>2, <1>4, <1>7 DEF _reconcile, Merged
<1>8. ASSUME NEW v \in Versions, abandon_terminal_resume(w, v) PROVE OrderInv'
  BY <1>4, <1>8 DEF abandon_terminal_resume
<1>9. ASSUME NEW v \in Versions, NEW c \in Comments, convert_failed_critique_to_interrupt(w, v, c)
      PROVE  OrderInv'
  <2> DEFINE x == [Idle EXCEPT !.pc = "notify", !.event = c, !.v = v,
                               !.response = Response(thread[v])]
  <2>1. Enter(w, "convert", c, v, NoMarker) \/ worker' = [worker EXCEPT ![w] = x]
    BY <1>9 DEF convert_failed_critique_to_interrupt
  <2>2. x.pc \notin {"begin", "corrected"}
    BY DEF Idle
  <2> HIDE DEF x
  <2> QED  BY <1>3, <1>4, <2>1, <2>2
<1> QED  BY <1>5, <1>6, <1>7, <1>8, <1>9 DEF Correct

\* A step of a handler.
LEMMA StepOrdered ==
    ASSUME RunInv, OrderInv, NEW w \in Workers, Step(w)
    PROVE  OrderInv'
<1> DEFINE v == worker[w].v
<1>1. TypeOK /\ Knows(w) /\ v \in Versions /\ runs \in [Versions -> Rows] /\ RowStays
  BY WorkerFields, RowStep DEF RunInv, TypeOK
<1>2. ThreadStays
  <2>1. CASE PlannerStart(w) \/ PlannerResume(w) \/ PlannerAbandon(w) \/ PlannerConvert(w)
    BY <2>1, ThreadStep
  <2>2. CASE UNCHANGED thread
    BY <2>2 DEF ThreadStays
  <2>3. UNCHANGED thread \/ PlannerStart(w) \/ PlannerResume(w) \/ PlannerAbandon(w)
        \/ PlannerConvert(w)
    BY DEF Step, Begin, NeedsRepository, PlannerGet, ReadInterrupt, RecordPendingResume,
         HandleResponse, SettleResponse, EnsurePullRequest, RecordPullRequest,
         ClearPendingResume, Approve, BindArtifact, OpenJournal, Publish, RecordPublished,
         RecordBlocked, CompleteAbandonment, CompleteCorrection, _ensure_interrupt_side_effects
  <2> QED  BY <2>1, <2>2, <2>3
<1>3. ASSUME NEW u \in Versions, runs[u].state = None, runs'[u].state # None
      PROVE  Follows(u, runs'[u].request)
  <2>1. CASE Begin(w)
    <3>1. /\ worker[w].pc = "begin"
          /\ runs' = [runs EXCEPT ![v] = [NoRun EXCEPT !.state = "planning",
                                                       !.request = worker[w].event]]
      BY <2>1 DEF Begin, begin, At
    <3>2. u = v
      BY <1>1, <1>3, <3>1
    <3>3. runs'[u].request = worker[w].event
      BY <1>1, <3>1, <3>2 DEF NoRun
    <3>4. Follows(v, worker[w].event)
      BY <3>1 DEF OrderInv
    <3> QED  BY <3>2, <3>3, <3>4
  <2>2. CASE ~Begin(w)
    <3>1. worker[w].pc \in {"record", "settle", "bind_pull", "clear", "approve", "bind",
                            "published", "block", "restored", "corrected"}
          /\ \A x \in Versions : x # v => runs'[x] = runs[x]
      <4>1. runs' # runs
        BY <1>3
      <4> QED  BY <1>1, <2>2, <4>1 DEF Step, NeedsRepository, PlannerStart, PlannerGet,
            ReadInterrupt, PlannerResume, HandleResponse, EnsurePullRequest, OpenJournal, Publish,
            PlannerAbandon, PlannerConvert, _ensure_interrupt_side_effects, At,
            RecordPendingResume, record_pending_resume, SettleResponse, set_state,
            RecordPullRequest, record_pull_request, ClearPendingResume, clear_pending_resume,
            Approve, approve_for_publication, BindArtifact, record_publication_binding,
            RecordPublished, RecordBlocked, CompleteAbandonment,
            complete_terminal_resume_abandonment, CompleteCorrection,
            complete_critique_correction
    <3>2. u = v
      BY <1>3, <3>1
    <3>3. runs[v].state # None
      <4>1. CASE worker[w].pc \notin Early
        BY <1>1, <4>1 DEF Knows
      <4>2. CASE worker[w].pc \in {"restored", "corrected"}
        <5>1. CompleteAbandonment(w) \/ CompleteCorrection(w)
          BY <1>3, <2>2, <4>2 DEF Step, NeedsRepository, PlannerStart, PlannerGet,
            ReadInterrupt, PlannerResume, HandleResponse, EnsurePullRequest, OpenJournal, Publish,
            PlannerAbandon, PlannerConvert, _ensure_interrupt_side_effects, At,
            RecordPendingResume, SettleResponse, RecordPullRequest, ClearPendingResume,
            Approve, BindArtifact, RecordPublished, RecordBlocked
        <5> QED  BY <5>1 DEF CompleteAbandonment, complete_terminal_resume_abandonment,
                   CompleteCorrection, complete_critique_correction, None
      <4> QED  BY <3>1, <4>1, <4>2 DEF Early
    <3> QED  BY <1>3, <3>2, <3>3
  <2> QED  BY <2>1, <2>2
<1>4. ASSUME NEW o \in Workers
      PROVE  \/ worker'[o] = worker[o]
             \/ worker'[o].pc \notin {"begin", "corrected"}
             \/ worker'[o].pc = "corrected" /\ Corrects(o)'
  <2>1. CASE o = w /\ PlannerConvert(w) /\ worker'[o].pc = "corrected"
    <3>1. /\ worker[w].pc = "convert" /\ planner_convert_admits(thread[v], worker[w].event)
          /\ Replied(w, "corrected", Response(Converted(thread[v])))
      BY <2>1 DEF PlannerConvert, At
    <3>2. worker'[w].v = v /\ worker'[w].event = worker[w].event
      <4>1. worker \in [Workers -> Process] /\ worker[w] \in Process
        BY <1>1, WorkerFields DEF TypeOK, Process
      <4> QED  BY <3>1, <4>1 DEF Replied, Process
    <3>3. worker[w].event \in Comments
      BY <1>1, <3>1 DEF Knows
    <3>4. thread[v].claim[worker[w].event].response.status = "failed"
      BY <3>1 DEF planner_convert_admits
    <3>5. thread'[v].claim[worker[w].event].response.status = "failed"
      BY <1>1, <1>2, <3>3, <3>4 DEF ThreadStays
    <3> QED  BY <2>1, <3>2, <3>5 DEF Corrects
  <2> QED  BY <2>1, PlaceStep
<1> QED  BY <1>1, <1>2, <1>3, <1>4, OrderFrame

\* The invariant is inductive.
LEMMA OrderStep ==
    ASSUME RunInv, OrderInv, [Next]_vars
    PROVE  OrderInv'
<1>1. CASE UNCHANGED <<runs, thread, worker>>
  BY <1>1, OrderMoves
<1>2. CASE UNCHANGED vars
  BY <1>1, <1>2 DEF vars
<1>3. ASSUME NEW v \in Versions, Merge(v) PROVE OrderInv'
  BY <1>1, <1>3 DEF Merge
<1>4. ASSUME NEW w \in Workers, Retry(w) \/ DeadLetter(w) PROVE OrderInv'
  <2>1. UNCHANGED <<runs, thread>> /\ worker' = [worker EXCEPT ![w] = Idle] /\ TypeOK
    BY <1>4 DEF Retry, DeadLetter, Fail, RunInv
  <2>2. worker'[w].pc = "idle" /\ \A o \in Workers : o # w => worker'[o] = worker[o]
    BY <2>1, IdleWorker
  <2> QED  BY <2>1, <2>2, OrderMoves
<1>5. ASSUME NEW w \in Workers, Handle(w) \/ Correct(w) PROVE OrderInv'
  BY <1>5, WorkPackageOrdered, ReplanOrdered, HandlersOrdered DEF Handle
<1> QED  BY <1>2, <1>3, <1>4, <1>5, StepOrdered DEF Next

\* The invariant holds initially, of the runs of an earlier release too.
LEMMA OrderInit ==
    ASSUME Init
    PROVE  OrderInv
<1>1. \A w \in Workers : worker[w].pc \notin {"begin", "corrected"}
  BY DEF Init, Idle
<1>2. \A c \in Comments : c \in Keys
  BY DEF Keys
<1>3. \A c \in Comments : NoThread.claim[c].response.status # "failed"
  BY <1>2, NothingTyped DEF None
<1>4. PICK A \in Arrivals :
        \/ Fresh(A)
        \/ \E e \in Changes, c \in Comments \intersect A : LegacyAnswer(A, e, c)
        \/ \E e \in Changes, m \in Merges, r \in Replans \intersect A : LegacyReplan(A, e, m, r)
  BY DEF Init
<1>5. CASE Fresh(A)
  <2>1. \A v \in Versions : runs[v] = NoRun /\ thread[v] = NoThread
    BY <1>5 DEF Fresh
  <2>2. Begun = {}
    BY <2>1, NothingTyped DEF Begun
  <2>3. \A v \in Versions : ~Reopened(v)
    BY <1>3, <2>1 DEF Reopened
  <2> QED  BY <1>1, <2>2, <2>3 DEF OrderInv
<1>6. ASSUME NEW e \in Changes, NEW c \in Comments, LegacyAnswer(A, e, c)
      PROVE  OrderInv
  <2> DEFINE row == [NoRun EXCEPT !.state = "needs_input", !.request = e]
  <2>1. row.request = e
    BY DEF NoRun
  <2>2. /\ runs = [v \in Versions |-> IF v = 1 THEN row ELSE NoRun]
        /\ thread = [v \in Versions |-> IF v = 1 THEN Exhausted(c) ELSE NoThread]
    BY <1>6 DEF LegacyAnswer
  <2> HIDE DEF row
  <2>3. /\ runs[1] = row
        /\ \A v \in Versions : v # 1 => runs[v] = NoRun /\ thread[v] = NoThread
    BY <2>2, FirstVersions
  <2>4. Begun \subseteq {1}
    BY <2>3, NothingTyped DEF Begun
  <2>5. \A v \in Versions : Reopened(v) => v = 1
    BY <1>3, <2>3 DEF Reopened
  <2>6. Follows(1, runs[1].request)
    <3>1. e \notin Replans /\ 1 .. 1 - 1 = {}
      BY LifecycleAssumption
    <3> QED  BY <2>1, <2>3, <3>1 DEF Follows
  <2> QED  BY <1>1, <2>4, <2>5, <2>6 DEF OrderInv
<1>7. ASSUME NEW e \in Changes, NEW m \in Merges, NEW r \in Replans, LegacyReplan(A, e, m, r)
      PROVE  OrderInv
  <2> DEFINE one == [NoRun EXCEPT !.state = "published", !.request = e, !.pull = TRUE,
                                  !.approved = TRUE, !.bound = TRUE]
             two == [NoRun EXCEPT !.state = "failed", !.request = r]
             t == Completed([NoThread EXCEPT !.status = "artifacts_ready"], Start, 0)
             u == Completed([NoThread EXCEPT !.status = "failed"], Start, 0)
  <2>1. /\ one.state = "published" /\ one.request = e /\ two.state = "failed" /\ two.request = r
    BY DEF NoRun
  <2>2. \A c \in Comments : t.claim[c] = NoClaim /\ u.claim[c] = NoClaim
    BY EndedOK
  <2>3. /\ runs = [v \in Versions |-> CASE v = 1 -> one [] v = 2 -> two [] OTHER -> NoRun]
        /\ thread = [v \in Versions |-> CASE v = 1 -> t [] v = 2 -> u [] OTHER -> NoThread]
        /\ MaxVersion > 2 /\ Base[r] = 1
    BY <1>7 DEF LegacyReplan
  <2> HIDE DEF one, two, t, u
  <2>4. /\ 1 \in Versions /\ 2 \in Versions
        /\ runs[1] = one /\ runs[2] = two /\ thread[1] = t /\ thread[2] = u
        /\ \A v \in Versions : v \notin {1, 2} => runs[v] = NoRun /\ thread[v] = NoThread
    BY <2>3, FirstVersions
  <2>5. Begun \subseteq {1, 2}
    BY <2>4, NothingTyped DEF Begun
  <2>6. \A v \in Versions : ~Reopened(v)
    <3> SUFFICES ASSUME NEW v \in Versions, NEW c \in Comments
                 PROVE  thread[v].claim[c].response.status # "failed"
      BY DEF Reopened
    <3>1. NoClaim.response.status # "failed"
      BY NothingTyped DEF None
    <3> QED  BY <1>3, <2>2, <2>4, <3>1
  <2>7. Follows(1, runs[1].request)
    <3>1. e \notin Replans /\ 1 .. 1 - 1 = {}
      BY LifecycleAssumption
    <3> QED  BY <2>1, <2>4, <3>1 DEF Follows
  <2>8. Follows(2, runs[2].request)
    <3>1. \A x \in 1 .. 2 - 1 : x = 1
      OBVIOUS
    <3>2. 1 + 1 .. 2 - 1 = {} /\ 1 < 2
      OBVIOUS
    <3> QED  BY <2>1, <2>3, <2>4, <3>1, <3>2 DEF Follows, Past, Terminal
  <2> QED  BY <1>1, <2>5, <2>6, <2>7, <2>8 DEF OrderInv
<1> QED  BY <1>4, <1>5, <1>6, <1>7

\* The invariant holds of every state.
LEMMA OrderAlways == Spec => [](RunInv /\ OrderInv)
<1>1. Init => RunInv /\ OrderInv
  BY RunInit, OrderInit
<1>2. RunInv /\ OrderInv /\ [Next]_vars => (RunInv /\ OrderInv)'
  BY RunStep, OrderStep
<1> QED  BY <1>1, <1>2, PTL DEF Spec

-----------------------------------------------------------------------------
(* The theorems.                                                           *)

\* At most one version of a plan is in work, whatever work-package events,
\* replans and corrections decided to begin a version on the same reading of the
\* store (_work_package_changed, _replan_affected_subgraph, begin).
THEOREM OneActiveAlways == Spec => []OneActive
<1>1. ASSUME OrderInv, NEW u \in Begun, NEW v \in Begun, Active(u), Active(v), ~Reopened(u),
             u < v
      PROVE  FALSE
  <2>1. u \in 1 .. v - 1 /\ Follows(v, runs[v].request)
    BY <1>1 DEF Begun, Versions, OrderInv
  <2>2. Past(u)
    BY <2>1 DEF Follows
  <2> QED  BY <1>1, <2>2 DEF Past, Active
<1>2. OrderInv => OneActive
  <2> SUFFICES ASSUME OrderInv, NEW u \in Begun, NEW v \in Begun, Active(u), Active(v),
                      ~Reopened(u), ~Reopened(v)
               PROVE  u = v
    BY DEF OneActive
  <2>1. u \in Nat /\ v \in Nat
    BY DEF Begun, Versions
  <2> QED  BY <1>1, <2>1
<1> QED  BY <1>2, OrderAlways, PTL

\* Versions are published in order, and a bounded replan on top of the version it
\* started from, with nothing but failed runs between them: the check before the
\* publication reads no more than the latest published version
\* (_replan_publication_context).
THEOREM PublishedInOrderAlways == Spec => []PublishedInOrder
<1>1. OrderInv => PublishedInOrder
  <2> SUFFICES ASSUME OrderInv, NEW v \in Versions, runs[v].state = "published"
               PROVE  /\ \A u \in 1 .. v - 1 : runs[u].state \in Terminal \/ Reopened(u)
                      /\ runs[v].request \in Replans =>
                           LET b == Base[runs[v].request]
                           IN  /\ runs[b].state = "published"
                               /\ \A u \in b + 1 .. v - 1 : runs[u].state = "failed"
    BY DEF PublishedInOrder
  <2>1. v \in Begun
    BY DEF Begun, None
  <2>2. Follows(v, runs[v].request)
    BY <2>1 DEF OrderInv
  <2> QED  BY <2>2 DEF Follows, Past
<1> QED  BY <1>1, OrderAlways, PTL

-----------------------------------------------------------------------------
(* The questions.                                                          *)

\* A thread whose answers include one that failed.
FailedOnce(t) == \E c \in Comments : t.claim[c].response.status = "failed"
Convertible(t) == \E c \in Comments : planner_convert_admits(t, c)

\* The marker m will replay the request that raised the interrupt of the thread.
Replays(m, t) ==
    /\ m # NoMarker
    /\ \/ t.claim[m.comment].state = "completed" /\ t.claim[m.comment].response = Response(t)
       \/ /\ t.claim[m.comment].state = "open" /\ t.consumed = m.comment
          /\ m.interrupt # t.interrupt

Taken(m, t) == t.claim[m.comment].state \in {"completed", "abandoned"}

\* The interrupts of a version that were asked.
Asked(A, v) == {i \in 1 .. MaxInterrupt : <<v, i>> \in A}

\* A row, its thread and the questions that were asked of it.
Asks(row, t, Q) ==
    /\ row.state \in {None, "planning"} => row.marker = NoMarker /\ t.raised <= 1
    /\ row.state = "needs_input" \/ FailedOnce(t) => 1 \in Q
    /\ row.marker # NoMarker => row.marker.interrupt <= t.raised
    /\ row.state = "needs_input" /\ t.interrupt # 0 /\ ~Convertible(t) =>
         t.interrupt \in Q \/ Replays(row.marker, t)

\* What a worker x knows of the questions of its version.
KnowsAsked(x, row, t, Q) ==
    /\ x.pc \in {"ask", "record", "resume", "abandon", "restored"}
         \/ (x.pc \in Answering /\ x.marker # NoMarker) => row.state \notin {None, "planning"}
    /\ x.pc \in {"record", "resume", "abandon"} => x.marker.interrupt <= t.raised
    /\ x.pc \in {"resume", "abandon"} => row.marker = x.marker \/ Taken(x.marker, t)
    /\ x.pc \in Answering => x.response.interrupt <= t.raised
    /\ x.pc \in Answering /\ x.marker # NoMarker => t.claim[x.marker.comment].response = x.response
    /\ x.pc \in {"settle", "clear"} /\ x.response.status = "needs_input" => x.response.interrupt \in Q
    /\ x.pc \in {"pull", "bind_pull"} => x.response.status = "artifacts_ready"
    /\ x.pc = "abandon" => 1 \in Q
    /\ x.pc \in {"convert", "corrected"} => row.state = "failed" /\ row.marker = NoMarker
    /\ x.pc = "corrected" => planner_convert_admits(t, x.event) /\ t.interrupt # 0

\* The lock of the corrections.
Correcting(w) == worker[w].pc \in {"convert", "corrected", "notify"}

AskedInv ==
    /\ \A v \in Versions : Asks(runs[v], thread[v], Asked(asked, v))
    /\ \A w \in Workers : LET v == worker[w].v
                          IN  KnowsAsked(worker[w], runs[v], thread[v], Asked(asked, v))
    /\ \A w, x \in Workers : Correcting(w) /\ Correcting(x) => w = x

\* What a worker knows of the questions outlives the steps of others.
LEMMA KnowsAskedStays ==
    ASSUME NEW x, NEW row, NEW new, NEW t \in Threads, NEW n \in Threads, NEW Q, NEW R,
           KnowsAsked(x, row, t, Q), Q \subseteq R,
           x.marker # NoMarker => x.marker.comment \in Keys /\ x.marker.interrupt \in Nat,
           x.pc \in {"record", "resume", "abandon"} => x.marker # NoMarker,
           x.response.interrupt \in Nat,
           x.pc \in Answering /\ x.marker # NoMarker =>
               t.claim[x.marker.comment].state = "completed",
           row.state \notin {None, "planning"} => new.state \notin {None, "planning"},
           n = t \/ ThreadGrows(t, n),
           \/ new.marker = row.marker
           \/ row.marker = NoMarker
           \/ Taken(row.marker, t),
           x.pc \in {"convert", "corrected"} => new.state = "failed" /\ new.marker = NoMarker,
           x.pc = "corrected" => planner_convert_admits(n, x.event) /\ n.interrupt # 0
    PROVE  KnowsAsked(x, new, n, R)
<1>1. /\ t.raised \in Nat /\ n.raised \in Nat /\ t.raised <= n.raised
  BY ThreadFields, LifecycleAssumption DEF ThreadGrows
<1>2. \A k \in Keys : /\ t.claim[k].state = "completed" => n.claim[k] = t.claim[k]
                      /\ t.claim[k].state = "abandoned" => n.claim[k].state = "abandoned"
  BY DEF ThreadGrows
<1>3. /\ x.pc \in {"record", "resume", "abandon"} => x.marker.interrupt <= n.raised
      /\ x.pc \in Answering => x.response.interrupt <= n.raised
  BY <1>1 DEF KnowsAsked
<1>4. x.pc \in Answering /\ x.marker # NoMarker => n.claim[x.marker.comment].response = x.response
  BY <1>2 DEF KnowsAsked
<1>5. ASSUME x.pc \in {"resume", "abandon"} PROVE new.marker = x.marker \/ Taken(x.marker, n)
  <2>1. x.marker # NoMarker /\ (row.marker = x.marker \/ Taken(x.marker, t))
    BY <1>5 DEF KnowsAsked
  <2>2. Taken(x.marker, t) => Taken(x.marker, n)
    BY <1>2, <2>1 DEF Taken
  <2> QED  BY <2>1, <2>2
<1>6. /\ x.pc \in {"ask", "record", "resume", "abandon", "restored"}
           \/ (x.pc \in Answering /\ x.marker # NoMarker) => new.state \notin {None, "planning"}
      /\ x.pc \in {"settle", "clear"} /\ x.response.status = "needs_input" =>
           x.response.interrupt \in R
      /\ x.pc \in {"pull", "bind_pull"} => x.response.status = "artifacts_ready"
      /\ x.pc = "abandon" => 1 \in R
  BY DEF KnowsAsked
<1> QED  BY <1>3, <1>4, <1>5, <1>6 DEF KnowsAsked

\* The invariant after a step of the worker w, on the version v.
LEMMA AskedFrame ==
    ASSUME RunInv, RunInv', AskedInv, NEW w \in Workers, NEW v \in Versions,
           asked \subseteq asked',
           \A u \in Versions : u # v => runs'[u] = runs[u] /\ thread'[u] = thread[u],
           Asks(runs'[v], thread'[v], Asked(asked', v)),
           runs[v].state \notin {None, "planning"} => runs'[v].state \notin {None, "planning"},
           thread'[v] = thread[v] \/ ThreadGrows(thread[v], thread'[v]),
           \/ runs'[v].marker = runs[v].marker
           \/ runs[v].marker = NoMarker
           \/ Taken(runs[v].marker, thread[v]),
           \A o \in Workers : o # w => worker'[o] = worker[o],
           \A o \in Workers : o # w /\ worker[o].v = v =>
               /\ worker[o].pc \in {"convert", "corrected"} =>
                    runs'[v].state = "failed" /\ runs'[v].marker = NoMarker
               /\ worker[o].pc = "corrected" =>
                    planner_convert_admits(thread'[v], worker[o].event) /\ thread'[v].interrupt # 0,
           KnowsAsked(worker'[w], runs'[worker'[w].v], thread'[worker'[w].v],
                      Asked(asked', worker'[w].v)),
           Correcting(w)' => Correcting(w) \/ \A o \in Workers : ~Correcting(o)
    PROVE  AskedInv'
<1>0. TypeOK /\ TypeOK'
  BY DEF RunInv
<1>1. \A u \in Versions : /\ thread[u] \in Threads /\ thread'[u] \in Threads
                          /\ Asked(asked, u) \subseteq Asked(asked', u)
  BY <1>0 DEF TypeOK, Asked
<1>2. ASSUME NEW u \in Versions PROVE Asks(runs'[u], thread'[u], Asked(asked', u))
  <2>1. CASE u = v
    BY <2>1
  <2>2. CASE u # v
    <3>1. Asks(runs[u], thread[u], Asked(asked, u)) /\ runs'[u] = runs[u] /\ thread'[u] = thread[u]
      BY <2>2 DEF AskedInv
    <3> QED  BY <1>1, <3>1 DEF Asks
  <2> QED  BY <2>1, <2>2
<1>3. ASSUME NEW o \in Workers, o # w
      PROVE  KnowsAsked(worker'[o], runs'[worker'[o].v], thread'[worker'[o].v],
                        Asked(asked', worker'[o].v))
  <2> DEFINE x == worker[o]
             u == x.v
  <2>1. worker'[o] = x /\ u \in Versions /\ Knows(o) /\ x.response \in Responses
    BY <1>0, <1>3, WorkerFields DEF RunInv
  <2>2. /\ KnowsAsked(x, runs[u], thread[u], Asked(asked, u))
        /\ x.marker # NoMarker => x.marker.comment \in Keys /\ x.marker.interrupt \in Nat
        /\ x.pc \in {"record", "resume", "abandon"} => x.marker # NoMarker
        /\ x.response.interrupt \in Nat
        /\ x.pc \in Answering /\ x.marker # NoMarker =>
             thread[u].claim[x.marker.comment].state = "completed"
    BY <1>0, <2>1, WorkerFields, LifecycleAssumption DEF AskedInv, Knows, Responses
  <2>3. CASE u = v
    <3>1. /\ x.pc \in {"convert", "corrected"} => runs'[u].state = "failed" /\ runs'[u].marker = NoMarker
          /\ x.pc = "corrected" => planner_convert_admits(thread'[u], x.event)
                                   /\ thread'[u].interrupt # 0
      BY <1>3, <2>3
    <3>2. /\ runs[u].state \notin {None, "planning"} => runs'[u].state \notin {None, "planning"}
          /\ thread'[u] = thread[u] \/ ThreadGrows(thread[u], thread'[u])
          /\ \/ runs'[u].marker = runs[u].marker
             \/ runs[u].marker = NoMarker
             \/ Taken(runs[u].marker, thread[u])
      BY <2>3
    <3> DEFINE row == runs[u]
               new == runs'[u]
               t == thread[u]
               n == thread'[u]
               Q == Asked(asked, u)
               R == Asked(asked', u)
    <3>3. t \in Threads /\ n \in Threads /\ Q \subseteq R
      BY <1>1, <2>1
    <3> HIDE DEF x, row, new, t, n, Q, R
    <3>4. KnowsAsked(x, new, n, R)
      <4>1. KnowsAsked(x, row, t, Q)
        BY <2>2 DEF row, t, Q
      <4>2. /\ row.state \notin {None, "planning"} => new.state \notin {None, "planning"}
            /\ n = t \/ ThreadGrows(t, n)
            /\ new.marker = row.marker \/ row.marker = NoMarker \/ Taken(row.marker, t)
        BY <3>2 DEF row, new, t, n
      <4>3. /\ x.pc \in {"convert", "corrected"} => new.state = "failed" /\ new.marker = NoMarker
            /\ x.pc = "corrected" => planner_convert_admits(n, x.event) /\ n.interrupt # 0
        BY <3>1 DEF new, n
      <4>4. x.pc \in Answering /\ x.marker # NoMarker => t.claim[x.marker.comment].state = "completed"
        BY <2>2 DEF t
      <4> QED  BY <2>2, <3>3, <4>1, <4>2, <4>3, <4>4, KnowsAskedStays
    <3> QED  BY <2>1, <3>4 DEF new, n, R
  <2>4. CASE u # v
    <3>1. runs'[u] = runs[u] /\ thread'[u] = thread[u]
      BY <2>1, <2>4
    <3>2. /\ x.pc \in {"convert", "corrected"} => runs[u].state = "failed" /\ runs[u].marker = NoMarker
          /\ x.pc = "corrected" => planner_convert_admits(thread[u], x.event)
                                   /\ thread[u].interrupt # 0
      BY <2>2 DEF KnowsAsked
    <3> DEFINE row == runs[u]
               t == thread[u]
               Q == Asked(asked, u)
               R == Asked(asked', u)
    <3>3. t \in Threads /\ Q \subseteq R
      BY <1>1, <2>1
    <3>4. KnowsAsked(x, row, t, R)
      <4>1. KnowsAsked(x, row, t, Q)
        BY <2>2
      <4> HIDE DEF x, row, t, Q, R
      <4> QED  BY <3>3, <4>1 DEF KnowsAsked
    <3> QED  BY <2>1, <3>1, <3>4
  <2> QED  BY <2>3, <2>4
<1>4. ASSUME NEW o \in Workers, NEW y \in Workers, Correcting(o)', Correcting(y)'
      PROVE  o = y
  BY <1>4 DEF AskedInv, Correcting
<1>5. \A u \in Versions : Asks(runs[u], thread[u], Asked(asked, u))'
  BY <1>2 DEF Asks, FailedOnce, Convertible, Replays, planner_convert_admits, Response, Asked
<1>6. \A o \in Workers :
        KnowsAsked(worker[o], runs[worker[o].v], thread[worker[o].v], Asked(asked, worker[o].v))'
  <2> SUFFICES ASSUME NEW o \in Workers
               PROVE  KnowsAsked(worker'[o], runs'[worker'[o].v], thread'[worker'[o].v],
                                 Asked(asked', worker'[o].v))
    BY DEF KnowsAsked, Answering, Taken, planner_convert_admits, Asked
  <2> QED  BY <1>3
<1> QED  BY <1>4, <1>5, <1>6 DEF AskedInv

\* The places that know nothing of the questions.
Careless == {"idle", "begin", "start", "get", "notify"} \union Approving

\* Such a place.
LEMMA CarelessKnows ==
    ASSUME NEW x, x.pc \in Careless, NEW row, NEW t, NEW Q
    PROVE  KnowsAsked(x, row, t, Q)
BY DEF KnowsAsked, Careless, Approving, Answering

\* Only a worker moves, and questions may be added.
LEMMA AskedMoves ==
    ASSUME RunInv, RunInv', AskedInv, NEW w \in Workers, UNCHANGED <<runs, thread>>,
           asked \subseteq asked',
           \A o \in Workers : o # w => worker'[o] = worker[o],
           KnowsAsked(worker'[w], runs[worker'[w].v], thread[worker'[w].v],
                      Asked(asked', worker'[w].v)),
           Correcting(w)' => Correcting(w) \/ \A o \in Workers : ~Correcting(o)
    PROVE  AskedInv'
<1>1. 1 \in Versions /\ TypeOK
  BY FirstVersions DEF RunInv
<1>2. Asks(runs'[1], thread'[1], Asked(asked', 1))
  <2>1. Asks(runs[1], thread[1], Asked(asked, 1)) /\ Asked(asked, 1) \subseteq Asked(asked', 1)
    BY <1>1 DEF AskedInv, Asked
  <2> QED  BY <2>1 DEF Asks
<1>3. ASSUME NEW o \in Workers, worker[o].v = 1
      PROVE  /\ worker[o].pc \in {"convert", "corrected"} =>
                  runs'[1].state = "failed" /\ runs'[1].marker = NoMarker
             /\ worker[o].pc = "corrected" =>
                  planner_convert_admits(thread'[1], worker[o].event) /\ thread'[1].interrupt # 0
  BY <1>3 DEF AskedInv, KnowsAsked
<1> QED  BY <1>1, <1>2, <1>3, AskedFrame

\* A worker goes to a place that knows nothing.
LEMMA AskedLeaves ==
    ASSUME RunInv, RunInv', AskedInv, NEW w \in Workers, UNCHANGED <<runs, thread>>,
           asked \subseteq asked',
           \A o \in Workers : o # w => worker'[o] = worker[o],
           worker'[w].pc \in Careless,
           worker'[w].pc = "notify" => \A o \in Workers : ~Correcting(o)
    PROVE  AskedInv'
<1>1. Correcting(w)' => \A o \in Workers : ~Correcting(o)
  BY DEF Correcting, Careless, Approving
<1>2. KnowsAsked(worker'[w], runs[worker'[w].v], thread[worker'[w].v], Asked(asked', worker'[w].v))
  BY CarelessKnows
<1> QED  BY <1>1, <1>2, AskedMoves

\* The row of the worker's version is written.
LEMMA AskedRow ==
    ASSUME RunInv, RunInv', AskedInv, NEW w \in Workers, NEW v \in Versions, v = worker[w].v,
           NEW row, runs' = [runs EXCEPT ![v] = row], UNCHANGED <<thread, asked>>,
           Asks(row, thread[v], Asked(asked, v)),
           runs[v].state \notin {None, "planning"} => row.state \notin {None, "planning"},
           \/ row.marker = runs[v].marker
           \/ runs[v].marker = NoMarker
           \/ Taken(runs[v].marker, thread[v]),
           \/ worker[w].pc = "corrected"
           \/ runs[v].state = "failed" /\ runs[v].marker = NoMarker =>
                row.state = "failed" /\ row.marker = NoMarker,
           \A o \in Workers : o # w => worker'[o] = worker[o],
           \/ worker'[w].pc \in Careless
           \/ /\ worker'[w].v = v
              /\ KnowsAsked(worker'[w], row, thread[v], Asked(asked, v)),
           Correcting(w)' => Correcting(w)
    PROVE  AskedInv'
<1>0. TypeOK /\ runs'[v] = row /\ \A u \in Versions : u # v => runs'[u] = runs[u]
  BY DEF RunInv, TypeOK
<1>1. ASSUME NEW o \in Workers, o # w, worker[o].v = v
      PROVE  /\ worker[o].pc \in {"convert", "corrected"} =>
                  runs'[v].state = "failed" /\ runs'[v].marker = NoMarker
             /\ worker[o].pc = "corrected" =>
                  planner_convert_admits(thread'[v], worker[o].event) /\ thread'[v].interrupt # 0
  <2>1. KnowsAsked(worker[o], runs[v], thread[v], Asked(asked, v))
    BY <1>1 DEF AskedInv
  <2>2. worker[o].pc \in {"convert", "corrected"} => worker[w].pc # "corrected"
    BY <1>1 DEF AskedInv, Correcting
  <2> QED  BY <1>0, <2>1, <2>2 DEF KnowsAsked
<1>2. KnowsAsked(worker'[w], runs'[worker'[w].v], thread'[worker'[w].v],
                 Asked(asked', worker'[w].v))
  <2>1. CASE worker'[w].pc \in Careless
    BY <2>1, CarelessKnows
  <2>2. CASE worker'[w].v = v /\ KnowsAsked(worker'[w], row, thread[v], Asked(asked, v))
    BY <1>0, <2>2
  <2> QED  BY <2>1, <2>2
<1> HIDE DEF Correcting
<1> QED  BY <1>0, <1>1, <1>2, AskedFrame

\* The thread of the worker's version moves.
LEMMA AskedThread ==
    ASSUME RunInv, RunInv', AskedInv, NEW w \in Workers, NEW v \in Versions, v = worker[w].v,
           NEW n \in Threads, thread' = [thread EXCEPT ![v] = n], UNCHANGED <<runs, asked>>,
           Asks(runs[v], n, Asked(asked, v)), ThreadGrows(thread[v], n),
           \A o \in Workers : o # w /\ worker[o].v = v /\ worker[o].pc = "corrected" =>
               planner_convert_admits(n, worker[o].event) /\ n.interrupt # 0,
           \A o \in Workers : o # w => worker'[o] = worker[o],
           \/ worker'[w].pc \in Careless
           \/ worker'[w].v = v /\ KnowsAsked(worker'[w], runs[v], n, Asked(asked, v)),
           Correcting(w)' => Correcting(w)
    PROVE  AskedInv'
<1>0. TypeOK /\ thread'[v] = n /\ \A u \in Versions : u # v => thread'[u] = thread[u]
  BY DEF RunInv, TypeOK
<1>1. ASSUME NEW o \in Workers, o # w, worker[o].v = v
      PROVE  /\ worker[o].pc \in {"convert", "corrected"} =>
                  runs'[v].state = "failed" /\ runs'[v].marker = NoMarker
             /\ worker[o].pc = "corrected" =>
                  planner_convert_admits(thread'[v], worker[o].event) /\ thread'[v].interrupt # 0
  <2>1. KnowsAsked(worker[o], runs[v], thread[v], Asked(asked, v))
    BY <1>1 DEF AskedInv
  <2> QED  BY <1>0, <1>1, <2>1 DEF KnowsAsked
<1>2. KnowsAsked(worker'[w], runs'[worker'[w].v], thread'[worker'[w].v],
                 Asked(asked', worker'[w].v))
  <2>1. CASE worker'[w].pc \in Careless
    BY <2>1, CarelessKnows
  <2>2. CASE worker'[w].v = v /\ KnowsAsked(worker'[w], runs[v], n, Asked(asked, v))
    BY <1>0, <2>2
  <2> QED  BY <2>1, <2>2
<1> QED  BY <1>0, <1>1, <1>2, AskedFrame

\* A worker that begins at a place where it has read the row.
LEMMA AskedEnters ==
    ASSUME RunInv, RunInv', AskedInv, NEW w \in Workers, UNCHANGED <<runs, thread, asked>>,
           NEW place \in Places, NEW e \in Events, NEW v \in Versions,
           NEW m \in Markers \union {NoMarker}, Enter(w, place, e, v, m),
           \/ place \in {"begin", "get", "approve", "bind"}
           \/ place = "ask" /\ runs[v].state = "needs_input"
           \/ /\ place \in {"resume", "abandon"} /\ runs[v].state = "needs_input"
              /\ m = runs[v].marker /\ m # NoMarker
           \/ /\ place = "convert" /\ runs[v].state = "failed" /\ runs[v].marker = NoMarker
              /\ \A o \in Workers : ~Correcting(o)
    PROVE  AskedInv'
<1>1. TypeOK /\ Asks(runs[v], thread[v], Asked(asked, v))
  BY DEF RunInv, AskedInv
<1>2. /\ worker'[w].pc = place /\ worker'[w].v = v /\ worker'[w].marker = m
      /\ \A o \in Workers : o # w => worker'[o] = worker[o]
  BY <1>1, Entered
<1>3. KnowsAsked(worker'[w], runs[v], thread[v], Asked(asked, v))
  BY <1>1, <1>2 DEF KnowsAsked, Asks, Answering, None
<1>4. Correcting(w)' => Correcting(w) \/ \A o \in Workers : ~Correcting(o)
  BY <1>2 DEF Correcting
<1>5. asked \subseteq asked' /\ UNCHANGED <<runs, thread>>
  OBVIOUS
<1>6. KnowsAsked(worker'[w], runs[worker'[w].v], thread[worker'[w].v], Asked(asked', worker'[w].v))
  BY <1>2, <1>3
<1> QED  BY <1>2, <1>4, <1>5, <1>6, AskedMoves

\* Nothing of the questions moves.
LEMMA AskedStays ==
    ASSUME AskedInv, UNCHANGED <<runs, thread, asked, worker>>
    PROVE  AskedInv'
<1>1. \A u \in Versions : Asks(runs[u], thread[u], Asked(asked, u))'
  <2>1. \A u \in Versions : Asks(runs'[u], thread'[u], Asked(asked', u))
    BY DEF AskedInv
  <2> QED  BY <2>1 DEF Asks, FailedOnce, Convertible, Replays, planner_convert_admits, Response,
                       Asked
<1>2. \A o \in Workers :
        KnowsAsked(worker[o], runs[worker[o].v], thread[worker[o].v], Asked(asked, worker[o].v))'
  <2> SUFFICES ASSUME NEW o \in Workers
               PROVE  KnowsAsked(worker'[o], runs'[worker'[o].v], thread'[worker'[o].v],
                                 Asked(asked', worker'[o].v))
    BY DEF KnowsAsked, Answering, Taken, planner_convert_admits, Asked
  <2> QED  BY DEF AskedInv
<1>3. ASSUME NEW o \in Workers, NEW y \in Workers, Correcting(o)', Correcting(y)' PROVE o = y
  BY <1>3 DEF AskedInv, Correcting
<1> QED  BY <1>1, <1>2, <1>3 DEF AskedInv

\* The handlers of events, before their first await.
LEMMA HandlersAsked ==
    ASSUME RunInv, RunInv', AskedInv, NEW w \in Workers, Handle(w)
    PROVE  AskedInv'
<1> DEFINE v == latest_for_idea
<1>0. \A e \in Changes \union Replans \union Comments \union Merges \union Nights : e \in Events
  BY DEF Events, Approvals
<1>1. v \in Nat /\ v <= MaxVersion /\ (v # 0 => v \in Versions /\ runs[v].state # None)
  BY LatestVersion
<1>2. \A place \in {"begin", "get", "ask", "resume", "approve", "bind"} : place \in Places
  BY DEF Places
<1>3. NoMarker \in Markers \union {NoMarker} /\ TypeOK
  BY DEF RunInv
<1>4. ASSUME NEW e \in Events, NEW place \in {"begin", "get", "approve", "bind"}, NEW u \in Versions,
             Enter(w, place, e, u, NoMarker), UNCHANGED <<runs, thread, asked>>
      PROVE  AskedInv'
  <2>1. place \in Places /\ place \in {"begin", "get", "approve", "bind"}
    BY <1>2, <1>4
  <2> QED  BY <1>3, <1>4, <2>1, AskedEnters
<1>5. ASSUME NEW e \in Changes, _work_package_changed(w, e) PROVE AskedInv'
  <2>0. UNCHANGED <<runs, thread, asked>> /\ e \in Events
    BY <1>0, <1>5 DEF _work_package_changed
  <2>1. CASE UNCHANGED worker
    BY <2>0, <2>1, AskedStays
  <2>2. CASE Active(v) /\ Enter(w, "get", e, v, NoMarker)
    <3>1. v \in Versions
      BY <1>1, <2>2 DEF Active
    <3> HIDE DEF v
    <3> QED  BY <1>4, <2>0, <2>2, <3>1
  <2>3. CASE v < MaxVersion /\ Enter(w, "begin", e, v + 1, NoMarker)
    <3> DEFINE n == v + 1
    <3>1. n \in Versions /\ Enter(w, "begin", e, n, NoMarker)
      BY <1>1, <2>3, LifecycleAssumption DEF Versions
    <3> HIDE DEF v, n
    <3> QED  BY <1>4, <2>0, <3>1
  <2> QED  BY <1>5, <2>1, <2>2, <2>3 DEF _work_package_changed
<1>6. ASSUME NEW e \in Replans, _replan_affected_subgraph(w, e) PROVE AskedInv'
  <2>0. UNCHANGED <<runs, thread, asked>> /\ e \in Events
    BY <1>0, <1>6 DEF _replan_affected_subgraph
  <2>1. CASE UNCHANGED worker
    BY <2>0, <2>1, AskedStays
  <2>2. CASE Enter(w, "get", e, v, NoMarker)
    <3>1. latest_published = Base[e] /\ Base[e] \in Versions /\ Base[e] # 0
      BY <1>6, LifecycleAssumption DEF _replan_affected_subgraph, Versions
    <3>2. latest_published \in PublishedVersions
      BY <3>1, LatestFound
    <3>3. Begun # {}
      BY <3>2 DEF PublishedVersions, Begun, None
    <3>4. v \in Versions
      BY <1>1, <3>3, LatestFound DEF latest_for_idea, Begun
    <3> HIDE DEF v
    <3> QED  BY <1>4, <2>0, <2>2, <3>4
  <2>3. CASE v < MaxVersion /\ Enter(w, "begin", e, v + 1, NoMarker)
    <3> DEFINE n == v + 1
    <3>1. n \in Versions /\ Enter(w, "begin", e, n, NoMarker)
      BY <1>1, <2>3, LifecycleAssumption DEF Versions
    <3> HIDE DEF v, n
    <3> QED  BY <1>4, <2>0, <3>1
  <2> QED  BY <1>6, <2>1, <2>2, <2>3 DEF _replan_affected_subgraph
<1>7. ASSUME NEW e \in Comments, _planning_input(w, e) PROVE AskedInv'
  <2>0. UNCHANGED <<runs, thread, asked>> /\ e \in Events
    BY <1>0, <1>7 DEF _planning_input
  <2>1. CASE UNCHANGED worker
    BY <2>0, <2>1, AskedStays
  <2>2. ASSUME v # 0, runs[v].state = "needs_input", NEW place, NEW m, m = runs[v].marker,
               place = IF m = NoMarker THEN "ask" ELSE "resume", Enter(w, place, e, v, m)
        PROVE  AskedInv'
    <3>1. v \in Versions /\ place \in Places
      BY <1>1, <1>2, <2>2
    <3>2. m \in Markers \union {NoMarker}
      BY <1>3, <2>2, <3>1, RowFields
    <3>3. \/ place = "ask" /\ runs[v].state = "needs_input"
          \/ /\ place \in {"resume", "abandon"} /\ runs[v].state = "needs_input"
             /\ m = runs[v].marker /\ m # NoMarker
      BY <2>2
    <3> HIDE DEF v
    <3> QED  BY <2>0, <2>2, <3>1, <3>2, <3>3, AskedEnters
  <2> QED  BY <1>7, <2>1, <2>2 DEF _planning_input
<1>8. ASSUME NEW e \in Events, NEW u \in Versions, Merged(w, e, u), UNCHANGED <<runs, thread, asked>>
      PROVE  AskedInv'
  BY <1>4, <1>8 DEF Merged
<1>9. ASSUME NEW e \in Merges, _pull_request(w, e) PROVE AskedInv'
  <2>0. UNCHANGED <<runs, thread, asked>> /\ e \in Events /\ Pull[e] \in Versions
    BY <1>0, <1>9, LifecycleAssumption DEF _pull_request
  <2>1. UNCHANGED worker \/ Merged(w, e, Pull[e])
    BY <1>9 DEF _pull_request
  <2> QED  BY <1>8, <2>0, <2>1, AskedStays
<1>10. ASSUME NEW e \in Nights, _reconcile(w, e) PROVE AskedInv'
  <2>0. UNCHANGED <<runs, thread, asked>> /\ e \in Events
    BY <1>0, <1>10 DEF _reconcile
  <2>1. UNCHANGED worker \/ (v # 0 /\ Merged(w, e, v))
    BY <1>10 DEF _reconcile
  <2> HIDE DEF v
  <2> QED  BY <1>1, <1>8, <2>0, <2>1, AskedStays
<1> QED  BY <1>5, <1>6, <1>7, <1>9, <1>10 DEF Handle

\* Operators' corrections, which the lock lets in one at a time.
LEMMA CorrectionsAsked ==
    ASSUME RunInv, RunInv', AskedInv, NEW w \in Workers, Correct(w)
    PROVE  AskedInv'
<1>0. TypeOK /\ \A c \in Comments : c \in Events
  BY DEF RunInv, Events
<1>1. ASSUME NEW v \in Versions, abandon_terminal_resume(w, v) PROVE AskedInv'
  <2> DEFINE m == runs[v].marker
  <2>1. /\ UNCHANGED <<runs, thread, asked>> /\ runs[v].state = "needs_input" /\ m # NoMarker
        /\ Enter(w, "abandon", m.comment, v, m) /\ "abandon" \in Places
    BY <1>1 DEF abandon_terminal_resume, Places
  <2>2. m \in Markers \union {NoMarker} /\ m.comment \in Events
    BY <1>0, <2>1, RowFields
  <2> DEFINE e == m.comment
  <2>3. m = runs[v].marker /\ e \in Events /\ Enter(w, "abandon", e, v, m)
    BY <2>1, <2>2
  <2> HIDE DEF m, e
  <2> QED  BY <2>1, <2>2, <2>3, AskedEnters
<1>2. ASSUME NEW v \in Versions, NEW c \in Comments, convert_failed_critique_to_interrupt(w, v, c)
      PROVE  AskedInv'
  <2> DEFINE x == [Idle EXCEPT !.pc = "notify", !.event = c, !.v = v,
                               !.response = Response(thread[v])]
  <2>1. /\ UNCHANGED <<runs, thread, asked>> /\ runs[v].marker = NoMarker
        /\ \A o \in Workers : ~Correcting(o)
        /\ \/ runs[v].state = "failed" /\ Enter(w, "convert", c, v, NoMarker)
           \/ worker' = [worker EXCEPT ![w] = x]
    BY <1>2 DEF convert_failed_critique_to_interrupt, Correcting
  <2>2. x.pc = "notify" /\ "convert" \in Places
    BY DEF Idle, Places
  <2> HIDE DEF x
  <2>3. CASE runs[v].state = "failed" /\ Enter(w, "convert", c, v, NoMarker)
    BY <1>0, <2>1, <2>2, <2>3, AskedEnters
  <2>4. CASE worker' = [worker EXCEPT ![w] = x]
    <3>1. worker'[w].pc = "notify" /\ \A o \in Workers : o # w => worker'[o] = worker[o]
      BY <1>0, <2>2, <2>4 DEF TypeOK
    <3>2. worker'[w].pc \in Careless /\ asked \subseteq asked'
      BY <2>1, <3>1 DEF Careless
    <3> QED  BY <2>1, <3>1, <3>2, AskedLeaves
  <2> QED  BY <2>1, <2>3, <2>4
<1> QED  BY <1>1, <1>2 DEF Correct

\* A worker with an answer leaves, and may go to clear its marker.
LEMMA LeaveKnows ==
    ASSUME RunInv, AskedInv, NEW w \in Workers, NEW v, v = worker[w].v,
           worker[w].pc \in {"respond", "settle", "bind_pull"}, Leave(w),
           worker[w].pc = "respond" => worker[w].response.status # "needs_input",
           NEW row, runs[v].state \notin {None, "planning"} => row.state \notin {None, "planning"}
    PROVE  /\ \A o \in Workers : o # w => worker'[o] = worker[o]
           /\ \/ worker'[w].pc \in Careless
              \/ worker'[w].v = v /\ KnowsAsked(worker'[w], row, thread[v], Asked(asked, v))
           /\ ~Correcting(w)'
<1>1. TypeOK /\ KnowsAsked(worker[w], runs[v], thread[v], Asked(asked, v))
  BY DEF RunInv, AskedInv
<1>2. CASE worker[w].marker = NoMarker
  <2>1. worker' = [worker EXCEPT ![w] = Idle]
    BY <1>2 DEF Leave, AfterResponse, Return
  <2>2. worker'[w].pc = "idle" /\ \A o \in Workers : o # w => worker'[o] = worker[o]
    BY <1>1, <2>1, IdleWorker
  <2> QED  BY <2>2 DEF Careless, Correcting
<1>3. CASE worker[w].marker # NoMarker
  <2>1. Goto(w, "clear") /\ "clear" \in Places
    BY <1>3 DEF Leave, AfterResponse, Places
  <2>2. /\ worker'[w].pc = "clear" /\ \A o \in Workers : o # w => worker'[o] = worker[o]
        /\ worker'[w].v = v /\ worker'[w].marker = worker[w].marker
        /\ worker'[w].response = worker[w].response
    BY <1>1, <2>1, GoneTo
  <2>3. KnowsAsked(worker'[w], row, thread[v], Asked(asked, v))
    BY <1>1, <1>3, <2>2 DEF KnowsAsked, Answering
  <2> QED  BY <2>2, <2>3 DEF Correcting
<1> QED  BY <1>2, <1>3

\* begin().
LEMMA BeginAsked ==
    ASSUME RunInv, RunInv', AskedInv, NEW w \in Workers, Begin(w)
    PROVE  AskedInv'
<1> DEFINE v == worker[w].v
           row == [NoRun EXCEPT !.state = "planning", !.request = worker[w].event]
<1>1. TypeOK /\ v \in Versions /\ Asks(runs[v], thread[v], Asked(asked, v))
  BY WorkerFields DEF RunInv, AskedInv
<1>2. /\ runs[v].state = None /\ runs' = [runs EXCEPT ![v] = row] /\ UNCHANGED <<thread, asked>>
      /\ worker' = [worker EXCEPT ![w].pc = "start", ![w].state = "planning"]
  BY DEF Begin, begin
<1>3. row.state = "planning" /\ row.marker = NoMarker
  BY DEF NoRun
<1>4. worker'[w].pc = "start" /\ \A o \in Workers : o # w => worker'[o] = worker[o]
  <2>1. worker \in [Workers -> Process] /\ worker[w] \in Process
    BY <1>1, WorkerFields DEF TypeOK, Process
  <2> QED  BY <1>2, <2>1 DEF Process
<1> HIDE DEF row
<1>5. Asks(row, thread[v], Asked(asked, v)) /\ runs[v].marker = NoMarker
  BY <1>1, <1>2, <1>3 DEF Asks, None
<1>6. worker'[w].pc \in Careless /\ ~Correcting(w)' /\ runs[v].state # "failed"
      /\ runs[v].state \in {None, "planning"}
  BY <1>2, <1>4 DEF Careless, Correcting, None
<1>7. v = worker[w].v
  OBVIOUS
<1> HIDE DEF v
<1> QED  BY <1>1, <1>2, <1>4, <1>5, <1>6, <1>7, AskedRow

\* The row of a run that waits for no answer.
LEMMA AskedClosed ==
    ASSUME NEW old, NEW row, NEW t, NEW Q, Asks(old, t, Q), row.marker = old.marker,
           row.state \notin {None, "planning", "needs_input"}
    PROVE  Asks(row, t, Q)
BY DEF Asks

\* The operations of the store that take the row on from the questions.
LEMMA ClosedAsked ==
    ASSUME RunInv, RunInv', AskedInv, NEW w \in Workers,
           Approve(w) \/ BindArtifact(w) \/ RecordPublished(w) \/ RecordBlocked(w)
    PROVE  AskedInv'
<1> DEFINE v == worker[w].v
<1>1. /\ TypeOK /\ Knows(w) /\ v \in Versions /\ runs[v] \in Rows
      /\ Asks(runs[v], thread[v], Asked(asked, v))
      /\ worker \in [Workers -> Process] /\ worker[w] \in Process
      /\ runs \in [Versions -> Rows]
  BY WorkerFields, RowFields DEF RunInv, AskedInv, TypeOK, Process
<1>2. UNCHANGED <<thread, asked>> /\ worker[w].pc \notin Early
  BY DEF Approve, BindArtifact, RecordPublished, RecordBlocked, At, Early
<1>3. \/ worker' = [worker EXCEPT ![w] = Idle]
      \/ worker' = [worker EXCEPT ![w].pc = "bind"]
      \/ worker' = [worker EXCEPT ![w].pc = "publish", ![w].state = runs[v].state]
  BY DEF Approve, BindArtifact, RecordPublished, RecordBlocked, Goto, Return
<1>4. /\ worker'[w].pc \in {"idle", "bind", "publish"}
      /\ \A o \in Workers : o # w => worker'[o] = worker[o]
  BY <1>1, <1>3 DEF Process, Idle
<1>5. worker'[w].pc \in Careless /\ ~Correcting(w)'
  BY <1>4 DEF Careless, Correcting, Approving
<1>6. ASSUME NEW row, runs' = [runs EXCEPT ![v] = row], row.marker = runs[v].marker,
             row.state \notin {None, "planning", "needs_input"},
             runs[v].state = "failed" => row.state = "failed"
      PROVE  AskedInv'
  <2>1. Asks(row, thread[v], Asked(asked, v))
    BY <1>1, <1>6, AskedClosed
  <2>2. v = worker[w].v
    OBVIOUS
  <2> HIDE DEF v
  <2> QED  BY <1>1, <1>2, <1>4, <1>5, <1>6, <2>1, <2>2, AskedRow
<1>7. CASE Approve(w)
  <2> DEFINE row == [runs[v] EXCEPT !.state = "publishing", !.approved = TRUE]
  <2>1. runs[v].state \in {"pr_open", "publishing"} /\ runs' = [runs EXCEPT ![v] = row]
    BY <1>1, <1>7 DEF Approve, approve_for_publication, Rows
  <2>2. row.state = "publishing" /\ row.marker = runs[v].marker
    BY <1>1 DEF Rows
  <2> HIDE DEF row
  <2> QED  BY <1>6, <2>1, <2>2 DEF None
<1>8. CASE BindArtifact(w)
  <2> DEFINE row == [runs[v] EXCEPT !.approved = TRUE, !.bound = TRUE]
  <2>1. runs[v].state \in {"pr_open", "publishing", "published"} /\ runs' = [runs EXCEPT ![v] = row]
    BY <1>1, <1>8 DEF BindArtifact, record_publication_binding, Rows
  <2>2. row.state = runs[v].state /\ row.marker = runs[v].marker
    BY <1>1 DEF Rows
  <2> HIDE DEF row
  <2> QED  BY <1>6, <2>1, <2>2 DEF None
<1>9. CASE RecordPublished(w) \/ RecordBlocked(w)
  <2>1. PICK new \in {"published", "blocked"} :
               /\ new \in _TRANSITIONS[worker[w].state]
               /\ runs[v].state \in {worker[w].state, new}
               /\ runs' = [runs EXCEPT ![v].state = new]
    BY <1>9 DEF RecordPublished, RecordBlocked, set_state
  <2>2. worker[w].state \in States \ {None} /\ new \in States
    BY <1>1, <1>2, <2>1, WorkerFields DEF Knows, States
  <2>3. worker[w].state \in Terminal => new = worker[w].state
    BY <2>1, <2>2, TransitionsKnown
  <2> DEFINE row == [runs[v] EXCEPT !.state = new]
  <2>4. runs' = [runs EXCEPT ![v] = row] /\ row.state = new /\ row.marker = runs[v].marker
    <3> HIDE DEF v
    <3> QED  BY <1>1, <2>1, <2>2, StateSet
  <2>5. runs[v].state # "failed"
    BY <2>1, <2>3 DEF Terminal
  <2> HIDE DEF row
  <2> QED  BY <1>6, <2>1, <2>4, <2>5 DEF None
<1> QED  BY <1>7, <1>8, <1>9

\* record_pending_resume(): a marker is taken up by a row that has none, whose
\* question was asked.
LEMMA RecordPendingResumeAsked ==
    ASSUME RunInv, RunInv', AskedInv, NEW w \in Workers, RecordPendingResume(w)
    PROVE  AskedInv'
<1> DEFINE v == worker[w].v
           m == worker[w].marker
           row == [runs[v] EXCEPT !.marker = m]
<1>1. /\ TypeOK /\ v \in Versions /\ m \in Markers \union {NoMarker}
      /\ Asks(runs[v], thread[v], Asked(asked, v))
      /\ KnowsAsked(worker[w], runs[v], thread[v], Asked(asked, v))
      /\ worker \in [Workers -> Process] /\ worker[w] \in Process
  BY WorkerFields DEF RunInv, AskedInv, TypeOK, Process
<1>2. /\ worker[w].pc = "record" /\ runs[v].state = "needs_input" /\ runs[v].marker \in {NoMarker, m}
      /\ UNCHANGED <<thread, asked>>
      /\ worker' = [worker EXCEPT ![w].pc = "resume", ![w].state = "needs_input"]
  BY DEF RecordPendingResume, record_pending_resume, At
<1>3. runs' = [runs EXCEPT ![v] = row] /\ row.marker = m /\ row.state = "needs_input"
  <2>1. runs' = [runs EXCEPT ![v].marker = m]
    BY DEF RecordPendingResume, record_pending_resume
  <2> HIDE DEF v, m
  <2> QED  BY <1>1, <1>2, <2>1, MarkerSet
<1>4. /\ worker'[w].pc = "resume" /\ worker'[w].v = v /\ worker'[w].marker = m
      /\ worker'[w].response = worker[w].response
      /\ \A o \in Workers : o # w => worker'[o] = worker[o]
  BY <1>1, <1>2 DEF Process
<1> HIDE DEF row
<1>5. m.interrupt <= thread[v].raised
  BY <1>1, <1>2 DEF KnowsAsked
<1>6. Asks(row, thread[v], Asked(asked, v))
  <2>1. ~Replays(NoMarker, thread[v])
    BY DEF Replays
  <2> HIDE DEF v, m
  <2> QED  BY <1>1, <1>2, <1>3, <1>5, <2>1 DEF Asks, None
<1>7. KnowsAsked(worker'[w], row, thread[v], Asked(asked, v))
  BY <1>3, <1>4, <1>5 DEF KnowsAsked, Answering, None
<1>8. /\ ~Correcting(w)' /\ runs[v].state # "failed" /\ row.state \notin {None, "planning"}
      /\ row.marker = runs[v].marker \/ runs[v].marker = NoMarker
  BY <1>2, <1>3, <1>4 DEF Correcting, None
<1>9. v = worker[w].v
  OBVIOUS
<1> HIDE DEF v, m
<1> QED  BY <1>1, <1>2, <1>3, <1>4, <1>6, <1>7, <1>8, <1>9, AskedRow

\* The planner's answer is settled in the row: its question was asked before.
LEMMA SettleResponseAsked ==
    ASSUME RunInv, RunInv', AskedInv, NEW w \in Workers, SettleResponse(w)
    PROVE  AskedInv'
<1> DEFINE v == worker[w].v
           new == worker[w].response.status
           t == thread[v]
           Q == Asked(asked, v)
           row == [runs[v] EXCEPT !.state = new]
<1>1. /\ TypeOK /\ v \in Versions /\ Knows(w) /\ t \in Threads /\ ThreadOK(t)
      /\ Asks(runs[v], t, Q) /\ KnowsAsked(worker[w], runs[v], t, Q)
      /\ worker[w].response \in Responses
  BY WorkerFields, RowFields DEF RunInv, AskedInv
<1>2. /\ worker[w].pc = "settle" /\ new \in _TRANSITIONS[worker[w].state]
      /\ runs[v].state \in {worker[w].state, new} /\ runs' = [runs EXCEPT ![v].state = new]
      /\ Leave(w) /\ UNCHANGED <<thread, asked>>
  BY DEF SettleResponse, set_state, At
<1>3. /\ new \in {"needs_input", "failed"} /\ worker[w].state \in States \ {None}
      /\ new \in States
  BY <1>1, <1>2, WorkerFields DEF Knows, Early, States
<1>4. /\ new = "needs_input" => runs[v].state \in {"planning", "needs_input"}
      /\ runs[v].state = "failed" => new = "failed"
  <2>1. /\ new = "needs_input" => worker[w].state \in {"planning", "needs_input"}
        /\ worker[w].state \in Terminal => new = worker[w].state
    BY <1>2, <1>3, TransitionsKnown
  <2> QED  BY <1>2, <1>3, <2>1 DEF Terminal
<1>5. runs' = [runs EXCEPT ![v] = row] /\ row.state = new /\ row.marker = runs[v].marker
  <2> HIDE DEF v, new
  <2> QED  BY <1>1, <1>2, <1>3, StateSet
<1> HIDE DEF row
<1>6. Asks(row, t, Q)
  <2>1. CASE new = "failed"
    <3> HIDE DEF new, t, Q
    <3> QED  BY <1>1, <1>5, <2>1, AskedClosed DEF None
  <2>2. CASE new = "needs_input" /\ runs[v].state = "needs_input"
    <3> HIDE DEF new, t, Q
    <3> QED  BY <1>1, <1>5, <2>2 DEF Asks, None
  <2>3. CASE new = "needs_input" /\ runs[v].state = "planning"
    <3>1. t.raised \in Nat /\ t.raised <= 1 /\ t.interrupt \in Nat /\ t.interrupt <= t.raised
      BY <1>1, <2>3, ThreadFields, LifecycleAssumption DEF Asks, ThreadOK
    <3>2. worker[w].response.interrupt \in Q /\ worker[w].response.interrupt <= t.raised
      BY <1>1, <1>2, <2>3 DEF KnowsAsked, Answering
    <3>3. 1 \in Q
      <4>1. \A i \in Q : i \in Nat /\ 1 <= i
        BY DEF Asked
      <4>2. worker[w].response.interrupt = 1
        BY <3>1, <3>2, <4>1
      <4> QED  BY <3>2, <4>2
    <3>4. t.interrupt # 0 => t.interrupt \in Q
      BY <3>1, <3>3
    <3>5. row.marker = NoMarker /\ row.state = "needs_input"
      BY <1>1, <1>5, <2>3 DEF Asks
    <3> HIDE DEF new, t, Q
    <3> QED  BY <3>3, <3>4, <3>5 DEF Asks, None
  <2> QED  BY <1>3, <1>4, <2>1, <2>2, <2>3
<1>7. row.state \notin {None, "planning"}
  BY <1>3, <1>5 DEF None
<1>8. /\ \A o \in Workers : o # w => worker'[o] = worker[o]
      /\ \/ worker'[w].pc \in Careless
         \/ worker'[w].v = v /\ KnowsAsked(worker'[w], row, thread[v], Asked(asked, v))
      /\ ~Correcting(w)'
  <2>1. v = worker[w].v
    OBVIOUS
  <2> HIDE DEF v
  <2> QED  BY <1>2, <1>7, <2>1, LeaveKnows
<1>9. /\ runs[v].state = "failed" => row.state = "failed"
      /\ v = worker[w].v /\ Asks(row, thread[v], Asked(asked, v))
  BY <1>4, <1>5, <1>6
<1> HIDE DEF v, new
<1> QED  BY <1>1, <1>2, <1>5, <1>7, <1>8, <1>9, AskedRow

\* record_pull_request().
LEMMA RecordPullRequestAsked ==
    ASSUME RunInv, RunInv', AskedInv, NEW w \in Workers, RecordPullRequest(w)
    PROVE  AskedInv'
<1> DEFINE v == worker[w].v
           row == [runs[v] EXCEPT !.state = "pr_open", !.pull = TRUE]
<1>1. /\ TypeOK /\ v \in Versions /\ Asks(runs[v], thread[v], Asked(asked, v))
      /\ runs \in [Versions -> Rows] /\ runs[v] \in Rows /\ v = worker[w].v
  BY WorkerFields, RowFields DEF RunInv, AskedInv, TypeOK
<1>2. /\ worker[w].pc = "bind_pull" /\ runs[v].state \in {"planning", "needs_input", "pr_open"}
      /\ runs' = [runs EXCEPT ![v] = row] /\ Leave(w) /\ UNCHANGED <<thread, asked>>
  BY <1>1 DEF RecordPullRequest, record_pull_request, At, Rows
<1>3. row.state = "pr_open" /\ row.marker = runs[v].marker
  BY <1>1 DEF Rows
<1> HIDE DEF row, v
<1>4. Asks(row, thread[v], Asked(asked, v)) /\ row.state \notin {None, "planning"}
  BY <1>1, <1>3, AskedClosed DEF None
<1>5. /\ \A o \in Workers : o # w => worker'[o] = worker[o]
      /\ \/ worker'[w].pc \in Careless
         \/ worker'[w].v = v /\ KnowsAsked(worker'[w], row, thread[v], Asked(asked, v))
      /\ ~Correcting(w)'
  <2>1. worker[w].response.status = "artifacts_ready"
    BY <1>1, <1>2 DEF AskedInv, KnowsAsked
  <2> QED  BY <1>1, <1>2, <1>4, <2>1, LeaveKnows
<1>6. runs[v].state # "failed"
  BY <1>2
<1> QED  BY <1>1, <1>2, <1>3, <1>4, <1>5, <1>6, AskedRow

\* The marker is taken from a row: the question it would lead to was asked.
LEMMA ClearedAsked ==
    ASSUME RunInv, RunInv', AskedInv, NEW w \in Workers,
           ClearPendingResume(w) \/ CompleteAbandonment(w)
    PROVE  AskedInv'
<1> DEFINE v == worker[w].v
           m == worker[w].marker
           x == worker[w]
           t == thread[v]
           Q == Asked(asked, v)
           row == [runs[v] EXCEPT !.marker = NoMarker]
<1>1. /\ TypeOK /\ v \in Versions /\ Knows(w) /\ t \in Threads /\ ThreadOK(t)
      /\ Asks(runs[v], t, Q) /\ KnowsAsked(x, runs[v], t, Q) /\ v = worker[w].v
  BY WorkerFields, RowFields DEF RunInv, AskedInv
<1>2. /\ x.pc \in {"clear", "restored"} /\ runs[v].marker \in {NoMarker, m}
      /\ UNCHANGED <<thread, asked>> /\ worker' = [worker EXCEPT ![w] = Idle]
  BY DEF ClearPendingResume, clear_pending_resume, At, CompleteAbandonment,
         complete_terminal_resume_abandonment, Return
<1>3. runs' = [runs EXCEPT ![v] = row] /\ row.state = runs[v].state /\ row.marker = NoMarker
  <2>1. runs' = [runs EXCEPT ![v].marker = NoMarker]
    BY DEF ClearPendingResume, clear_pending_resume, CompleteAbandonment,
           complete_terminal_resume_abandonment
  <2> HIDE DEF v
  <2> QED  BY <1>1, <2>1, MarkerSet
<1> HIDE DEF row
<1>4. worker'[w].pc = "idle" /\ \A o \in Workers : o # w => worker'[o] = worker[o]
  BY <1>1, <1>2, IdleWorker
<1>5. ASSUME m # NoMarker
      PROVE  /\ Taken(m, t)
             /\ Replays(m, t) /\ t.interrupt # 0 => t.interrupt \in Q
  <2>1. CASE x.pc = "restored"
    BY <1>1, <2>1 DEF Knows, Taken, Replays
  <2>2. CASE x.pc = "clear"
    <3>1. t.claim[m.comment].state = "completed" /\ t.claim[m.comment].response = x.response
      BY <1>1, <1>5, <2>2 DEF Knows, KnowsAsked, Answering
    <3>2. ASSUME Replays(m, t), t.interrupt # 0 PROVE t.interrupt \in Q
      <4>1. x.response = Response(t)
        BY <3>1, <3>2 DEF Replays
      <4>2. t.status = "needs_input"
        BY <1>1, <3>2 DEF ThreadOK
      <4>3. x.response.status = "needs_input" /\ x.response.interrupt = t.interrupt
        BY <4>1, <4>2 DEF Response
      <4> QED  BY <1>1, <2>2, <4>3 DEF KnowsAsked
    <3> QED  BY <3>1, <3>2 DEF Taken
  <2> QED  BY <1>2, <2>1, <2>2
<1>6. /\ runs[v].marker # NoMarker => Taken(runs[v].marker, t)
      /\ Replays(runs[v].marker, t) /\ t.interrupt # 0 => t.interrupt \in Q
  <2>1. ~Replays(NoMarker, t)
    BY DEF Replays
  <2> HIDE DEF m, t, Q, v
  <2> QED  BY <1>2, <1>5, <2>1
<1>7. Asks(row, t, Q)
  <2> HIDE DEF m, t, Q, v
  <2> QED  BY <1>1, <1>3, <1>6 DEF Asks
<1>8. worker'[w].pc \in Careless /\ ~Correcting(w)'
  BY <1>4 DEF Careless, Correcting
<1>9. Asks(row, thread[v], Asked(asked, v)) /\ (runs[v].marker = NoMarker \/ Taken(runs[v].marker, thread[v]))
  BY <1>6, <1>7
<1> HIDE DEF v, m, x, t, Q
<1> QED  BY <1>1, <1>2, <1>3, <1>4, <1>8, <1>9, AskedRow

\* The correction of a failed run gives it back to its question, which the
\* operator's notice asks.
LEMMA CompleteCorrectionAsked ==
    ASSUME RunInv, RunInv', AskedInv, NEW w \in Workers, CompleteCorrection(w)
    PROVE  AskedInv'
<1> DEFINE v == worker[w].v
           e == worker[w].event
           new == "needs_input"
           t == thread[v]
           Q == Asked(asked, v)
           row == [runs[v] EXCEPT !.state = new]
<1>1. /\ TypeOK /\ v \in Versions /\ Knows(w) /\ Asks(runs[v], t, Q)
      /\ KnowsAsked(worker[w], runs[v], t, Q) /\ v = worker[w].v
  BY WorkerFields DEF RunInv, AskedInv
<1>2. /\ worker[w].pc = "corrected" /\ runs[v].state = "failed" /\ runs[v].marker = NoMarker
      /\ runs' = [runs EXCEPT ![v].state = new] /\ UNCHANGED <<thread, asked>>
      /\ Goto(w, "notify") /\ "notify" \in Places /\ new \in States /\ new # None
  BY DEF CompleteCorrection, complete_critique_correction, At, Places, States, None
<1>3. runs' = [runs EXCEPT ![v] = row] /\ row.state = new /\ row.marker = NoMarker
  <2> HIDE DEF v, new
  <2> QED  BY <1>1, <1>2, StateSet
<1>4. worker'[w].pc = "notify" /\ \A o \in Workers : o # w => worker'[o] = worker[o]
  BY <1>1, <1>2, GoneTo
<1>5. e \in Comments /\ planner_convert_admits(t, e)
  BY <1>1, <1>2 DEF Knows, KnowsAsked
<1>6. Convertible(t) /\ FailedOnce(t)
  BY <1>5 DEF Convertible, FailedOnce, planner_convert_admits
<1> HIDE DEF row
<1>7. Asks(row, t, Q) /\ row.state \notin {None, "planning"}
  <2> HIDE DEF v, t, Q
  <2> QED  BY <1>1, <1>2, <1>3, <1>6 DEF Asks
<1>8. worker'[w].pc \in Careless /\ Correcting(w)
  BY <1>2, <1>4 DEF Careless, Correcting
<1>9. Asks(row, thread[v], Asked(asked, v))
  BY <1>7
<1> HIDE DEF v, e, t, Q, new
<1> QED  BY <1>1, <1>2, <1>3, <1>4, <1>7, <1>8, <1>9, AskedRow

\* The steps that only move a worker, to places that know nothing.
LEMMA CarelessAsked ==
    ASSUME RunInv, RunInv', AskedInv, NEW w \in Workers,
           NeedsRepository(w) \/ OpenJournal(w) \/ Publish(w) \/ _ensure_interrupt_side_effects(w)
    PROVE  AskedInv'
<1>1. /\ UNCHANGED <<runs, thread>> /\ asked \subseteq asked' /\ TypeOK
      /\ worker \in [Workers -> Process] /\ worker[w] \in Process
  BY WorkerFields DEF NeedsRepository, OpenJournal, Publish, _ensure_interrupt_side_effects, RunInv,
         TypeOK, Process
<1>2. CASE UNCHANGED worker /\ UNCHANGED asked
  BY <1>1, <1>2, AskedStays
<1>3. ASSUME NEW place \in {"publishing", "block", "published"},
             worker' = [worker EXCEPT ![w] = Idle] \/ worker' = [worker EXCEPT ![w].pc = place]
      PROVE  AskedInv'
  <2>1. /\ worker'[w].pc \in {"idle", place} /\ \A o \in Workers : o # w => worker'[o] = worker[o]
    BY <1>1, <1>3 DEF Process, Idle
  <2>2. worker'[w].pc \in Careless /\ worker'[w].pc # "notify"
    BY <1>3, <2>1 DEF Careless, Approving
  <2> QED  BY <1>1, <2>1, <2>2, AskedLeaves
<1> QED  BY <1>2, <1>3 DEF NeedsRepository, OpenJournal, Publish, _ensure_interrupt_side_effects,
              Return, Goto

\* A worker without a marker has the planner's answer.
LEMMA AnswerAsked ==
    ASSUME RunInv, RunInv', AskedInv, NEW w \in Workers, UNCHANGED <<runs, thread, asked>>,
           NEW r \in Responses, Replied(w, "respond", r), worker[w].marker = NoMarker,
           r.interrupt <= thread[worker[w].v].raised
    PROVE  AskedInv'
<1>1. TypeOK /\ "respond" \in Places /\ asked \subseteq asked'
  BY DEF RunInv, Places
<1>2. /\ worker'[w].pc = "respond" /\ worker'[w].v = worker[w].v /\ worker'[w].marker = NoMarker
      /\ worker'[w].response = r /\ \A o \in Workers : o # w => worker'[o] = worker[o]
  BY <1>1, RepliedTo
<1>3. KnowsAsked(worker'[w], runs[worker'[w].v], thread[worker'[w].v],
                 Asked(asked', worker'[w].v))
  BY <1>2 DEF KnowsAsked, Answering
<1>4. ~Correcting(w)'
  BY <1>2 DEF Correcting
<1> QED  BY <1>1, <1>2, <1>3, <1>4, AskedMoves

\* planner.get().
LEMMA PlannerGetAsked ==
    ASSUME RunInv, RunInv', AskedInv, NEW w \in Workers, PlannerGet(w)
    PROVE  AskedInv'
<1> DEFINE v == worker[w].v
           t == thread[v]
<1>1. /\ TypeOK /\ Knows(w) /\ v \in Versions /\ t \in Threads /\ ThreadOK(t)
      /\ worker[w].pc = "get" /\ UNCHANGED <<runs, thread, asked>>
  BY WorkerFields, RowFields DEF RunInv, PlannerGet, At
<1>2. worker[w].marker = NoMarker
  BY <1>1 DEF Knows
<1>3. CASE Goto(w, "start")
  <2>1. "start" \in Places /\ asked \subseteq asked'
    BY <1>1 DEF Places
  <2>2. worker'[w].pc = "start" /\ \A o \in Workers : o # w => worker'[o] = worker[o]
    BY <1>1, <1>3, <2>1, GoneTo
  <2>3. worker'[w].pc \in Careless /\ worker'[w].pc # "notify"
    BY <2>2 DEF Careless
  <2> QED  BY <1>1, <2>1, <2>2, <2>3, AskedLeaves
<1>4. CASE t.status # "absent" /\ Replied(w, "respond", Response(t))
  <2>1. Response(t) \in Responses /\ Response(t).interrupt <= t.raised
    BY <1>1, <1>4, ResponseTyped DEF ThreadOK
  <2> DEFINE r == Response(t)
  <2>2. r \in Responses /\ r.interrupt <= thread[worker[w].v].raised /\ Replied(w, "respond", r)
    BY <1>4, <2>1
  <2> HIDE DEF r
  <2> QED  BY <1>1, <1>2, <2>2, AnswerAsked
<1> QED  BY <1>3, <1>4 DEF PlannerGet

\* The interrupt of a comment is read.
LEMMA ReadInterruptAsked ==
    ASSUME RunInv, RunInv', AskedInv, NEW w \in Workers, ReadInterrupt(w)
    PROVE  AskedInv'
<1> DEFINE v == worker[w].v
           t == thread[v]
           m == [comment |-> worker[w].event, interrupt |-> t.interrupt, seal |-> w]
<1>1. /\ TypeOK /\ Knows(w) /\ v \in Versions /\ t \in Threads /\ ThreadOK(t)
      /\ worker[w].pc = "ask" /\ UNCHANGED <<runs, thread, asked>>
      /\ KnowsAsked(worker[w], runs[v], t, Asked(asked, v))
      /\ worker \in [Workers -> Process] /\ worker[w] \in Process
  BY WorkerFields, RowFields DEF RunInv, AskedInv, ReadInterrupt, At, TypeOK, Process
<1>2. worker[w].marker = NoMarker /\ t.status # "absent" /\ runs[v].state \notin {None, "planning"}
  BY <1>1 DEF Knows, KnowsAsked
<1>3. CASE Replied(w, "respond", Response(t))
  <2>1. Response(t) \in Responses /\ Response(t).interrupt <= t.raised
    BY <1>1, <1>2, ResponseTyped DEF ThreadOK
  <2> DEFINE r == Response(t)
  <2>2. r \in Responses /\ r.interrupt <= thread[worker[w].v].raised /\ Replied(w, "respond", r)
    BY <1>3, <2>1
  <2> HIDE DEF r
  <2> QED  BY <1>1, <1>2, <2>2, AnswerAsked
<1>4. CASE worker' = [worker EXCEPT ![w].pc = "record", ![w].marker = m]
  <2>1. m.interrupt = t.interrupt /\ t.interrupt <= t.raised
    BY <1>1 DEF ThreadOK
  <2> HIDE DEF m
  <2>2. /\ worker'[w].pc = "record" /\ worker'[w].v = v /\ worker'[w].marker = m
        /\ \A o \in Workers : o # w => worker'[o] = worker[o]
    BY <1>1, <1>4 DEF Process
  <2>3. KnowsAsked(worker'[w], runs[worker'[w].v], thread[worker'[w].v],
                   Asked(asked', worker'[w].v))
    BY <1>2, <2>1, <2>2 DEF KnowsAsked, Answering
  <2>4. ~Correcting(w)' /\ asked \subseteq asked'
    BY <1>1, <2>2 DEF Correcting
  <2> QED  BY <1>1, <2>2, <2>3, <2>4, AskedMoves
<1> QED  BY <1>3, <1>4 DEF ReadInterrupt

\* The planner's answer is handled: a question is asked before it is settled.
LEMMA ResponseHandledAsked ==
    ASSUME RunInv, RunInv', AskedInv, NEW w \in Workers, HandleResponse(w)
    PROVE  AskedInv'
<1> DEFINE v == worker[w].v
           r == worker[w].response
           t == thread[v]
<1>1. /\ TypeOK /\ Knows(w) /\ v \in Versions /\ r \in Responses
      /\ worker[w].pc = "respond" /\ UNCHANGED <<runs, thread>>
      /\ KnowsAsked(worker[w], runs[v], t, Asked(asked, v)) /\ v = worker[w].v
  BY WorkerFields DEF RunInv, AskedInv, HandleResponse, At
<1>2. ASSUME NEW place \in {"settle", "pull"}, Goto(w, place), asked \subseteq asked',
             place = "settle" /\ r.status = "needs_input" => r.interrupt \in Asked(asked', v),
             place = "pull" => r.status = "artifacts_ready"
      PROVE  AskedInv'
  <2>1. place \in Places
    BY <1>2 DEF Places
  <2>2. /\ worker'[w].pc = place /\ worker'[w].v = v /\ worker'[w].marker = worker[w].marker
        /\ worker'[w].response = r /\ \A o \in Workers : o # w => worker'[o] = worker[o]
    BY <1>1, <1>2, <2>1, GoneTo
  <2>3. KnowsAsked(worker'[w], runs[worker'[w].v], thread[worker'[w].v],
                   Asked(asked', worker'[w].v))
    BY <1>1, <1>2, <2>2 DEF KnowsAsked, Answering
  <2>4. ~Correcting(w)'
    BY <1>2, <2>2 DEF Correcting
  <2> QED  BY <1>1, <1>2, <2>2, <2>3, <2>4, AskedMoves
<1>3. CASE /\ r.status = "needs_input" /\ asked' = asked \union {<<v, r.interrupt>>}
           /\ Goto(w, "settle")
  <2>1. r.interrupt \in 1 .. MaxInterrupt
    BY <1>1, <1>3, LifecycleAssumption DEF Knows, Names, Responses
  <2>2. r.interrupt \in Asked(asked', v) /\ asked \subseteq asked'
    BY <1>3, <2>1 DEF Asked
  <2> QED  BY <1>2, <1>3, <2>2
<1>4. CASE r.status = "failed" /\ Goto(w, "settle") /\ UNCHANGED asked
  BY <1>2, <1>4
<1>5. CASE r.status = "artifacts_ready" /\ Goto(w, "pull") /\ UNCHANGED asked
  BY <1>2, <1>5
<1>6. CASE r.status = "planning" /\ Leave(w) /\ UNCHANGED asked
  <2> DEFINE row == runs[v]
  <2>1. /\ \A o \in Workers : o # w => worker'[o] = worker[o]
        /\ \/ worker'[w].pc \in Careless
           \/ worker'[w].v = v /\ KnowsAsked(worker'[w], row, thread[v], Asked(asked, v))
        /\ ~Correcting(w)'
    <3>1. row.state = runs[v].state /\ worker[w].response.status # "needs_input"
      BY <1>6
    <3> HIDE DEF v, row, r
    <3> QED  BY <1>1, <1>6, <3>1, LeaveKnows
  <2>2. KnowsAsked(worker'[w], runs[worker'[w].v], thread[worker'[w].v],
                   Asked(asked', worker'[w].v))
    <3>1. CASE worker'[w].pc \in Careless
      BY <3>1, CarelessKnows
    <3>2. CASE worker'[w].v = v /\ KnowsAsked(worker'[w], row, thread[v], Asked(asked, v))
      BY <1>6, <3>2
    <3> QED  BY <2>1, <3>1, <3>2
  <2>3. asked \subseteq asked'
    BY <1>6
  <2> QED  BY <1>1, <2>1, <2>2, <2>3, AskedMoves
<1> QED  BY <1>3, <1>4, <1>5, <1>6 DEF HandleResponse

\* The pull request is found or made.
LEMMA EnsurePullRequestAsked ==
    ASSUME RunInv, RunInv', AskedInv, NEW w \in Workers, EnsurePullRequest(w)
    PROVE  AskedInv'
<1> DEFINE v == worker[w].v
<1>1. /\ TypeOK /\ v \in Versions /\ worker[w].pc = "pull" /\ UNCHANGED <<runs, thread, asked>>
      /\ KnowsAsked(worker[w], runs[v], thread[v], Asked(asked, v))
      /\ Goto(w, "bind_pull") /\ "bind_pull" \in Places
  BY WorkerFields DEF RunInv, AskedInv, EnsurePullRequest, At, Places
<1>2. /\ worker'[w].pc = "bind_pull" /\ worker'[w].v = v /\ worker'[w].marker = worker[w].marker
      /\ worker'[w].response = worker[w].response
      /\ \A o \in Workers : o # w => worker'[o] = worker[o]
  BY <1>1, GoneTo
<1>3. KnowsAsked(worker'[w], runs[worker'[w].v], thread[worker'[w].v], Asked(asked', worker'[w].v))
  BY <1>1, <1>2 DEF KnowsAsked, Answering
<1>4. ~Correcting(w)' /\ asked \subseteq asked'
  BY <1>1, <1>2 DEF Correcting
<1> QED  BY <1>1, <1>2, <1>3, <1>4, AskedMoves

\* A thread keeps its failed answers.
LEMMA FailedStays ==
    ASSUME ThreadStays, NEW u \in Versions
    PROVE  FailedOnce(thread[u]) <=> FailedOnce(thread'[u])
BY DEF ThreadStays, FailedOnce

\* A run that another worker corrects.
LEMMA CorrectedFacts ==
    ASSUME RunInv, AskedInv, NEW w \in Workers, NEW o \in Workers, o # w,
           worker[o].pc = "corrected"
    PROVE  LET t == thread[worker[o].v]
               c == worker[o].event
           IN  /\ c \in Comments /\ c \in Keys /\ planner_convert_admits(t, c) /\ t.interrupt # 0
               /\ runs[worker[o].v].marker = NoMarker /\ t.claim[Start].state = "completed"
               /\ t.claim[c].state = "completed" /\ worker[w].pc # "convert"
<1> DEFINE t == thread[worker[o].v]
           c == worker[o].event
<1>1. TypeOK /\ Knows(o) /\ worker[o].v \in Versions /\ t \in Threads /\ ThreadOK(t)
  BY WorkerFields, RowFields DEF RunInv
<1>2. /\ c \in Comments /\ planner_convert_admits(t, c) /\ t.interrupt # 0
      /\ runs[worker[o].v].marker = NoMarker
  BY <1>1 DEF AskedInv, KnowsAsked, Knows
<1>3. t.claim[c].state = "completed" /\ c \in Keys
  BY <1>2 DEF planner_convert_admits, Keys
<1>4. t.claim[Start].state = "completed"
  BY <1>1, <1>2, <1>3 DEF ThreadOK, None
<1>5. worker[w].pc # "convert"
  BY DEF AskedInv, Correcting
<1> QED  BY <1>2, <1>3, <1>4, <1>5

\* planner.start(): the first interrupt of a thread is asked before its run waits.
LEMMA PlannerStartAsked ==
    ASSUME RunInv, RunInv', AskedInv, NEW w \in Workers, PlannerStart(w)
    PROVE  AskedInv'
<1> DEFINE v == worker[w].v
           t == thread[v]
           Q == Asked(asked, v)
<1>1. /\ TypeOK /\ Knows(w) /\ v \in Versions /\ t \in Threads /\ ThreadOK(t)
      /\ worker[w].pc = "start" /\ UNCHANGED <<runs, asked>> /\ v = worker[w].v
      /\ Asks(runs[v], t, Q)
  BY WorkerFields, RowFields DEF RunInv, AskedInv, PlannerStart, At
<1>2. worker[w].marker = NoMarker /\ "respond" \in Places /\ ThreadStays
  BY <1>1, ThreadStep DEF Knows, Places
<1>3. CASE /\ t.claim[Start].state = "completed" /\ UNCHANGED thread
           /\ Replied(w, "respond", t.claim[Start].response)
  <2> DEFINE r == t.claim[Start].response
  <2>1. r \in Responses /\ r.interrupt <= t.raised
    BY <1>1, <1>3, ThreadFields, ClaimFields DEF ThreadOK, Keys
  <2>2. r \in Responses /\ r.interrupt <= thread[worker[w].v].raised /\ Replied(w, "respond", r)
        /\ UNCHANGED <<runs, thread, asked>>
    BY <1>1, <1>3, <2>1
  <2> HIDE DEF r
  <2> QED  BY <1>2, <2>2, AnswerAsked
<1>4. ASSUME t.claim[Start].state # "completed",
             NEW p \in {Started(t)} \union Planned(Started(t)), NEW n,
             n = Completed(p, Start, 0) \/ n = Claimed(p, Start, 0),
             thread' = [thread EXCEPT ![v] = n],
             \A o \in Workers : o # w => worker'[o] = worker[o], ~Correcting(w)',
             \/ worker'[w].pc \in Careless
             \/ worker'[w].v = v /\ KnowsAsked(worker'[w], runs[v], n, Asked(asked, v))
      PROVE  AskedInv'
  <2>1. /\ n \in Threads /\ ThreadOK(n) /\ ThreadGrows(t, n) /\ n.raised <= 1
    <3> HIDE DEF t
    <3> QED  BY <1>1, <1>4, StartCompletes
  <2>2. thread'[v] = n
    BY <1>1, <1>4 DEF TypeOK
  <2>3. FailedOnce(n) <=> FailedOnce(t)
    BY <1>1, <1>2, <2>2, FailedStays
  <2>4. /\ n.interrupt \in Nat /\ n.raised \in Nat /\ t.raised \in Nat /\ n.interrupt <= n.raised
        /\ t.raised <= n.raised
    <3> HIDE DEF t
    <3>1. n.interrupt <= n.raised /\ t.raised <= n.raised
      BY <2>1 DEF ThreadOK, ThreadGrows
    <3> QED  BY <1>1, <2>1, <3>1, ThreadFields, LifecycleAssumption
  <2>5. n.interrupt # 0 => n.interrupt = 1
    BY <2>1, <2>4
  <2>6. runs[v].marker # NoMarker => runs[v].marker.interrupt <= n.raised
    <3>1. runs[v].marker # NoMarker => runs[v].marker.interrupt \in Nat
      BY <1>1, RowFields, LifecycleAssumption DEF Markers
    <3> QED  BY <1>1, <2>4, <3>1 DEF Asks
  <2>7. Asks(runs[v], n, Q)
    <3> HIDE DEF t, Q
    <3> QED  BY <1>1, <2>1, <2>3, <2>5, <2>6 DEF Asks
  <2>8. \A o \in Workers : o # w /\ worker[o].v = v /\ worker[o].pc = "corrected" =>
            planner_convert_admits(n, worker[o].event) /\ n.interrupt # 0
    BY <1>4, CorrectedFacts
  <2>9. Asks(runs[v], n, Asked(asked, v)) /\ ThreadGrows(thread[v], n)
    BY <2>1, <2>7
  <2>10. /\ v \in Versions /\ v = worker[w].v /\ UNCHANGED <<runs, asked>>
         /\ thread' = [thread EXCEPT ![v] = n]
         /\ \A o \in Workers : o # w => worker'[o] = worker[o]
         /\ \/ worker'[w].pc \in Careless
            \/ worker'[w].v = v /\ KnowsAsked(worker'[w], runs[v], n, Asked(asked, v))
         /\ Correcting(w)' => Correcting(w)
    BY <1>1, <1>4
  <2> HIDE DEF v, t, Q
  <2> QED  BY <2>1, <2>8, <2>9, <2>10, AskedThread
<1>5. ASSUME t.claim[Start].state # "completed", NEW p \in Planned(Started(t)),
             thread' = [thread EXCEPT ![v] = Completed(p, Start, 0)],
             Replied(w, "respond", Response(p))
      PROVE  AskedInv'
  <2> DEFINE n == Completed(p, Start, 0)
  <2>0. p \in {Started(t)} \union Planned(Started(t))
    BY <1>5
  <2>1. p \in Threads /\ p.status # "absent" /\ p.interrupt <= p.raised
    <3> HIDE DEF t
    <3> QED  BY <1>1, <1>5, <2>0, StartedThread
  <2>2. n.raised = p.raised
    <3>1. Start \in Keys /\ 0 \in 0 .. MaxInterrupt
      BY LifecycleAssumption DEF Keys
    <3> QED  BY <2>1, <3>1, CompletedThread
  <2>3. Response(p) \in Responses /\ Response(p).interrupt <= n.raised
    BY <2>1, <2>2, ResponseTyped
  <2>4. /\ worker'[w].pc = "respond" /\ worker'[w].v = v /\ worker'[w].marker = NoMarker
        /\ worker'[w].response = Response(p)
        /\ \A o \in Workers : o # w => worker'[o] = worker[o]
    BY <1>1, <1>2, <1>5, <2>3, RepliedTo
  <2>5. n = Completed(p, Start, 0) /\ thread' = [thread EXCEPT ![v] = n]
    BY <1>5
  <2> HIDE DEF n
  <2>6. KnowsAsked(worker'[w], runs[v], n, Asked(asked, v)) /\ ~Correcting(w)'
    BY <2>3, <2>4 DEF KnowsAsked, Answering, Correcting
  <2> QED  BY <1>4, <1>5, <2>0, <2>4, <2>5, <2>6
<1>6. ASSUME t.claim[Start].state # "completed", NEW p \in {Started(t)} \union Planned(Started(t)),
             thread' = [thread EXCEPT ![v] = Claimed(p, Start, 0)],
             worker' = [worker EXCEPT ![w] = Idle]
      PROVE  AskedInv'
  <2> DEFINE n == Claimed(p, Start, 0)
  <2>1. worker'[w].pc = "idle" /\ \A o \in Workers : o # w => worker'[o] = worker[o]
    BY <1>1, <1>6, IdleWorker
  <2>2. worker'[w].pc \in Careless /\ ~Correcting(w)'
    BY <2>1 DEF Careless, Correcting
  <2>3. n = Claimed(p, Start, 0) /\ thread' = [thread EXCEPT ![v] = n]
    BY <1>6
  <2> HIDE DEF n
  <2> QED  BY <1>4, <1>6, <2>1, <2>2, <2>3
<1> QED  BY <1>3, <1>5, <1>6 DEF PlannerStart

\* The question that an answer leads to is one the marker replays.
LEMMA ResumedAsks ==
    ASSUME NEW t \in Threads, ThreadOK(t), NEW m \in Markers, planner_resume_admits(t, m),
           t.claim[m.comment].state # "completed",
           NEW p \in {t, Consumed(t, m)} \union Planned(Consumed(t, m)), NEW n,
           \/ n = Completed(p, m.comment, m.interrupt) /\ p \in Planned(Consumed(t, m))
           \/ n = Claimed(p, m.comment, m.interrupt),
           FailedOnce(n) <=> FailedOnce(t),
           NEW row, row.marker = m, row.state \notin {None, "planning"}, NEW Q, Asks(row, t, Q)
    PROVE  Asks(row, n, Q)
<1> DEFINE k == m.comment
<1>1. /\ k \in Comments /\ k \in Keys /\ k # None /\ m.interrupt \in Nat /\ m.interrupt # 0
      /\ m # NoMarker /\ \A c \in Comments : c \in Keys
  BY LifecycleAssumption DEF Markers, NoMarker, Keys, Events
<1>2. /\ n \in Threads /\ ThreadGrows(t, n)
      /\ n.status = p.status /\ n.interrupt = p.interrupt /\ n.consumed = p.consumed
      /\ n.raised = p.raised
      /\ t.claim[k].state \in {None, "open"}
      /\ \A c \in Keys : c # k => n.claim[c] = t.claim[c]
      /\ \/ /\ n.claim[k].state = "completed" /\ n.claim[k].response = Response(p)
            /\ Response(p) = Response(n)
         \/ n.claim[k].state = "open"
  BY ResumeCompletes
<1>3. p = t \/ (p.consumed = k /\ p.interrupt \in {0, t.raised + 1})
  BY ConsumedThread
<1>4. /\ t.raised \in Nat /\ n.raised \in Nat /\ t.raised <= n.raised /\ m.interrupt <= t.raised
  <2>1. t.raised <= n.raised /\ m.interrupt <= t.raised
    BY <1>1, <1>2 DEF ThreadGrows, Asks
  <2> QED  BY <1>2, <2>1, ThreadFields, LifecycleAssumption
<1>5. m.interrupt <= n.raised
  BY <1>1, <1>4
<1>6. ASSUME row.state = "needs_input", n.interrupt # 0, ~Convertible(n)
      PROVE  n.interrupt \in Q \/ Replays(m, n)
  <2>1. CASE n.claim[k].state = "completed" /\ n.claim[k].response = Response(p)
             /\ Response(p) = Response(n)
    BY <1>1, <2>1 DEF Replays
  <2>2. CASE n.claim[k].state = "open" /\ p # t
    <3>1. n.consumed = k /\ n.interrupt = t.raised + 1
      BY <1>2, <1>3, <1>6, <2>2
    <3>2. m.interrupt # n.interrupt
      BY <1>1, <1>4, <3>1
    <3> QED  BY <1>1, <2>2, <3>1, <3>2 DEF Replays
  <2>3. CASE n.claim[k].state = "open" /\ p = t
    <3>1. n.interrupt = t.interrupt /\ n.consumed = t.consumed /\ n.raised = t.raised
      BY <1>2, <2>3
    <3>2. ~Convertible(t)
      <4> SUFFICES ASSUME NEW c \in Comments, planner_convert_admits(t, c)
                   PROVE  planner_convert_admits(n, c)
        BY <1>6 DEF Convertible
      <4>1. t.claim[c].state = "completed"
        BY DEF planner_convert_admits
      <4>2. c # k
        BY <4>1
      <4>3. n.claim[c] = t.claim[c]
        BY <1>1, <1>2, <4>2
      <4> QED  BY <3>1, <4>3 DEF planner_convert_admits
    <3>3. t.interrupt \in Q \/ Replays(m, t)
      BY <1>6, <3>1, <3>2 DEF Asks
    <3>4. Replays(m, t) => t.consumed = k /\ m.interrupt # t.interrupt
      BY DEF Replays
    <3> QED  BY <1>1, <2>3, <3>1, <3>3, <3>4 DEF Replays
  <2> QED  BY <1>2, <2>1, <2>2, <2>3
<1> QED  BY <1>1, <1>5, <1>6 DEF Asks

\* planner.resume(): the marker stays until its answer was asked on.
LEMMA PlannerResumeAsked ==
    ASSUME RunInv, RunInv', AskedInv, NEW w \in Workers, PlannerResume(w)
    PROVE  AskedInv'
<1> DEFINE v == worker[w].v
           m == worker[w].marker
           t == thread[v]
           Q == Asked(asked, v)
<1>1. /\ TypeOK /\ Knows(w) /\ v \in Versions /\ t \in Threads /\ ThreadOK(t)
      /\ worker[w].pc = "resume" /\ UNCHANGED <<runs, asked>> /\ v = worker[w].v
      /\ Asks(runs[v], t, Q) /\ KnowsAsked(worker[w], runs[v], t, Q)
      /\ planner_resume_admits(t, m)
  BY WorkerFields, RowFields DEF RunInv, AskedInv, PlannerResume, At
<1>2. /\ m # NoMarker /\ m \in Markers /\ m.comment \in Keys /\ m.comment \in Comments
      /\ "respond" \in Places /\ ThreadStays
  BY <1>1, WorkerFields, ThreadStep DEF Knows, Places
<1>3. runs[v].state \notin {None, "planning"} /\ (runs[v].marker = m \/ Taken(m, t))
  BY <1>1 DEF KnowsAsked
<1>4. CASE /\ t.claim[m.comment].state = "completed" /\ UNCHANGED thread
           /\ Replied(w, "respond", t.claim[m.comment].response)
  <2> DEFINE r == t.claim[m.comment].response
  <2>1. r \in Responses /\ r.interrupt <= t.raised
    BY <1>1, <1>2, <1>4, ThreadFields, ClaimFields DEF ThreadOK
  <2>2. Replied(w, "respond", r)
    BY <1>4
  <2>3. r = t.claim[m.comment].response
    OBVIOUS
  <2> HIDE DEF r
  <2>4. /\ worker'[w].pc = "respond" /\ worker'[w].v = v /\ worker'[w].marker = m
        /\ worker'[w].response = r
        /\ \A o \in Workers : o # w => worker'[o] = worker[o]
    BY <1>1, <1>2, <2>1, <2>2, RepliedTo
  <2>5. KnowsAsked(worker'[w], runs[worker'[w].v], thread[worker'[w].v],
                   Asked(asked', worker'[w].v))
    BY <1>3, <2>1, <2>3, <2>4 DEF KnowsAsked, Answering
  <2>6. ~Correcting(w)' /\ asked \subseteq asked' /\ UNCHANGED <<runs, thread>>
    BY <1>1, <1>4, <2>4 DEF Correcting
  <2> QED  BY <2>4, <2>5, <2>6, AskedMoves
<1>5. ASSUME t.claim[m.comment].state # "completed",
             NEW p \in {t, Consumed(t, m)} \union Planned(Consumed(t, m)), NEW n,
             \/ n = Completed(p, m.comment, m.interrupt) /\ p \in Planned(Consumed(t, m))
             \/ n = Claimed(p, m.comment, m.interrupt),
             thread' = [thread EXCEPT ![v] = n],
             \A o \in Workers : o # w => worker'[o] = worker[o], ~Correcting(w)',
             \/ worker'[w].pc \in Careless
             \/ worker'[w].v = v /\ KnowsAsked(worker'[w], runs[v], n, Asked(asked, v))
      PROVE  AskedInv'
  <2>1. n \in Threads /\ ThreadGrows(t, n) /\ t.claim[m.comment].state \in {None, "open"}
    <3> HIDE DEF t, m
    <3> QED  BY <1>1, <1>2, <1>5, ResumeCompletes
  <2>2. runs[v].marker = m
    BY <1>3, <2>1 DEF Taken, None
  <2>3. thread'[v] = n
    BY <1>1, <1>5 DEF TypeOK
  <2>4. FailedOnce(n) <=> FailedOnce(t)
    BY <1>1, <1>2, <2>3, FailedStays
  <2> DEFINE row == runs[v]
  <2>5. Asks(row, n, Q)
    <3>1. row.marker = m /\ row.state \notin {None, "planning"} /\ Asks(row, t, Q)
      BY <1>1, <1>3, <2>2
    <3> HIDE DEF t, Q, m, row
    <3> QED  BY <1>1, <1>2, <1>5, <2>4, <3>1, ResumedAsks
  <2>6. \A o \in Workers : o # w /\ worker[o].v = v /\ worker[o].pc = "corrected" =>
            planner_convert_admits(n, worker[o].event) /\ n.interrupt # 0
    BY <1>2, <2>2, CorrectedFacts
  <2>7. Asks(runs[v], n, Asked(asked, v)) /\ ThreadGrows(thread[v], n)
    BY <2>1, <2>5
  <2>8. v \in Versions /\ v = worker[w].v
    BY <1>1
  <2>9. ASSUME NEW u \in Versions, u = v
        PROVE  AskedInv'
    <3>1. /\ u = worker[w].v /\ thread' = [thread EXCEPT ![u] = n]
          /\ Asks(runs[u], n, Asked(asked, u)) /\ ThreadGrows(thread[u], n)
          /\ \/ worker'[w].pc \in Careless
             \/ worker'[w].v = u /\ KnowsAsked(worker'[w], runs[u], n, Asked(asked, u))
      BY <1>5, <2>7, <2>8, <2>9
    <3>2. \A o \in Workers : o # w /\ worker[o].v = u /\ worker[o].pc = "corrected" =>
              planner_convert_admits(n, worker[o].event) /\ n.interrupt # 0
      BY <2>6, <2>9
    <3>3. n \in Threads /\ UNCHANGED <<runs, asked>>
      BY <1>1, <2>1
    <3>4. (\A o \in Workers : o # w => worker'[o] = worker[o]) /\ (Correcting(w)' => Correcting(w))
      BY <1>5
    <3> HIDE DEF v, t, Q, m, row
    <3> QED  BY <3>1, <3>2, <3>3, <3>4, AskedThread
  <2> QED  BY <2>8, <2>9
<1>6. ASSUME t.claim[m.comment].state # "completed", NEW p \in Planned(Consumed(t, m)),
             thread' = [thread EXCEPT ![v] = Completed(p, m.comment, m.interrupt)],
             Replied(w, "respond", Response(p))
      PROVE  AskedInv'
  <2> DEFINE n == Completed(p, m.comment, m.interrupt)
  <2>0. p \in {t, Consumed(t, m)} \union Planned(Consumed(t, m))
    BY <1>6
  <2>1. p \in Threads /\ p.status # "absent" /\ p.interrupt <= p.raised
    <3> HIDE DEF t, m
    <3> QED  BY <1>1, <1>2, <1>6, <2>0, ConsumedThread
  <2>2. n.raised = p.raised /\ n.claim[m.comment].response = Response(p)
    <3>1. m.interrupt \in 0 .. MaxInterrupt
      BY <1>2 DEF Markers
    <3> QED  BY <1>2, <2>1, <3>1, CompletedThread
  <2>3. Response(p) \in Responses /\ Response(p).interrupt <= n.raised
    BY <2>1, <2>2, ResponseTyped
  <2>4. /\ worker'[w].pc = "respond" /\ worker'[w].v = v /\ worker'[w].marker = m
        /\ worker'[w].response = Response(p)
        /\ \A o \in Workers : o # w => worker'[o] = worker[o]
    BY <1>1, <1>2, <1>6, <2>3, RepliedTo
  <2>5. n = Completed(p, m.comment, m.interrupt) /\ thread' = [thread EXCEPT ![v] = n]
    BY <1>6
  <2> HIDE DEF n
  <2>6. KnowsAsked(worker'[w], runs[v], n, Asked(asked, v)) /\ ~Correcting(w)'
    BY <1>3, <2>2, <2>3, <2>4 DEF KnowsAsked, Answering, Correcting
  <2> QED  BY <1>5, <1>6, <2>0, <2>4, <2>5, <2>6
<1>7. ASSUME t.claim[m.comment].state # "completed",
             NEW p \in {t, Consumed(t, m)} \union Planned(Consumed(t, m)),
             thread' = [thread EXCEPT ![v] = Claimed(p, m.comment, m.interrupt)],
             worker' = [worker EXCEPT ![w] = Idle]
      PROVE  AskedInv'
  <2> DEFINE n == Claimed(p, m.comment, m.interrupt)
  <2>1. worker'[w].pc = "idle" /\ \A o \in Workers : o # w => worker'[o] = worker[o]
    BY <1>1, <1>7, IdleWorker
  <2>2. worker'[w].pc \in Careless /\ ~Correcting(w)'
    BY <2>1 DEF Careless, Correcting
  <2>3. n = Claimed(p, m.comment, m.interrupt) /\ thread' = [thread EXCEPT ![v] = n]
    BY <1>7
  <2> HIDE DEF n
  <2> QED  BY <1>5, <1>7, <2>1, <2>2, <2>3
<1> QED  BY <1>4, <1>6, <1>7 DEF PlannerResume

\* The correction of a thread outlives the tombstone of an answer.
LEMMA AbandonedConverts ==
    ASSUME NEW t \in Threads, ThreadOK(t), NEW m \in Markers, planner_abandon_admits(t, m),
           t.interrupt = m.interrupt, NEW n, n = Abandoned(t, m), NEW c \in Comments
    PROVE  planner_convert_admits(t, c) <=> planner_convert_admits(n, c)
<1>1. /\ n.claim[m.comment].state = "abandoned" /\ n.interrupt = t.interrupt
      /\ n.raised = t.raised /\ n.consumed = t.consumed
      /\ \A k \in Keys : k # m.comment => n.claim[k] = t.claim[k]
  BY AbandonedThread
<1>2. c \in Keys /\ t.claim[m.comment].state \in {"open", "abandoned"}
  BY DEF Keys, planner_abandon_admits
<1>3. CASE c = m.comment
  BY <1>1, <1>2, <1>3 DEF planner_convert_admits
<1>4. CASE c # m.comment
  BY <1>1, <1>2, <1>4 DEF planner_convert_admits
<1> QED  BY <1>3, <1>4

\* An answer that is abandoned gives back a question that was asked.
LEMMA AbandonedAsks ==
    ASSUME NEW t \in Threads, ThreadOK(t), NEW m \in Markers, planner_abandon_admits(t, m),
           NEW n, n = Abandoned(t, m), FailedOnce(n) <=> FailedOnce(t), NEW row,
           row.marker # NoMarker => row.marker.comment \in Keys,
           row.marker = m \/ Taken(m, t), row.state \notin {None, "planning"},
           NEW Q, 1 \in Q, Asks(row, t, Q)
    PROVE  Asks(row, n, Q)
<1>1. /\ n \in Threads /\ n.claim[m.comment].state = "abandoned" /\ n.interrupt = m.interrupt
      /\ n.raised = t.raised
      /\ \A k \in Keys : k # m.comment => n.claim[k] = t.claim[k]
      /\ n.consumed = IF t.interrupt = m.interrupt THEN t.consumed ELSE None
      /\ ThreadOK(n)
  BY AbandonedThread
<1>2. m.interrupt # 0 /\ m # NoMarker
  BY LifecycleAssumption DEF Markers, NoMarker, Events
<1>3. ASSUME row.state = "needs_input", ~Convertible(n)
      PROVE  n.interrupt \in Q \/ Replays(row.marker, n)
  <2>1. CASE t.interrupt # m.interrupt
    BY <1>1, <2>1 DEF planner_abandon_admits
  <2>2. CASE t.interrupt = m.interrupt
    <3>1. ~Convertible(t)
      BY <1>3, <2>2, AbandonedConverts DEF Convertible
    <3>2. t.interrupt \in Q \/ Replays(row.marker, t)
      BY <1>2, <1>3, <2>2, <3>1 DEF Asks
    <3>3. ASSUME Replays(row.marker, t) PROVE Replays(row.marker, n)
      <4>1. t.claim[m.comment].state \in {"open", "abandoned"}
        BY DEF planner_abandon_admits
      <4>2. row.marker # NoMarker
        BY <3>3 DEF Replays
      <4>3. CASE row.marker.comment = m.comment
        <5>1. t.claim[m.comment].state = "open" /\ row.marker.interrupt # t.interrupt
          BY <3>3, <4>1, <4>3 DEF Replays
        <5>2. row.marker = m
          BY <5>1 DEF Taken
        <5> QED  BY <2>2, <5>1, <5>2
      <4>4. CASE row.marker.comment # m.comment
        <5>1. n.claim[row.marker.comment] = t.claim[row.marker.comment]
          BY <1>1, <4>2, <4>4
        <5>2. n.status = t.status /\ n.interrupt = t.interrupt /\ n.consumed = t.consumed
          BY <1>1, <1>2, <2>2 DEF ThreadOK
        <5>3. Response(n) = Response(t)
          BY <5>2 DEF Response
        <5> QED  BY <3>3, <5>1, <5>2, <5>3 DEF Replays
      <4> QED  BY <4>3, <4>4
    <3> QED  BY <1>1, <2>2, <3>2, <3>3
  <2> QED  BY <2>1, <2>2
<1> QED  BY <1>1, <1>3 DEF Asks

\* planner.abandon_resume().
LEMMA PlannerAbandonAsked ==
    ASSUME RunInv, RunInv', AskedInv, NEW w \in Workers, PlannerAbandon(w)
    PROVE  AskedInv'
<1> DEFINE v == worker[w].v
           m == worker[w].marker
           t == thread[v]
           Q == Asked(asked, v)
           row == runs[v]
           n == Abandoned(t, m)
<1>1. /\ TypeOK /\ Knows(w) /\ v \in Versions /\ t \in Threads /\ ThreadOK(t)
      /\ worker[w].pc = "abandon" /\ UNCHANGED <<runs, asked>> /\ v = worker[w].v
      /\ Asks(row, t, Q) /\ KnowsAsked(worker[w], row, t, Q)
      /\ planner_abandon_admits(t, m) /\ thread' = [thread EXCEPT ![v] = n]
      /\ Goto(w, "restored") /\ "restored" \in Places
  BY WorkerFields, RowFields DEF RunInv, AskedInv, PlannerAbandon, At, Places
<1>2. /\ m # NoMarker /\ m \in Markers /\ ThreadStays
      /\ row.marker # NoMarker => row.marker.comment \in Keys
  BY <1>1, WorkerFields, RowFields, ThreadStep DEF Knows, Keys
<1>3. row.state \notin {None, "planning"} /\ (row.marker = m \/ Taken(m, t)) /\ 1 \in Q
  BY <1>1 DEF KnowsAsked
<1>4. n = Abandoned(t, m)
  OBVIOUS
<1>5. n \in Threads /\ ThreadGrows(t, n)
  <2> HIDE DEF t, m
  <2> QED  BY <1>1, <1>2, AbandonedThread
<1> HIDE DEF n
<1>6. FailedOnce(n) <=> FailedOnce(t)
  <2>1. thread'[v] = n
    BY <1>1 DEF TypeOK
  <2> QED  BY <1>1, <1>2, <2>1, FailedStays
<1>7. Asks(row, n, Q)
  <2> HIDE DEF t, m, Q, row
  <2> QED  BY <1>1, <1>2, <1>3, <1>4, <1>6, AbandonedAsks
<1>8. ASSUME NEW o \in Workers, o # w, worker[o].v = v, worker[o].pc = "corrected"
      PROVE  planner_convert_admits(n, worker[o].event) /\ n.interrupt # 0
  <2> DEFINE c == worker[o].event
  <2>1. c \in Comments /\ planner_convert_admits(t, c) /\ t.interrupt # 0
    BY <1>8, CorrectedFacts
  <2>2. t.interrupt = m.interrupt
    <3>1. t.status = "needs_input"
      BY <1>1, <2>1 DEF ThreadOK
    <3> QED  BY <1>1, <3>1 DEF planner_abandon_admits
  <2> HIDE DEF t, m, c
  <2>3. planner_convert_admits(n, c)
    BY <1>1, <1>2, <1>4, <2>1, <2>2, AbandonedConverts
  <2>4. n.interrupt = m.interrupt
    BY <1>1, <1>2, <1>4, AbandonedThread
  <2> QED  BY <2>1, <2>2, <2>3, <2>4 DEF c
<1>9. /\ worker'[w].pc = "restored" /\ worker'[w].v = v
      /\ \A o \in Workers : o # w => worker'[o] = worker[o]
  BY <1>1, GoneTo
<1>10. KnowsAsked(worker'[w], row, n, Q) /\ ~Correcting(w)'
  BY <1>3, <1>9 DEF KnowsAsked, Answering, Correcting
<1>11. /\ Asks(runs[v], n, Asked(asked, v)) /\ ThreadGrows(thread[v], n)
       /\ KnowsAsked(worker'[w], runs[v], n, Asked(asked, v))
       /\ Correcting(w)' => Correcting(w)
       /\ v \in Versions /\ v = worker[w].v /\ UNCHANGED <<runs, asked>>
       /\ thread' = [thread EXCEPT ![v] = n]
  BY <1>1, <1>5, <1>7, <1>10
<1> HIDE DEF v, m, t, Q, row
<1> QED  BY <1>5, <1>8, <1>9, <1>11, AskedThread

\* planner.convert_failed_critique(): the run is failed until the correction is
\* completed.
LEMMA PlannerConvertAsked ==
    ASSUME RunInv, RunInv', AskedInv, NEW w \in Workers, PlannerConvert(w)
    PROVE  AskedInv'
<1> DEFINE v == worker[w].v
           e == worker[w].event
           t == thread[v]
           Q == Asked(asked, v)
           row == runs[v]
           n == Converted(t)
<1>1. /\ TypeOK /\ Knows(w) /\ v \in Versions /\ t \in Threads /\ ThreadOK(t)
      /\ worker[w].pc = "convert" /\ UNCHANGED <<runs, asked>> /\ v = worker[w].v
      /\ Asks(row, t, Q) /\ KnowsAsked(worker[w], row, t, Q)
      /\ planner_convert_admits(t, e) /\ thread' = [thread EXCEPT ![v] = n]
      /\ Replied(w, "corrected", Response(n)) /\ "corrected" \in Places
  BY WorkerFields, RowFields DEF RunInv, AskedInv, PlannerConvert, At, Places
<1>2. /\ e \in Comments /\ ThreadStays /\ row.state = "failed" /\ row.marker = NoMarker
  BY <1>1, ThreadStep DEF Knows, KnowsAsked
<1>3. /\ n \in Threads /\ ThreadGrows(t, n) /\ n.claim = t.claim /\ n.consumed = t.consumed
      /\ n.interrupt # 0
  <2> HIDE DEF t, e
  <2> QED  BY <1>1, <1>2, ConvertedThread
<1>4. Response(n) \in Responses
  BY <1>3, ResponseTyped DEF ThreadGrows
<1> HIDE DEF n
<1>5. planner_convert_admits(n, e)
  BY <1>1, <1>3 DEF planner_convert_admits
<1>6. FailedOnce(n) <=> FailedOnce(t)
  <2>1. thread'[v] = n
    BY <1>1 DEF TypeOK
  <2> QED  BY <1>1, <1>2, <2>1, FailedStays
<1>7. Asks(row, n, Q)
  <2> HIDE DEF t, e, Q, row
  <2> QED  BY <1>1, <1>2, <1>6 DEF Asks, None
<1>8. \A o \in Workers : o # w /\ worker[o].v = v /\ worker[o].pc = "corrected" =>
          planner_convert_admits(n, worker[o].event) /\ n.interrupt # 0
  BY <1>1, CorrectedFacts
<1>9. /\ worker'[w].pc = "corrected" /\ worker'[w].v = v /\ worker'[w].event = e
      /\ \A o \in Workers : o # w => worker'[o] = worker[o]
  BY <1>1, <1>4, RepliedTo
<1>10. KnowsAsked(worker'[w], row, n, Q) /\ Correcting(w)
  BY <1>1, <1>2, <1>3, <1>5, <1>9 DEF KnowsAsked, Answering, Correcting
<1>11. /\ Asks(runs[v], n, Asked(asked, v)) /\ ThreadGrows(thread[v], n)
       /\ KnowsAsked(worker'[w], runs[v], n, Asked(asked, v))
       /\ Correcting(w)' => Correcting(w)
       /\ v \in Versions /\ v = worker[w].v /\ UNCHANGED <<runs, asked>>
       /\ thread' = [thread EXCEPT ![v] = n]
  BY <1>1, <1>3, <1>7, <1>10
<1> HIDE DEF v, e, t, Q, row
<1> QED  BY <1>3, <1>8, <1>9, <1>11, AskedThread

\* The invariant is inductive.
LEMMA AskedStep ==
    ASSUME RunInv, AskedInv, [Next]_vars
    PROVE  AskedInv'
<1>0. RunInv' /\ TypeOK
  BY RunStep DEF RunInv
<1>1. CASE UNCHANGED vars
  BY <1>1, AskedStays DEF vars
<1>2. ASSUME NEW v \in Versions, Merge(v) PROVE AskedInv'
  BY <1>2, AskedStays DEF Merge
<1>3. ASSUME NEW w \in Workers, Retry(w) \/ DeadLetter(w) PROVE AskedInv'
  <2>1. UNCHANGED <<runs, thread>> /\ asked \subseteq asked' /\ worker' = [worker EXCEPT ![w] = Idle]
    BY <1>3 DEF Retry, DeadLetter, Fail
  <2>2. worker'[w].pc = "idle" /\ \A o \in Workers : o # w => worker'[o] = worker[o]
    BY <1>0, <2>1, IdleWorker
  <2>3. worker'[w].pc \in Careless /\ worker'[w].pc # "notify"
    BY <2>2 DEF Careless
  <2> QED  BY <1>0, <2>1, <2>2, <2>3, AskedLeaves
<1>4. ASSUME NEW w \in Workers, Step(w) PROVE AskedInv'
  BY <1>0, <1>4, BeginAsked, CarelessAsked, PlannerStartAsked, PlannerGetAsked, ReadInterruptAsked,
     RecordPendingResumeAsked, PlannerResumeAsked, ResponseHandledAsked, SettleResponseAsked,
     EnsurePullRequestAsked, RecordPullRequestAsked, ClearedAsked, ClosedAsked,
     PlannerAbandonAsked, PlannerConvertAsked, CompleteCorrectionAsked DEF Step
<1> QED  BY <1>0, <1>1, <1>2, <1>3, <1>4, HandlersAsked, CorrectionsAsked DEF Next

\* The invariant holds initially, of the runs of an earlier release too.
LEMMA AskedInit ==
    ASSUME Init
    PROVE  AskedInv
<1>1. \A w \in Workers : worker[w].pc = "idle"
  BY DEF Init, Idle
<1>2. /\ \A w \in Workers : KnowsAsked(worker[w], runs[worker[w].v], thread[worker[w].v],
                                        Asked(asked, worker[w].v))
      /\ \A w \in Workers : ~Correcting(w)
  <2>1. \A w \in Workers : worker[w].pc \in Careless
    BY <1>1 DEF Careless
  <2> QED  BY <1>1, <2>1, CarelessKnows DEF Correcting
<1>3. \A c \in Comments : c \in Keys
  BY DEF Keys
<1>4. \A Q : Asks(NoRun, NoThread, Q)
  <2>1. ~FailedOnce(NoThread)
    BY <1>3, NothingTyped DEF FailedOnce, None
  <2> QED  BY <2>1, NothingTyped DEF Asks, None
<1>5. PICK A \in Arrivals :
        \/ Fresh(A)
        \/ \E e \in Changes, c \in Comments \intersect A : LegacyAnswer(A, e, c)
        \/ \E e \in Changes, m \in Merges, r \in Replans \intersect A : LegacyReplan(A, e, m, r)
  BY DEF Init
<1>6. CASE Fresh(A)
  <2>1. \A v \in Versions : runs[v] = NoRun /\ thread[v] = NoThread
    BY <1>6 DEF Fresh
  <2> QED  BY <1>2, <1>4, <2>1 DEF AskedInv
<1>7. ASSUME NEW e \in Changes, NEW c \in Comments, LegacyAnswer(A, e, c)
      PROVE  AskedInv
  <2> DEFINE row == [NoRun EXCEPT !.state = "needs_input", !.request = e]
  <2>1. row.state = "needs_input" /\ row.marker = NoMarker
    BY DEF NoRun
  <2>2. /\ runs = [v \in Versions |-> IF v = 1 THEN row ELSE NoRun]
        /\ thread = [v \in Versions |-> IF v = 1 THEN Exhausted(c) ELSE NoThread]
        /\ MaxInterrupt > 0 /\ asked = {<<1, 1>>}
    BY <1>7 DEF LegacyAnswer
  <2>3. Exhausted(c).interrupt = 0
    BY DEF Exhausted, NoThread
  <2> DEFINE t == Exhausted(c)
             Q == Asked(asked, 1)
  <2>4. 1 \in Q
    BY <2>2, LifecycleAssumption DEF Asked
  <2> HIDE DEF row, t, Q
  <2>5. Asks(row, t, Q)
    BY <2>1, <2>3, <2>4 DEF Asks, None, t
  <2>6. ASSUME NEW v \in Versions PROVE Asks(runs[v], thread[v], Asked(asked, v))
    <3>1. CASE v = 1
      <4>1. runs[v] = row /\ thread[v] = t /\ Asked(asked, v) = Q
        BY <2>2, <3>1, FirstVersions DEF t, Q
      <4> QED  BY <2>5, <4>1
    <3>2. CASE v # 1
      BY <1>4, <2>2, <3>2
    <3> QED  BY <3>1, <3>2
  <2> QED  BY <1>2, <2>6 DEF AskedInv
<1>8. ASSUME NEW e \in Changes, NEW m \in Merges, NEW r \in Replans, LegacyReplan(A, e, m, r)
      PROVE  AskedInv
  <2> DEFINE one == [NoRun EXCEPT !.state = "published", !.request = e, !.pull = TRUE,
                                  !.approved = TRUE, !.bound = TRUE]
             two == [NoRun EXCEPT !.state = "failed", !.request = r]
             t == Completed([NoThread EXCEPT !.status = "artifacts_ready"], Start, 0)
             u == Completed([NoThread EXCEPT !.status = "failed"], Start, 0)
  <2>1. /\ one.state = "published" /\ one.marker = NoMarker
        /\ two.state = "failed" /\ two.marker = NoMarker
    BY DEF NoRun
  <2>2. \A c \in Comments : t.claim[c] = NoClaim /\ u.claim[c] = NoClaim
    BY EndedOK
  <2>3. /\ runs = [v \in Versions |-> CASE v = 1 -> one [] v = 2 -> two [] OTHER -> NoRun]
        /\ thread = [v \in Versions |-> CASE v = 1 -> t [] v = 2 -> u [] OTHER -> NoThread]
    BY <1>8 DEF LegacyReplan
  <2> HIDE DEF one, two, t, u
  <2>4. ~FailedOnce(t) /\ ~FailedOnce(u)
    BY <2>2, NothingTyped DEF FailedOnce, None
  <2>5. \A Q : Asks(one, t, Q) /\ Asks(two, u, Q)
    BY <2>1, <2>4 DEF Asks, None
  <2>6. ASSUME NEW v \in Versions PROVE Asks(runs[v], thread[v], Asked(asked, v))
    <3>1. CASE v = 1
      BY <2>3, <2>5, <3>1
    <3>2. CASE v = 2
      BY <2>3, <2>5, <3>2
    <3>3. CASE v \notin {1, 2}
      BY <1>4, <2>3, <3>3
    <3> QED  BY <3>1, <3>2, <3>3
  <2> QED  BY <1>2, <2>6 DEF AskedInv
<1> QED  BY <1>5, <1>6, <1>7, <1>8

\* A question that waits for an answer was asked on the Idea, unless a marker will
\* replay the request that raised it, whatever calls of the planner failed between
\* the interrupt and its comment and whatever workers share the run
\* (_handle_planner_response, _planning_input, clear_pending_resume).
THEOREM QuestionAskedAlways == Spec => []QuestionAsked
<1>1. AskedInv => QuestionAsked
  <2> SUFFICES ASSUME AskedInv, NEW v \in Versions, runs[v].state = "needs_input",
                      runs[v].marker = NoMarker, thread[v].interrupt # 0,
                      \A c \in Comments : ~planner_convert_admits(thread[v], c)
               PROVE  <<v, thread[v].interrupt>> \in asked
    BY DEF QuestionAsked
  <2>1. Asks(runs[v], thread[v], Asked(asked, v))
    BY DEF AskedInv
  <2>2. ~Convertible(thread[v]) /\ ~Replays(runs[v].marker, thread[v])
    BY DEF Convertible, Replays
  <2>3. thread[v].interrupt \in Asked(asked, v)
    BY <2>1, <2>2 DEF Asks
  <2> QED  BY <2>3 DEF Asked
<1>2. Init => RunInv /\ AskedInv
  BY RunInit, AskedInit
<1>3. RunInv /\ AskedInv /\ [Next]_vars => (RunInv /\ AskedInv)'
  BY RunStep, AskedStep
<1> QED  BY <1>1, <1>2, <1>3, PTL DEF Spec
=============================================================================
