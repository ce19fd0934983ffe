---------------------------- MODULE PlannerProofs ----------------------------
(***************************************************************************)
(* Safety of Planner for any processes, requests, keys and comments, and    *)
(* the proof that it implements PlannerThread.                              *)
(*                                                                         *)
(* Two things protect a thread: the session lock, which a process may lose  *)
(* without knowing, and the claim, which another process may take over.     *)
(* The argument: only the holder of the lock moves the checkpoint, so what  *)
(* it found there stays true for it; and an answer that was taken can be    *)
(* asked for again only after a rewind, which its tombstone comes before.   *)
(***************************************************************************)
EXTENDS Planner, TLAPS

-----------------------------------------------------------------------------
(* The invariant.                                                          *)

Waits == {"human_interrupt_when_required", "human_interrupt_after_critique"}
Opening == {"normalize_intake", "drafting_specification", "identify_consequential_questions"}

\* What a checkpoint knows by its place in the graph.
Earned(c) ==
    /\ c.next = None => c = NoState
    /\ c.next \in Opening => c.consumed = None
    /\ c.pending # NoInterrupt => c.next \in Waits
    /\ c.next \in {"validate_backlog", "render_artifacts", "prepare_planning_pr"} => c.acceptable
    /\ c.next \in {"render_artifacts", "prepare_planning_pr"} => c.valid
    /\ c.artifacts => /\ c.next \in {"prepare_planning_pr", "END"}
                      /\ c.acceptable /\ c.valid
    /\ c.next = "END" => c.status # "planning"
    /\ c.status = "failed" => c.next = "END"

\* A checkpoint to rewind to, for the interrupt i.
Saved(c, i) == c.pending = i /\ c.consumed = None /\ ~c.artifacts /\ c.status # "failed"

PreResumeSaved == \A i \in Interrupts : preResume[i] = NoState \/ Saved(preResume[i], i)

Abandoned(r) == claims[Key[r]].state = "abandoned" /\ claims[Key[r]].req = r

\* An interrupt's digest covers only answers that were taken before it, so that no
\* answer comes before the question that it answers.
DigestsOrdered ==
    /\ cp.consumed \in used \union {None}
    /\ cp.consumed = None /\ cp.pending = NoInterrupt => used = {}
    /\ \A x \in Resumes : cp.pending = critique_interrupt(x) => x \in used
    /\ \A r \in used : \A x \in Resumes : Answers[r] = critique_interrupt(x) => x \in used
    /\ cp.consumed # None => \A r \in used : Answers[r] # critique_interrupt(cp.consumed)

\* An interrupt that was answered before waits again only for other answers.
TakenAbandoned ==
    /\ \A r \in used : cp.pending = Answers[r] => Abandoned(r)
    /\ cp.consumed # None =>
         \A r \in used : Answers[r] = Answers[cp.consumed] => r = cp.consumed \/ Abandoned(r)

\* A row has its request for good.
RowsNamed == \A k \in Keys : claims[k].state = None <=> claims[k].req = None

Working == {"claimed", "running", "ran"}

\* The row of a request that a process works on, and what the process found.
Knows(p) ==
    LET j == proc[p].job
        s == proc[p].seen
    IN  /\ proc[p].pc # "idle" => j \in Jobs
        /\ proc[p].pc = "checked" => j.kind = "resume"
        /\ proc[p].pc \in Working => j.kind # "abandon" /\ claims[Key[j.req]].req = j.req
        /\ proc[p].pc \in {"abandon", "target", "rewind"} => j.kind = "abandon"
        /\ proc[p].fresh => j.kind = "resume" /\ proc[p].pc \notin {"checked", "claimed"}
        /\ proc[p].pc = "ran" =>
             /\ s.pending # NoInterrupt \/ s.status # "planning"
             /\ s.consumed = IF j.kind = "resume" THEN j.req ELSE None
             /\ j.kind = "resume" => j.req \in used
        /\ proc[p].pc \in {"target", "rewind"} => Saved(s, Answers[j.req])
        /\ proc[p].pc = "rewind" => Abandoned(j.req)

ProcsKnow == \A p \in Procs : Knows(p)

\* What the holder of the lock found is still true.
Holds(p) ==
    LET j == proc[p].job
    IN  /\ proc[p].pc \in Working /\ j.kind = "start" => Owns(p, j.req)
        /\ proc[p].pc = "claimed" /\ j.kind = "resume" /\ cp.pending = Answers[j.req] =>
             j.req \notin used
        /\ proc[p].pc = "running" /\ j.kind = "resume" /\ proc[p].fresh =>
             cp.pending = Answers[j.req] /\ j.req \notin used
        /\ proc[p].pc = "running" /\ j.kind = "resume" /\ ~proc[p].fresh => cp.consumed = j.req
        /\ proc[p].pc \in {"target", "rewind"} => cp.consumed = j.req

HolderKnows == \A p \in Procs : guard = p => Holds(p)

StartClaimed == \E k \in Keys : claims[k].req \in Starts
Starting == \E k \in Keys : claims[k].state = "in_progress" /\ claims[k].req \in Starts

\* Nothing happens to a thread before its start request is claimed, and no answer is
\* claimed before that request is completed.
StartFirst ==
    /\ ~StartClaimed =>
         /\ cp = NoState /\ used = {}
         /\ \A k \in Keys : claims[k].state = None
         /\ \A p \in Procs : proc[p].pc = "idle"
    /\ Starting =>
         /\ used = {}
         /\ \A k \in Keys : claims[k].req \notin Resumes
         /\ \A p \in Procs : proc[p].pc \in Working => proc[p].job.kind = "start"

\* The inductive invariant.
PlannerInv ==
    /\ TypeOK
    /\ Earned(cp) /\ PreResumeSaved
    /\ DigestsOrdered /\ TakenAbandoned
    /\ RowsNamed /\ ResponseFaithful
    /\ ProcsKnow /\ HolderKnows /\ StartFirst

-----------------------------------------------------------------------------
(* The graph.                                                              *)

\* The edges of the graph one by one.
LEMMA Edges ==
    /\ Edge["normalize_intake"] = "drafting_specification"
    /\ Edge["drafting_specification"] = "identify_consequential_questions"
    /\ Edge["identify_consequential_questions"] = "human_interrupt_when_required"
    /\ Edge["human_interrupt_when_required"] = "drafting_backlog"
    /\ Edge["drafting_backlog"] = "infer_typed_relations"
    /\ Edge["infer_typed_relations"] = "critique_decomposition"
    /\ Edge["human_interrupt_after_critique"] = "revise_decomposition"
    /\ Edge["revise_decomposition"] = "infer_typed_relations"
    /\ Edge["validate_backlog"] = "render_artifacts"
    /\ Edge["render_artifacts"] = "prepare_planning_pr"
    /\ Edge["prepare_planning_pr"] = "END"
BY DEF Edge

\* The nodes of the graph.
LEMMA NodesKnown ==
    Nodes = {"normalize_intake", "drafting_specification", "identify_consequential_questions",
             "human_interrupt_when_required", "drafting_backlog", "infer_typed_relations",
             "critique_decomposition", "human_interrupt_after_critique", "revise_decomposition",
             "validate_backlog", "render_artifacts", "prepare_planning_pr"}
BY DEF Nodes, Edge

\* Interrupts are told apart, and none of them is no interrupt.
LEMMA InterruptsDistinct ==
    /\ NoInterrupt \notin Interrupts
    /\ Questions \in Interrupts
    /\ \A x \in Resumes \union {None} : /\ critique_interrupt(x) \in Interrupts
                                        /\ critique_interrupt(x) # Questions
                                        /\ critique_interrupt(x) # NoInterrupt
    /\ \A x, y : critique_interrupt(x) = critique_interrupt(y) => x = y
BY DEF NoInterrupt, Interrupts, Questions, critique_interrupt

\* What a node does to the interrupt and to the answer: nothing, it raises an interrupt,
\* or it takes the answer that the invocation carries.
Quiet(c, n) == n.pending = c.pending /\ n.consumed = c.consumed
Raises(c, n) ==
    /\ c.pending = NoInterrupt /\ n.consumed = c.consumed
    /\ \/ c.next = "identify_consequential_questions" /\ n.pending = Questions
       \/ n.pending = critique_interrupt(c.consumed)
Takes(c, n, r) ==
    c.pending # NoInterrupt /\ r # None /\ n.consumed = r /\ n.pending = NoInterrupt

\* What every node of the graph keeps true of the checkpoint it writes.
NodeKeeps(c, n, r) ==
    /\ n \in Checkpoints /\ Earned(n)
    /\ Quiet(c, n) \/ Raises(c, n) \/ Takes(c, n, r)

\* A node that only moves on.
LEMMA MovedKeeps ==
    ASSUME NEW c \in Checkpoints, Earned(c), NEW r,
           c.next \in {"normalize_intake", "drafting_specification", "drafting_backlog"},
           NEW n, n = Moved(c) \/ n = [Moved(c) EXCEPT !.status = "planning"]
    PROVE  NodeKeeps(c, n, r)
<1> DEFINE m == Moved(c)
<1>1. /\ m \in Checkpoints /\ m.pending = c.pending /\ m.consumed = c.consumed
      /\ m.artifacts = c.artifacts /\ m.status = c.status
      /\ m.next = Edge[c.next]
  BY Edges, NodesKnown DEF Moved, Checkpoints
<1> HIDE DEF m
<1>2. /\ n \in Checkpoints /\ n.pending = c.pending /\ n.consumed = c.consumed
      /\ n.artifacts = c.artifacts /\ n.status \in {c.status, "planning"}
      /\ n.next = Edge[c.next]
  <2>1. n = m \/ n = [m EXCEPT !.status = "planning"]
    BY DEF m
  <2> QED  BY <1>1, <2>1 DEF Checkpoints
<1>3. /\ n.next \in {"drafting_specification", "identify_consequential_questions",
                     "infer_typed_relations"}
      /\ n.next \in Opening => c.next \in Opening
  BY <1>2, Edges DEF Opening
<1>4. Earned(n)
  BY <1>2, <1>3 DEF Earned, Waits, Opening, None
<1> QED  BY <1>2, <1>4 DEF NodeKeeps, Quiet

\* A node that writes a checkpoint given by its fields.
LEMMA CheckpointFields ==
    ASSUME NEW c \in Checkpoints
    PROVE  /\ c.next \in Nodes \union {None, "END"}
           /\ c.pending \in Interrupts \union {NoInterrupt}
           /\ c.consumed \in Resumes \union {None} /\ c.attempts \in Nat
           /\ c.acceptable \in BOOLEAN /\ c.valid \in BOOLEAN /\ c.artifacts \in BOOLEAN
           /\ c.status \in {"planning", "artifacts_ready", "failed"}
           /\ c.correction \in Resumes \union {None}
BY DEF Checkpoints

\* identify_consequential_questions asks, or has nothing to ask.
LEMMA IdentifyKeeps ==
    ASSUME NEW c \in Checkpoints, Earned(c), NEW r, c.next = "identify_consequential_questions",
           NEW n \in identify_consequential_questions(c)
    PROVE  NodeKeeps(c, n, r)
<1>1. PICK i \in {NoInterrupt, Questions} : n = [Moved(c) EXCEPT !.pending = i]
  BY DEF identify_consequential_questions
<1>2. c.pending = NoInterrupt
  BY DEF Earned, Waits
<1>3. /\ n \in Checkpoints /\ n.next = "human_interrupt_when_required" /\ n.pending = i
      /\ n.consumed = c.consumed /\ n.artifacts = c.artifacts /\ n.status \in {c.status, "planning"}
  BY <1>1, Edges, NodesKnown, InterruptsDistinct DEF Moved, Checkpoints
<1>4. Earned(n)
  BY <1>3 DEF Earned, Waits, Opening, None
<1> QED  BY <1>1, <1>2, <1>3, <1>4 DEF NodeKeeps, Quiet, Raises

\* human_interrupt_when_required passes, or takes the answer.
LEMMA RequiredKeeps ==
    ASSUME NEW c \in Checkpoints, Earned(c), NEW r \in Resumes \union {None},
           c.next = "human_interrupt_when_required",
           NEW n \in human_interrupt_when_required(c, r)
    PROVE  NodeKeeps(c, n, r)
<1>1. CASE c.pending = NoInterrupt /\ n = Moved(c)
  <2>1. /\ n \in Checkpoints /\ n.next = "drafting_backlog" /\ n.pending = c.pending
        /\ n.consumed = c.consumed /\ n.artifacts = c.artifacts /\ n.status \in {c.status, "planning"}
    BY <1>1, Edges, NodesKnown DEF Moved, Checkpoints
  <2>2. Earned(n)
    BY <1>1, <2>1 DEF Earned, Waits, Opening, None
  <2> QED  BY <2>1, <2>2 DEF NodeKeeps, Quiet
<1>2. CASE /\ c.pending # NoInterrupt /\ r # None
           /\ n = [Moved(c) EXCEPT !.consumed = r, !.pending = NoInterrupt]
  <2>1. /\ n \in Checkpoints /\ n.next = "drafting_backlog" /\ n.pending = NoInterrupt
        /\ n.consumed = r /\ n.artifacts = c.artifacts /\ n.status \in {c.status, "planning"}
    BY <1>2, Edges, NodesKnown DEF Moved, Checkpoints
  <2>2. Earned(n)
    BY <2>1 DEF Earned, Waits, Opening, None
  <2> QED  BY <1>2, <2>1, <2>2 DEF NodeKeeps, Takes
<1> QED  BY <1>1, <1>2 DEF human_interrupt_when_required

\* human_interrupt_after_critique takes the answer and counts its revisions anew.
LEMMA AfterCritiqueKeeps ==
    ASSUME NEW c \in Checkpoints, Earned(c), NEW r \in Resumes \union {None},
           c.next = "human_interrupt_after_critique",
           NEW n \in human_interrupt_after_critique(c, r)
    PROVE  NodeKeeps(c, n, r)
<1>1. /\ c.pending # NoInterrupt /\ r # None
      /\ n = [Moved(c) EXCEPT !.consumed = r, !.pending = NoInterrupt, !.attempts = 0,
                              !.status = "planning"]
  BY DEF human_interrupt_after_critique
<1>2. /\ n \in Checkpoints /\ n.next = "revise_decomposition" /\ n.pending = NoInterrupt
      /\ n.consumed = r /\ n.artifacts = c.artifacts /\ n.status \in {c.status, "planning"}
  BY <1>1, Edges, NodesKnown DEF Moved, Checkpoints
<1>3. Earned(n)
  BY <1>2 DEF Earned, Waits, Opening, None
<1> QED  BY <1>1, <1>2, <1>3 DEF NodeKeeps, Takes

\* A new or revised relation draft is not yet valid.
LEMMA DraftKeeps ==
    ASSUME NEW c \in Checkpoints, Earned(c), NEW r,
           c.next \in {"infer_typed_relations", "revise_decomposition"},
           NEW v \in BOOLEAN, NEW n, n = [Moved(c) EXCEPT !.valid = v]
    PROVE  NodeKeeps(c, n, r)
<1>1. /\ n \in Checkpoints /\ n.pending = c.pending /\ n.consumed = c.consumed
      /\ n.next \in {"critique_decomposition", "infer_typed_relations"}
      /\ n.artifacts = c.artifacts /\ n.status \in {c.status, "planning"}
  BY Edges, NodesKnown DEF Moved, Checkpoints
<1>2. Earned(n)
  BY <1>1 DEF Earned, Waits, Opening, None
<1> QED  BY <1>1, <1>2 DEF NodeKeeps, Quiet

\* critique_decomposition accepts, sends back, or asks when it sent back twice.
LEMMA CritiqueKeeps ==
    ASSUME NEW c \in Checkpoints, Earned(c), NEW r, c.next = "critique_decomposition",
           NEW n \in critique_decomposition(c)
    PROVE  NodeKeeps(c, n, r)
<1>1. c.pending = NoInterrupt /\ ~c.artifacts /\ c.consumed \in Resumes \union {None}
  BY CheckpointFields DEF Earned, Waits
<1>2. CASE n = Routed([c EXCEPT !.acceptable = TRUE])
  <2>1. /\ n \in Checkpoints /\ n.pending = NoInterrupt /\ n.consumed = c.consumed
        /\ n.next = "validate_backlog" /\ n.acceptable /\ n.artifacts = c.artifacts /\ n.status \in {c.status, "planning"}
    BY <1>1, <1>2, NodesKnown DEF Routed, Checkpoints
  <2>2. Earned(n)
    BY <1>1, <2>1 DEF Earned, Waits, Opening, None
  <2> QED  BY <1>1, <2>1, <2>2 DEF NodeKeeps, Quiet
<1>3. CASE n = Routed(Rejected(c))
  <2> DEFINE counted == [c EXCEPT !.acceptable = FALSE, !.attempts = @ + 1]
             asked == [counted EXCEPT !.pending = critique_interrupt(c.consumed),
                                      !.status = "planning"]
  <2>1. /\ counted \in Checkpoints /\ counted.pending = NoInterrupt
        /\ counted.consumed = c.consumed /\ counted.artifacts = c.artifacts /\ counted.status = c.status
        /\ counted.acceptable = FALSE
    <3>1. c.attempts + 1 \in Nat
      BY CheckpointFields
    <3>2. counted \in Checkpoints
      BY <3>1 DEF Checkpoints
    <3> QED  BY <1>1, <3>2 DEF Checkpoints
  <2> HIDE DEF counted
  <2>2. /\ asked \in Checkpoints /\ asked.pending = critique_interrupt(c.consumed)
        /\ asked.consumed = c.consumed /\ asked.artifacts = c.artifacts /\ asked.status = "planning"
    BY <1>1, <2>1, InterruptsDistinct DEF Checkpoints
  <2> HIDE DEF asked
  <2>3. Rejected(c) = asked \/ Rejected(c) = counted
    BY DEF Rejected, asked, counted
  <2>4. CASE Rejected(c) = counted
    <3>1. /\ n \in Checkpoints /\ n.pending = NoInterrupt /\ n.consumed = c.consumed
          /\ n.next = "revise_decomposition" /\ n.artifacts = c.artifacts /\ n.status \in {c.status, "planning"}
      BY <1>3, <2>1, <2>4, NodesKnown DEF Routed, Checkpoints
    <3>2. Earned(n)
      BY <1>1, <3>1 DEF Earned, Waits, Opening, None
    <3> QED  BY <1>1, <3>1, <3>2 DEF NodeKeeps, Quiet
  <2>5. CASE Rejected(c) = asked
    <3>1. asked.pending # NoInterrupt
      BY <1>1, <2>2, InterruptsDistinct
    <3>2. /\ n \in Checkpoints /\ n.pending = critique_interrupt(c.consumed)
          /\ n.consumed = c.consumed /\ n.next = "human_interrupt_after_critique"
          /\ n.artifacts = c.artifacts /\ n.status \in {c.status, "planning"}
      BY <1>3, <2>2, <2>5, <3>1, NodesKnown DEF Routed, Checkpoints
    <3>3. Earned(n)
      BY <1>1, <3>2 DEF Earned, Waits, Opening, None
    <3> QED  BY <1>1, <3>2, <3>3 DEF NodeKeeps, Raises
  <2> QED  BY <2>3, <2>4, <2>5
<1> QED  BY <1>2, <1>3 DEF critique_decomposition

\* The last nodes: the draft is validated, then rendered, then offered.
LEMMA ClosingKeeps ==
    ASSUME NEW c \in Checkpoints, Earned(c), NEW r, NEW n,
           \/ c.next = "validate_backlog" /\ n \in validate_backlog(c)
           \/ c.next = "render_artifacts" /\ n \in render_artifacts(c)
           \/ c.next = "prepare_planning_pr" /\ n \in prepare_planning_pr(c)
    PROVE  NodeKeeps(c, n, r)
<1>1. c.pending = NoInterrupt /\ c.acceptable
  BY DEF Earned, Waits
<1>2. CASE c.next = "validate_backlog" /\ n \in validate_backlog(c)
  <2>1. c.valid /\ n = Moved(c)
    BY <1>2 DEF validate_backlog
  <2>2. /\ n \in Checkpoints /\ n.pending = c.pending /\ n.consumed = c.consumed
        /\ n.next = "render_artifacts" /\ n.artifacts = c.artifacts /\ n.status \in {c.status, "planning"}
        /\ n.acceptable = c.acceptable /\ n.valid = c.valid
    BY <1>2, <2>1, Edges, NodesKnown DEF Moved, Checkpoints
  <2>3. Earned(n)
    BY <1>1, <1>2, <2>1, <2>2 DEF Earned, Waits, Opening, None
  <2> QED  BY <2>2, <2>3 DEF NodeKeeps, Quiet
<1>3. CASE c.next = "render_artifacts" /\ n \in render_artifacts(c)
  <2> DEFINE m == Moved(c)
  <2>0. /\ m \in Checkpoints /\ m.pending = c.pending /\ m.consumed = c.consumed
        /\ m.next = "prepare_planning_pr" /\ m.status = c.status
        /\ m.acceptable = c.acceptable /\ m.valid = c.valid
    BY <1>3, Edges, NodesKnown DEF Moved, Checkpoints
  <2> HIDE DEF m
  <2>1. /\ n \in Checkpoints /\ n.pending = c.pending /\ n.consumed = c.consumed
        /\ n.next = "prepare_planning_pr" /\ n.status = c.status
        /\ n.acceptable = c.acceptable /\ n.valid = c.valid
    <3>1. n = [m EXCEPT !.artifacts = TRUE]
      BY <1>3 DEF render_artifacts, m
    <3> QED  BY <2>0, <3>1 DEF Checkpoints
  <2>2. Earned(n)
    BY <1>1, <1>3, <2>1 DEF Earned, Waits, Opening, None
  <2> QED  BY <2>1, <2>2 DEF NodeKeeps, Quiet
<1>4. CASE c.next = "prepare_planning_pr" /\ n \in prepare_planning_pr(c)
  <2>1. /\ n \in Checkpoints /\ n.pending = c.pending /\ n.consumed = c.consumed
        /\ n.next = "END" /\ n.status = "artifacts_ready" /\ n.artifacts = c.artifacts
        /\ n.acceptable = c.acceptable /\ n.valid = c.valid
    <3> DEFINE m == Moved(c)
    <3>1. /\ m \in Checkpoints /\ m.pending = c.pending /\ m.consumed = c.consumed
          /\ m.next = "END" /\ m.artifacts = c.artifacts
          /\ m.acceptable = c.acceptable /\ m.valid = c.valid
      BY <1>4, Edges DEF Moved, Checkpoints
    <3>2. n = [m EXCEPT !.status = "artifacts_ready"]
      BY <1>4 DEF prepare_planning_pr
    <3> HIDE DEF m
    <3> QED  BY <3>1, <3>2 DEF Checkpoints
  <2>2. Earned(n)
    BY <1>1, <1>4, <2>1 DEF Earned, Waits, Opening, None
  <2> QED  BY <2>1, <2>2 DEF NodeKeeps, Quiet
<1> QED  BY <1>2, <1>3, <1>4

\* Every node of the graph.
LEMMA ResultsKeep ==
    ASSUME NEW c \in Checkpoints, Earned(c), NEW r \in Resumes \union {None},
           NEW n \in Results(c, r)
    PROVE  NodeKeeps(c, n, r)
<1>1. CASE c.next \in {"normalize_intake", "drafting_specification", "drafting_backlog"}
  <2>1. c.next = "normalize_intake" => n \in normalize_intake(c)
    BY DEF Results
  <2>2. c.next = "drafting_specification" => n \in drafting_specification(c)
    BY DEF Results
  <2>3. c.next = "drafting_backlog" => n \in drafting_backlog(c)
    BY DEF Results
  <2>4. n = Moved(c) \/ n = [Moved(c) EXCEPT !.status = "planning"]
    BY <1>1, <2>1, <2>2, <2>3
       DEF normalize_intake, drafting_specification, drafting_backlog
  <2> QED  BY <1>1, <2>4, MovedKeeps
<1>2. CASE c.next = "identify_consequential_questions"
  BY <1>2, IdentifyKeeps DEF Results
<1>3. CASE c.next = "human_interrupt_when_required"
  BY <1>3, RequiredKeeps DEF Results
<1>4. CASE c.next = "human_interrupt_after_critique"
  BY <1>4, AfterCritiqueKeeps DEF Results
<1>5. CASE c.next = "infer_typed_relations"
  <2>1. n \in infer_typed_relations(c)
    BY <1>5 DEF Results
  <2>2. PICK v \in BOOLEAN : n = [Moved(c) EXCEPT !.valid = v]
    BY <2>1 DEF infer_typed_relations
  <2> QED  BY <1>5, <2>2, DraftKeeps
<1>6. CASE c.next = "revise_decomposition"
  <2>1. n \in revise_decomposition(c)
    BY <1>6 DEF Results
  <2>2. \E v \in BOOLEAN : n = [Moved(c) EXCEPT !.valid = v]
    <3>1. n = [Moved(c) EXCEPT !.valid = FALSE]
      BY <2>1 DEF revise_decomposition
    <3> WITNESS FALSE \in BOOLEAN
    <3> QED  BY <3>1
  <2>3. PICK v \in BOOLEAN : n = [Moved(c) EXCEPT !.valid = v]
    BY <2>2
  <2> QED  BY <1>6, <2>3, DraftKeeps
<1>7. CASE c.next = "critique_decomposition"
  BY <1>7, CritiqueKeeps DEF Results
<1>8. CASE c.next \in {"validate_backlog", "render_artifacts", "prepare_planning_pr"}
  BY <1>8, ClosingKeeps DEF Results
<1>9. CASE c.next \in {None, "END"}
  BY <1>9 DEF Results, None
<1> QED  BY <1>1, <1>2, <1>3, <1>4, <1>5, <1>6, <1>7, <1>8, <1>9, CheckpointFields, NodesKnown

-----------------------------------------------------------------------------
(* The frame of a step.                                                    *)

Process == [pc : Places, job : Jobs \union {NoJob}, fresh : BOOLEAN, seen : Checkpoints]

\* What a step of the tables never does: a row keeps its request, a tombstone stays.
RowsKept ==
    \A k \in Keys : /\ claims[k].req # None => claims'[k].req = claims[k].req
                    /\ claims[k].state = "abandoned" => claims'[k].state = "abandoned"

\* The row of a request.
LEMMA KeyTyped ==
    ASSUME NEW q \in Requests
    PROVE  Key[q] \in Keys /\ q # None
BY PlannerAssumption

\* A job names its request.
LEMMA JobTyped ==
    ASSUME NEW j \in Jobs
    PROVE  /\ j.req \in Requests /\ j.req # None /\ Key[j.req] \in Keys
           /\ j.kind \in {"start", "resume", "abandon"}
           /\ j.kind = "start" <=> j.req \in Starts
           /\ j.kind # "start" <=> j.req \in Resumes
<1>1. \/ j.kind = "start" /\ j.req \in Starts
      \/ j.kind \in {"resume", "abandon"} /\ j.req \in Resumes
  BY DEF Jobs
<1>2. Starts \intersect Resumes = {}
  BY PlannerAssumption
<1> QED  BY <1>1, <1>2, KeyTyped DEF Requests

\* An answer names an interrupt.
LEMMA AnswerTyped ==
    ASSUME NEW r \in Resumes
    PROVE  /\ Answers[r] \in Interrupts /\ Answers[r] # NoInterrupt
           /\ Comment[r] \in Comments /\ Key[r] \in Keys
           /\ r \in Requests /\ r \notin Starts /\ r # None
BY PlannerAssumption, InterruptsDistinct DEF Requests

\* A tombstone stays.
LEMMA AbandonedKept ==
    ASSUME RowsKept, NEW r \in Resumes, Abandoned(r)
    PROVE  Abandoned(r)'
BY AnswerTyped DEF RowsKept, Abandoned

\* What a process knows outlives the steps of others.
LEMMA KnowsKept ==
    ASSUME NEW o \in Procs, Knows(o), RowsKept, used \subseteq used', proc'[o] = proc[o]
    PROVE  Knows(o)'
<1> DEFINE j == proc[o].job
<1>1. proc[o].pc # "idle" => /\ j.req # None /\ Key[j.req] \in Keys
                             /\ j.kind \in {"resume", "abandon"} => j.req \in Resumes
  BY JobTyped DEF Knows
<1>2. proc[o].pc \in Working => claims'[Key[j.req]].req = j.req
  BY <1>1 DEF Knows, Working, RowsKept
<1>3. proc[o].pc = "rewind" => Abandoned(j.req)'
  BY <1>1, AbandonedKept DEF Knows
<1> QED  BY <1>2, <1>3 DEF Knows, Saved

\* What the holder of the lock knows outlives the steps of the others, which do not
\* write checkpoints.
LEMMA HoldsKept ==
    ASSUME NEW o \in Procs, Holds(o), proc'[o] = proc[o], UNCHANGED <<cp, used>>,
           proc[o].pc \in Working /\ proc[o].job.kind = "start" => Owns(o, proc[o].job.req)'
    PROVE  Holds(o)'
BY DEF Holds

\* A step of one process on the tables and on itself.
LEMMA TablesKeep ==
    ASSUME PlannerInv, NEW p \in Procs, UNCHANGED checkpoints,
           claims' \in [Keys -> Claims], bindings' \in [Comments -> Resumes \union {None}],
           guard' \in {p, guard, None}, guard' = p => guard \in {p, None},
           lost' \in 0 .. MaxLost, proc' \in [Procs -> Process],
           \A o \in Procs : o # p => proc'[o] = proc[o],
           RowsKept, RowsNamed', ResponseFaithful', StartFirst',
           \A o \in Procs : o # p /\ guard = o /\ proc[o].pc \in Working
                              /\ proc[o].job.kind = "start" => Owns(o, proc[o].job.req)',
           Knows(p)', guard' = p => Holds(p)'
    PROVE  PlannerInv'
<1> USE DEF PlannerInv
<1>1. UNCHANGED <<cp, preResume, used>>
  BY DEF checkpoints
<1>2. TypeOK'
  BY <1>1 DEF TypeOK, Process
<1>3. Earned(cp)' /\ PreResumeSaved' /\ DigestsOrdered'
  BY <1>1 DEF Earned, PreResumeSaved, DigestsOrdered
<1>4. TakenAbandoned'
  <2>1. \A r \in used : r \in Resumes
    BY DEF TypeOK
  <2>2. \A r \in used : Abandoned(r) => Abandoned(r)'
    BY <2>1, AbandonedKept
  <2> QED  BY <1>1, <2>2 DEF TakenAbandoned
<1>5. ProcsKnow'
  <2>1. \A o \in Procs : o # p => Knows(o)'
    BY <1>1, KnowsKept DEF ProcsKnow
  <2> QED  BY <2>1 DEF ProcsKnow
<1>6. HolderKnows'
  <2> SUFFICES ASSUME NEW o \in Procs, guard' = o PROVE Holds(o)'
    BY DEF HolderKnows
  <2>1. CASE o = p
    BY <2>1
  <2>2. CASE o # p
    <3>1. guard = o
      BY <2>2, PlannerAssumption
    <3>2. Holds(o)
      BY <3>1 DEF HolderKnows
    <3> QED  BY <1>1, <2>2, <3>1, <3>2, HoldsKept
  <2> QED  BY <2>1, <2>2
<1> QED  BY <1>2, <1>3, <1>4, <1>5, <1>6

\* A step of one process on itself and on the lock.
LEMMA LocalKeeps ==
    ASSUME PlannerInv, NEW p \in Procs, UNCHANGED <<checkpoints, tables>>,
           guard' \in {p, guard, None}, guard' = p => guard \in {p, None},
           lost' \in 0 .. MaxLost, proc' \in [Procs -> Process],
           \A o \in Procs : o # p => proc'[o] = proc[o],
           proc'[p].pc # "idle" => StartClaimed,
           proc'[p].pc \in Working => proc[p].pc \in Working /\ proc'[p].job = proc[p].job,
           Knows(p)', guard' = p => Holds(p)'
    PROVE  PlannerInv'
<1> USE DEF PlannerInv
<1>1. UNCHANGED <<cp, used, claims, bindings>>
  BY DEF checkpoints, tables
<1>2. RowsKept /\ RowsNamed' /\ ResponseFaithful'
  BY <1>1 DEF RowsKept, RowsNamed, ResponseFaithful
<1>3. StartFirst'
  BY <1>1 DEF StartFirst, StartClaimed, Starting
<1>4. claims' \in [Keys -> Claims] /\ bindings' \in [Comments -> Resumes \union {None}]
  BY <1>1 DEF TypeOK
<1>5. \A o \in Procs : o # p /\ guard = o /\ proc[o].pc \in Working
                         /\ proc[o].job.kind = "start" => Owns(o, proc[o].job.req)'
  BY <1>1 DEF HolderKnows, Holds, Owns
<1> QED  BY <1>2, <1>3, <1>4, <1>5, TablesKeep

-----------------------------------------------------------------------------
(* Steps of a process on itself.                                           *)

\* The empty checkpoint and the idle process are typed, and earn nothing.
LEMMA IdleTyped ==
    /\ NoState \in Checkpoints /\ Idle \in Process /\ Idle.pc = "idle" /\ ~Idle.fresh
    /\ NoState.next = None /\ NoState.pending = NoInterrupt /\ NoState.consumed = None
    /\ ~NoState.artifacts
<1>1. NoState \in Checkpoints
  BY DEF NoState, Checkpoints
<1>2. /\ NoState.next = None /\ NoState.pending = NoInterrupt /\ NoState.consumed = None
      /\ ~NoState.artifacts
  BY DEF NoState
<1>3. Idle \in Process /\ Idle.pc = "idle" /\ ~Idle.fresh
  BY <1>1 DEF Idle, Process, Places, Jobs, NoJob
<1> QED  BY <1>1, <1>2, <1>3

\* A process that left knows nothing and holds nothing.
LEMMA FinishedProcess ==
    ASSUME TypeOK, NEW p \in Procs, Finish(p)
    PROVE  /\ proc' \in [Procs -> Process] /\ proc'[p] = Idle
           /\ \A o \in Procs : o # p => proc'[o] = proc[o]
           /\ guard' \in {p, guard, None} /\ guard' # p
           /\ Knows(p)' /\ proc'[p].pc = "idle"
<1>1. /\ proc' \in [Procs -> Process] /\ proc'[p] = Idle
      /\ \A o \in Procs : o # p => proc'[o] = proc[o]
  BY IdleTyped DEF Finish, TypeOK, Process
<1>2. guard' \in {p, guard, None} /\ guard' # p
  BY PlannerAssumption DEF Finish
<1>3. Knows(p)'
  BY <1>1, IdleTyped DEF Knows, Working
<1> QED  BY <1>1, <1>2, <1>3, IdleTyped

\* A process that gives up.
LEMMA FinishKeeps ==
    ASSUME PlannerInv, NEW p \in Procs, Finish(p), UNCHANGED <<checkpoints, tables, lost>>
    PROVE  PlannerInv'
<1>1. TypeOK /\ lost' \in 0 .. MaxLost
  BY DEF PlannerInv, TypeOK
<1>2. /\ proc' \in [Procs -> Process] /\ proc'[p] = Idle
      /\ \A o \in Procs : o # p => proc'[o] = proc[o]
      /\ guard' \in {p, guard, None} /\ guard' # p
      /\ Knows(p)' /\ proc'[p].pc = "idle"
  BY <1>1, FinishedProcess
<1>3. proc'[p].pc \notin Working
  BY <1>2 DEF Working
<1> QED  BY <1>1, <1>2, <1>3, LocalKeeps

\* A process that takes the lock.
LEMMA EnteredProcess ==
    ASSUME TypeOK, NEW p \in Procs, execution(p), NEW place \in Places, NEW kind, NEW q,
           NEW seen \in Checkpoints, [kind |-> kind, req |-> q] \in Jobs,
           Enter(p, place, kind, q, seen)
    PROVE  /\ proc' \in [Procs -> Process]
           /\ \A o \in Procs : o # p => proc'[o] = proc[o]
           /\ proc'[p].pc = place /\ proc'[p].job = [kind |-> kind, req |-> q]
           /\ proc'[p].seen = seen /\ ~proc'[p].fresh
           /\ guard = None /\ guard' = p
<1> DEFINE e == [Idle EXCEPT !.pc = place, !.seen = seen, !.job = [kind |-> kind, req |-> q]]
<1>1. /\ e \in Process /\ e.pc = place /\ e.job = [kind |-> kind, req |-> q]
      /\ e.seen = seen /\ ~e.fresh
  BY IdleTyped DEF Process, Idle
<1>2. proc' = [proc EXCEPT ![p] = e] /\ guard = None /\ guard' = p
  BY DEF Enter, execution
<1> HIDE DEF e
<1> QED  BY <1>1, <1>2 DEF TypeOK, Process

\* A job of the service.
LEMMA JobsTyped ==
    /\ \A q \in Starts : [kind |-> "start", req |-> q] \in Jobs
    /\ \A r \in Resumes : /\ [kind |-> "resume", req |-> r] \in Jobs
                          /\ [kind |-> "abandon", req |-> r] \in Jobs
BY DEF Jobs

\* A checkpoint shows that the start request was claimed.
LEMMA StartBefore ==
    ASSUME PlannerInv, cp.next # None
    PROVE  StartClaimed
BY IdleTyped DEF PlannerInv, StartFirst

\* resume() reads the state under the lock.
LEMMA ReadForResumeKeeps ==
    ASSUME PlannerInv, NEW p \in Procs, NEW r \in Resumes, ReadForResume(p, r), lost' = lost
    PROVE  PlannerInv'
<1>1. TypeOK /\ lost' \in 0 .. MaxLost
  BY DEF PlannerInv, TypeOK
<1>2. /\ execution(p) /\ Enter(p, "checked", "resume", r, NoState) /\ cp.next # None
      /\ UNCHANGED <<checkpoints, tables>>
  BY DEF ReadForResume
<1>3. "checked" \in Places /\ NoState \in Checkpoints /\ [kind |-> "resume", req |-> r] \in Jobs
  BY IdleTyped, JobsTyped DEF Places
<1>4. /\ proc' \in [Procs -> Process]
      /\ \A o \in Procs : o # p => proc'[o] = proc[o]
      /\ proc'[p].pc = "checked" /\ proc'[p].job = [kind |-> "resume", req |-> r]
      /\ proc'[p].seen = NoState /\ ~proc'[p].fresh
      /\ guard = None /\ guard' = p
  BY <1>1, <1>2, <1>3, EnteredProcess
<1>5. Knows(p)'
  BY <1>3, <1>4 DEF Knows, Working
<1>6. Holds(p)'
  BY <1>4 DEF Holds, Working
<1>7. proc'[p].pc \notin Working
  BY <1>4 DEF Working
<1> QED  BY <1>1, <1>2, <1>4, <1>5, <1>6, <1>7, StartBefore, LocalKeeps

\* abandon_terminal_resume() reads the state and the history under the lock.
LEMMA ReadForAbandonKeeps ==
    ASSUME PlannerInv, NEW p \in Procs, NEW r \in Resumes, ReadForAbandon(p, r), lost' = lost
    PROVE  PlannerInv'
<1>1. TypeOK /\ lost' \in 0 .. MaxLost
  BY DEF PlannerInv, TypeOK
<1>2. execution(p) /\ cp.next # None /\ UNCHANGED <<checkpoints, tables>>
  BY DEF ReadForAbandon
<1>3. [kind |-> "abandon", req |-> r] \in Jobs /\ NoState \in Checkpoints
  BY IdleTyped, JobsTyped
<1>4. UNCHANGED <<cp, used>>
  BY <1>2 DEF checkpoints
<1>5. CASE Enter(p, "abandon", "abandon", r, NoState)
  <2>1. "abandon" \in Places
    BY DEF Places
  <2>2. /\ proc' \in [Procs -> Process]
        /\ \A o \in Procs : o # p => proc'[o] = proc[o]
        /\ proc'[p].pc = "abandon" /\ proc'[p].job = [kind |-> "abandon", req |-> r]
        /\ proc'[p].seen = NoState /\ ~proc'[p].fresh
        /\ guard = None /\ guard' = p
    BY <1>1, <1>2, <1>3, <1>5, <2>1, EnteredProcess
  <2>3. Knows(p)' /\ Holds(p)' /\ proc'[p].pc \notin Working
    BY <1>3, <2>2 DEF Knows, Holds, Working
  <2> QED  BY <1>1, <1>2, <2>2, <2>3, StartBefore, LocalKeeps
<1>6. CASE /\ cp.consumed = r /\ preResume[Answers[r]] # NoState
           /\ Enter(p, "target", "abandon", r, preResume[Answers[r]])
  <2> DEFINE s == preResume[Answers[r]]
  <2>1. "target" \in Places /\ s \in Checkpoints /\ Saved(s, Answers[r])
    BY <1>1, <1>6, AnswerTyped DEF Places, TypeOK, PlannerInv, PreResumeSaved
  <2>2. /\ proc' \in [Procs -> Process]
        /\ \A o \in Procs : o # p => proc'[o] = proc[o]
        /\ proc'[p].pc = "target" /\ proc'[p].job = [kind |-> "abandon", req |-> r]
        /\ proc'[p].seen = s /\ ~proc'[p].fresh
        /\ guard = None /\ guard' = p
    BY <1>1, <1>2, <1>3, <1>6, <2>1, EnteredProcess
  <2> HIDE DEF s
  <2>3. Knows(p)'
    BY <1>3, <2>1, <2>2 DEF Knows, Working, Saved
  <2>4. Holds(p)' /\ proc'[p].pc \notin Working
    BY <1>4, <1>6, <2>2 DEF Holds, Working
  <2> QED  BY <1>1, <1>2, <2>2, <2>3, <2>4, StartBefore, LocalKeeps
<1> QED  BY <1>5, <1>6 DEF ReadForAbandon

\* A response tells the interrupt, the status and the answer of its state.
LEMMA ResponseFields ==
    ASSUME NEW c \in Checkpoints
    PROVE  /\ _response_from_state(c) \in Checkpoints
           /\ _response_from_state(c).pending = c.pending
           /\ _response_from_state(c).status = c.status
           /\ _response_from_state(c).consumed = c.consumed
BY CheckpointFields, IdleTyped DEF _response_from_state, Checkpoints, NoState

\* A process that has its response.
LEMMA RanProcess ==
    ASSUME TypeOK, NEW p \in Procs,
           proc' = [proc EXCEPT ![p].pc = "ran", ![p].seen = _response_from_state(cp)]
    PROVE  /\ proc' \in [Procs -> Process]
           /\ \A o \in Procs : o # p => proc'[o] = proc[o]
           /\ proc'[p].pc = "ran" /\ proc'[p].job = proc[p].job
           /\ proc'[p].fresh = proc[p].fresh
           /\ proc'[p].seen.pending = cp.pending /\ proc'[p].seen.status = cp.status
           /\ proc'[p].seen.consumed = cp.consumed
<1> DEFINE s == _response_from_state(cp)
           e == [proc[p] EXCEPT !.pc = "ran", !.seen = s]
<1>1. /\ s \in Checkpoints /\ s.pending = cp.pending /\ s.status = cp.status
      /\ s.consumed = cp.consumed
  BY ResponseFields DEF TypeOK
<1> HIDE DEF s
<1>2. proc[p] \in Process /\ proc \in [Procs -> Process]
  BY DEF TypeOK, Process
<1>3. /\ e \in Process /\ e.pc = "ran" /\ e.job = proc[p].job /\ e.seen = s
      /\ e.fresh = proc[p].fresh
  BY <1>1, <1>2 DEF Process, Places
<1>4. proc' = [proc EXCEPT ![p] = e]
  BY <1>2 DEF s
<1> HIDE DEF e
<1> QED  BY <1>1, <1>2, <1>3, <1>4

\* A process whose invocation begins, with the answer it carries or without.
LEMMA RunningProcess ==
    ASSUME TypeOK, NEW p \in Procs,
           \/ proc' = [proc EXCEPT ![p].pc = "running"]
           \/ proc' = [proc EXCEPT ![p].pc = "running", ![p].fresh = TRUE]
    PROVE  /\ proc' \in [Procs -> Process]
           /\ \A o \in Procs : o # p => proc'[o] = proc[o]
           /\ proc'[p].pc = "running" /\ proc'[p].job = proc[p].job
<1>1. proc[p] \in Process /\ proc \in [Procs -> Process]
  BY DEF TypeOK, Process
<1> QED  BY <1>1 DEF Process, Places

\* A process that goes on from a claim or from an invocation, with a response that its
\* own request justifies.
LEMMA RanKeeps ==
    ASSUME PlannerInv, NEW p \in Procs, guard = p, proc[p].pc \in {"claimed", "running"},
           proc' = [proc EXCEPT ![p].pc = "ran", ![p].seen = _response_from_state(cp)],
           UNCHANGED <<checkpoints, tables, guard, lost>>,
           cp.pending # NoInterrupt \/ cp.status # "planning",
           proc[p].job.kind = "resume" => cp.consumed = proc[p].job.req
    PROVE  PlannerInv'
<1>1. TypeOK /\ lost' \in 0 .. MaxLost
  BY DEF PlannerInv, TypeOK
<1> DEFINE j == proc[p].job
<1>2. /\ proc' \in [Procs -> Process]
      /\ \A o \in Procs : o # p => proc'[o] = proc[o]
      /\ proc'[p].pc = "ran" /\ proc'[p].job = proc[p].job
      /\ proc'[p].fresh = proc[p].fresh
      /\ proc'[p].seen.pending = cp.pending /\ proc'[p].seen.status = cp.status
      /\ proc'[p].seen.consumed = cp.consumed
  BY <1>1, RanProcess
<1>3. UNCHANGED <<cp, used, claims>>
  BY DEF checkpoints, tables
<1>4. Knows(p) /\ Holds(p) /\ proc[p].pc \in Working /\ proc'[p].pc \in Working
  BY <1>2 DEF PlannerInv, ProcsKnow, HolderKnows, Working
<1>5. /\ j \in Jobs /\ j.kind \in {"start", "resume"} /\ j.req # None
      /\ j.kind = "start" <=> j.req \in Starts
      /\ Key[j.req] \in Keys
  BY <1>4, JobTyped DEF Knows, Working
<1>6. j.kind = "start" => cp.consumed = None
  <2> SUFFICES ASSUME j.kind = "start" PROVE cp.consumed = None
    OBVIOUS
  <2>1. Starting
    BY <1>4, <1>5 DEF Knows, Holds, Owns, Starting
  <2> QED  BY <2>1 DEF PlannerInv, StartFirst, DigestsOrdered
<1>7. j.kind = "resume" => j.req \in used
  BY <1>5 DEF PlannerInv, DigestsOrdered
<1>8. proc'[p].seen.consumed = IF j.kind = "resume" THEN j.req ELSE None
  BY <1>2, <1>5, <1>6
<1>9. Knows(p)'
  BY <1>2, <1>3, <1>4, <1>5, <1>7, <1>8 DEF Knows, Working
<1>10. Holds(p)'
  BY <1>2, <1>3, <1>4 DEF Holds, Owns, Working
<1>11. StartClaimed
  BY <1>4 DEF PlannerInv, StartFirst, Working
<1> QED  BY <1>1, <1>2, <1>4, <1>9, <1>10, <1>11, LocalKeeps

\* A process whose invocation begins keeps the invariant when what it carries is true.
LEMMA RunKeeps ==
    ASSUME PlannerInv, NEW p \in Procs, guard = p, proc[p].pc = "claimed",
           proc' \in [Procs -> Process], \A o \in Procs : o # p => proc'[o] = proc[o],
           proc'[p].pc = "running", proc'[p].job = proc[p].job,
           UNCHANGED <<checkpoints, tables, guard, lost>>,
           proc'[p].fresh => /\ proc[p].job.kind = "resume"
                             /\ cp.pending = Answers[proc[p].job.req],
           proc[p].job.kind = "resume" /\ ~proc'[p].fresh => cp.consumed = proc[p].job.req
    PROVE  PlannerInv'
<1>1. lost' \in 0 .. MaxLost
  BY DEF PlannerInv, TypeOK
<1>2. UNCHANGED <<cp, used, claims>>
  BY DEF checkpoints, tables
<1>3. Knows(p) /\ Holds(p) /\ proc[p].pc \in Working /\ proc'[p].pc \in Working
  BY DEF PlannerInv, ProcsKnow, HolderKnows, Working
<1>4. Knows(p)'
  BY <1>2, <1>3 DEF Knows, Working
<1>5. Holds(p)'
  BY <1>2, <1>3 DEF Holds, Owns, Working
<1>6. StartClaimed
  BY <1>3 DEF PlannerInv, StartFirst, Working
<1> QED  BY <1>1, <1>3, <1>4, <1>5, <1>6, LocalKeeps

\* A claimed resume request is run, answered from the state, or refused.
LEMMA RunOrRecoverResumeKeeps ==
    ASSUME PlannerInv, NEW p \in Procs, _run_or_recover_resume(p), lost' = lost
    PROVE  PlannerInv'
<1> DEFINE r == proc[p].job.req
<1>1. TypeOK /\ Knows(p)
  BY DEF PlannerInv, ProcsKnow
<1>2. /\ proc[p].pc = "claimed" /\ proc[p].job.kind = "resume" /\ guard = p
      /\ UNCHANGED <<checkpoints, tables>>
  BY DEF _run_or_recover_resume, At
<1>3. proc[p].fresh \in BOOLEAN
  BY <1>1 DEF TypeOK
<1>4. CASE Finish(p)
  BY <1>2, <1>4, FinishKeeps
<1>5. CASE /\ cp.pending = Answers[r] /\ UNCHANGED guard
           /\ proc' = [proc EXCEPT ![p].pc = "running", ![p].fresh = TRUE]
  <2>1. /\ proc' \in [Procs -> Process]
        /\ \A o \in Procs : o # p => proc'[o] = proc[o]
        /\ proc'[p].pc = "running" /\ proc'[p].job = proc[p].job
    BY <1>1, <1>5, RunningProcess
  <2>2. proc'[p].fresh
    BY <1>1, <1>5 DEF TypeOK
  <2> QED  BY <1>2, <1>5, <2>1, <2>2, RunKeeps
<1>6. CASE /\ cp.pending # Answers[r] /\ cp.consumed = r /\ UNCHANGED guard
           /\ _is_servable(cp)
           /\ proc' = [proc EXCEPT ![p].pc = "ran", ![p].seen = _response_from_state(cp)]
  <2>1. cp.pending # NoInterrupt \/ cp.status # "planning"
    BY <1>6 DEF _is_servable
  <2> QED  BY <1>2, <1>6, <2>1, RanKeeps
<1>7. CASE /\ cp.pending # Answers[r] /\ cp.consumed = r /\ UNCHANGED guard
           /\ proc' = [proc EXCEPT ![p].pc = "running"]
  <2>1. /\ proc' \in [Procs -> Process]
        /\ \A o \in Procs : o # p => proc'[o] = proc[o]
        /\ proc'[p].pc = "running" /\ proc'[p].job = proc[p].job
    BY <1>1, <1>7, RunningProcess
  <2>2. proc'[p].fresh = proc[p].fresh
    BY <1>1, <1>7 DEF TypeOK
  <2>3. ~proc'[p].fresh
    BY <1>1, <1>2, <2>2 DEF Knows
  <2> QED  BY <1>2, <1>7, <2>1, <2>3, RunKeeps
<1> QED  BY <1>4, <1>5, <1>6, <1>7 DEF _run_or_recover_resume, Serve, _validate_resume_state

\* An invocation that returns has taken the answer it carried, and its state is one to
\* serve.
LEMMA RespondKeeps ==
    ASSUME PlannerInv, NEW p \in Procs, Respond(p), lost' = lost
    PROVE  PlannerInv'
<1> DEFINE j == proc[p].job
<1>1. /\ proc[p].pc = "running" /\ guard = p /\ Returns(cp, Carried(p))
      /\ proc' = [proc EXCEPT ![p].pc = "ran", ![p].seen = _response_from_state(cp)]
      /\ UNCHANGED <<checkpoints, guard, tables>>
  BY DEF Respond
<1>2. Knows(p) /\ Holds(p) /\ Earned(cp)
  BY <1>1 DEF PlannerInv, ProcsKnow, HolderKnows
<1>3. j \in Jobs
  BY <1>1, <1>2 DEF Knows
<1>4. ~proc[p].fresh
  <2> SUFFICES ASSUME proc[p].fresh PROVE FALSE
    OBVIOUS
  <2>1. j.kind = "resume"
    BY <1>2 DEF Knows
  <2>2. j.req \in Resumes /\ j.req # None
    BY <1>3, <2>1, JobTyped
  <2>3. cp.pending # NoInterrupt
    BY <1>1, <1>2, <2>1, <2>2, AnswerTyped DEF Holds
  <2>4. cp.next # "END"
    BY <1>2, <2>3 DEF Earned, Waits
  <2>5. Carried(p) # None
    BY <2>2 DEF Carried
  <2> QED  BY <1>1, <2>4, <2>5 DEF Returns
<1>5. j.kind = "resume" => cp.consumed = j.req
  BY <1>1, <1>2, <1>4 DEF Holds
<1>6. cp.pending # NoInterrupt \/ cp.status # "planning"
  BY <1>1, <1>2 DEF Returns, Earned
<1> QED  BY <1>1, <1>5, <1>6, RanKeeps

\* A process that dies or raises.
LEMMA AbortKeeps ==
    ASSUME PlannerInv, NEW p \in Procs, Abort(p), lost' = lost
    PROVE  PlannerInv'
BY FinishKeeps DEF Abort

\* A session that dies takes only the lock with it.
LEMMA LoseConnectionKeeps ==
    ASSUME PlannerInv, NEW p \in Procs, LoseConnection(p)
    PROVE  PlannerInv'
<1>1. /\ guard = p /\ guard' = None /\ UNCHANGED <<checkpoints, tables, proc>>
      /\ lost < MaxLost /\ lost' = lost + 1
  BY DEF LoseConnection
<1>2. lost' \in 0 .. MaxLost /\ proc' \in [Procs -> Process] /\ None # p
  BY <1>1, PlannerAssumption DEF PlannerInv, TypeOK, Process
<1>3. Knows(p)'
  BY <1>1 DEF PlannerInv, ProcsKnow, Knows, checkpoints, tables, Abandoned
<1>4. proc[p].pc # "idle" => StartClaimed
  BY DEF PlannerInv, StartFirst
<1> QED  BY <1>1, <1>2, <1>3, <1>4, LocalKeeps

-----------------------------------------------------------------------------
(* Steps that write a checkpoint.                                          *)

\* A step that leaves the interrupt and the answers alone.
LEMMA QuietKeeps ==
    ASSUME DigestsOrdered, TakenAbandoned, cp'.pending = cp.pending,
           cp'.consumed = cp.consumed, UNCHANGED <<used, claims>>
    PROVE  DigestsOrdered' /\ TakenAbandoned'
<1>1. \A r : Abandoned(r)' <=> Abandoned(r)
  BY DEF Abandoned
<1> QED  BY <1>1 DEF DigestsOrdered, TakenAbandoned

\* The history of a thread stays one of interrupts without an answer.
LEMMA WriteSaved ==
    ASSUME TypeOK, PreResumeSaved, NEW c \in Checkpoints, Earned(c), Write(c)
    PROVE  /\ cp' = c /\ PreResumeSaved'
           /\ preResume' \in [Interrupts -> Checkpoints]
<1>1. c.pending # NoInterrupt => c.pending \in Interrupts /\ ~c.artifacts /\ c.status # "failed"
  BY CheckpointFields DEF Earned, Waits
<1>2. CASE c.pending # NoInterrupt /\ c.consumed = None
  <2>1. preResume' = [preResume EXCEPT ![c.pending] = c] /\ cp' = c
    BY <1>2 DEF Write
  <2>2. preResume' \in [Interrupts -> Checkpoints]
    BY <1>1, <1>2, <2>1 DEF TypeOK
  <2>3. Saved(c, c.pending)
    BY <1>1, <1>2 DEF Saved
  <2>4. \A i \in Interrupts : preResume'[i] = IF i = c.pending THEN c ELSE preResume[i]
    BY <2>1 DEF TypeOK
  <2> QED  BY <2>1, <2>2, <2>3, <2>4 DEF PreResumeSaved
<1>3. CASE ~(c.pending # NoInterrupt /\ c.consumed = None)
  BY <1>3 DEF Write, TypeOK, PreResumeSaved
<1> QED  BY <1>2, <1>3

\* A step of the holder of the lock that writes a checkpoint.
LEMMA CheckpointKeeps ==
    ASSUME PlannerInv, NEW p \in Procs, UNCHANGED <<tables, lost>>,
           NEW c \in Checkpoints, Earned(c), Write(c),
           used' \in SUBSET Resumes, used \subseteq used',
           guard \in {p, None}, guard' \in {guard, None}, proc' \in [Procs -> Process],
           \A o \in Procs : o # p => proc'[o] = proc[o],
           DigestsOrdered', TakenAbandoned', StartClaimed, Starting => used' = {},
           proc'[p].pc \in Working => proc[p].pc \in Working /\ proc'[p].job = proc[p].job,
           Knows(p)', guard' = p => Holds(p)'
    PROVE  PlannerInv'
<1> USE DEF PlannerInv
<1>1. UNCHANGED <<claims, bindings>>
  BY DEF tables
<1>2. cp' = c /\ PreResumeSaved' /\ preResume' \in [Interrupts -> Checkpoints]
  BY WriteSaved
<1>3. TypeOK'
  BY <1>1, <1>2 DEF TypeOK, Process
<1>4. Earned(cp)'
  BY <1>2
<1>5. RowsKept /\ RowsNamed' /\ ResponseFaithful'
  BY <1>1 DEF RowsKept, RowsNamed, ResponseFaithful
<1>6. ProcsKnow'
  <2>1. \A o \in Procs : o # p => Knows(o)'
    BY <1>5, KnowsKept DEF ProcsKnow
  <2> QED  BY <2>1 DEF ProcsKnow
<1>7. HolderKnows'
  BY PlannerAssumption DEF HolderKnows
<1>8. StartFirst'
  <2>1. (StartClaimed' <=> StartClaimed) /\ (Starting' <=> Starting)
    BY <1>1 DEF StartClaimed, Starting
  <2> QED  BY <1>1, <2>1 DEF StartFirst
<1> QED  BY <1>2, <1>3, <1>4, <1>5, <1>6, <1>7, <1>8

\* The input of the graph is typed and at its beginning.
LEMMA InitialTyped ==
    /\ Initial \in Checkpoints /\ Earned(Initial)
    /\ Initial.pending = NoInterrupt /\ Initial.consumed = None
<1>1. /\ Initial \in Checkpoints /\ Initial.next = "normalize_intake"
      /\ Initial.pending = NoInterrupt /\ Initial.consumed = None /\ ~Initial.artifacts
      /\ Initial.status = "planning"
  BY IdleTyped, NodesKnown DEF Initial, NoState, Checkpoints
<1> QED  BY <1>1 DEF Earned, Waits, Opening, None

\* A claimed start request is run from the beginning or from where it is, or answered
\* from the state.
LEMMA RunOrRecoverStartKeeps ==
    ASSUME PlannerInv, NEW p \in Procs, _run_or_recover_start(p), lost' = lost
    PROVE  PlannerInv'
<1>1. TypeOK /\ Knows(p) /\ Earned(cp)
  BY DEF PlannerInv, ProcsKnow
<1>2. /\ proc[p].pc = "claimed" /\ proc[p].job.kind = "start" /\ guard = p
      /\ UNCHANGED <<used, guard, tables>>
  BY DEF _run_or_recover_start, At
<1>3. CASE /\ cp.next # None /\ _is_servable(cp)
           /\ proc' = [proc EXCEPT ![p].pc = "ran", ![p].seen = _response_from_state(cp)]
           /\ UNCHANGED <<cp, preResume>>
  <2>1. cp.pending # NoInterrupt \/ cp.status # "planning"
    BY <1>3 DEF _is_servable
  <2>2. UNCHANGED checkpoints
    BY <1>2, <1>3 DEF checkpoints
  <2> QED  BY <1>2, <1>3, <2>1, <2>2, RanKeeps
<1>4. CASE proc' = [proc EXCEPT ![p].pc = "running"]
  <2>1. /\ proc' \in [Procs -> Process]
        /\ \A o \in Procs : o # p => proc'[o] = proc[o]
        /\ proc'[p].pc = "running" /\ proc'[p].job = proc[p].job
    BY <1>1, <1>4, RunningProcess
  <2>2. proc'[p].fresh = proc[p].fresh
    BY <1>1, <1>4 DEF TypeOK
  <2>3. ~proc'[p].fresh
    BY <1>1, <1>2, <2>2 DEF Knows
  <2>4. CASE UNCHANGED <<cp, preResume>>
    <3>1. UNCHANGED checkpoints
      BY <1>2, <2>4 DEF checkpoints
    <3> QED  BY <1>2, <2>1, <2>3, <3>1, RunKeeps
  <2>5. CASE cp.next = None /\ Write(Initial)
    <3>1. cp = NoState /\ cp' = Initial
      BY <1>1, <2>5 DEF Earned, Write
    <3>2. UNCHANGED claims
      BY <1>2 DEF tables
    <3>3. DigestsOrdered' /\ TakenAbandoned'
      BY <1>2, <3>1, <3>2, IdleTyped, InitialTyped, QuietKeeps DEF PlannerInv
    <3>4. Holds(p) /\ proc[p].pc \in Working /\ StartClaimed
      BY <1>2 DEF PlannerInv, HolderKnows, Working, StartFirst
    <3>5. Knows(p)' /\ Holds(p)'
      BY <1>1, <1>2, <2>1, <2>3, <3>2, <3>4 DEF Knows, Holds, Owns, Working
    <3>6. Starting => used' = {}
      BY <1>2 DEF PlannerInv, StartFirst
    <3>7. used' \in SUBSET Resumes /\ used \subseteq used'
      BY <1>1, <1>2 DEF TypeOK
    <3> QED  BY <1>2, <2>1, <2>5, <3>3, <3>4, <3>5, <3>6, <3>7, InitialTyped, CheckpointKeeps
  <2> QED  BY <1>4, <2>4, <2>5, <1>3 DEF _run_or_recover_start
<1> QED  BY <1>3, <1>4 DEF _run_or_recover_start

\* An interrupt that is raised was not answered before.
LEMMA RaisesNew ==
    ASSUME PlannerInv, NEW n, Raises(cp, n), cp' = n, UNCHANGED <<used, claims>>
    PROVE  DigestsOrdered' /\ TakenAbandoned'
<1> USE DEF PlannerInv
<1>1. /\ cp.pending = NoInterrupt /\ cp'.consumed = cp.consumed
      /\ cp.consumed \in used \union {None} /\ used \subseteq Resumes
  BY DEF Raises, DigestsOrdered, TypeOK
<1>2. cp.consumed = None => used = {}
  BY <1>1 DEF DigestsOrdered
<1>3. \/ cp'.pending = Questions /\ used = {}
      \/ cp'.pending = critique_interrupt(cp.consumed)
  BY <1>2 DEF Raises, Earned, Opening
<1>4. cp'.pending # NoInterrupt /\ cp.consumed \in Resumes \union {None}
  BY <1>1, <1>3, InterruptsDistinct
<1>5. \A x \in Resumes : cp'.pending = critique_interrupt(x) => x \in used
  <2> SUFFICES ASSUME NEW x \in Resumes, cp'.pending = critique_interrupt(x) PROVE x \in used
    OBVIOUS
  <2>1. cp'.pending # Questions
    BY InterruptsDistinct
  <2>2. x = cp.consumed
    BY <1>3, <2>1, InterruptsDistinct
  <2> QED  BY <1>1, <2>2, AnswerTyped
<1>6. \A r \in used : cp'.pending # Answers[r]
  BY <1>2, <1>3 DEF DigestsOrdered
<1>7. \A r : Abandoned(r)' <=> Abandoned(r)
  BY DEF Abandoned
<1>8. DigestsOrdered'
  BY <1>1, <1>4, <1>5 DEF DigestsOrdered
<1>9. TakenAbandoned'
  BY <1>1, <1>6, <1>7 DEF TakenAbandoned
<1> QED  BY <1>8, <1>9

\* An answer that is taken is new.
LEMMA TakesNew ==
    ASSUME PlannerInv, NEW n, NEW r \in Resumes, Takes(cp, n, r), cp' = n,
           cp.pending = Answers[r], r \notin used, used' = used \union {r}, UNCHANGED claims
    PROVE  DigestsOrdered' /\ TakenAbandoned'
<1> USE DEF PlannerInv
<1>1. /\ cp'.pending = NoInterrupt /\ cp'.consumed = r /\ r # None /\ used \subseteq Resumes
  BY AnswerTyped DEF Takes, TypeOK
<1>2. \A x \in Resumes : cp'.pending # critique_interrupt(x)
  BY <1>1, InterruptsDistinct
<1>3. \A q \in used' : \A x \in Resumes : Answers[q] = critique_interrupt(x) => x \in used
  BY DEF DigestsOrdered
<1>4. \A q \in used' : Answers[q] # critique_interrupt(r)
  BY <1>3
<1>5. DigestsOrdered'
  BY <1>1, <1>2, <1>3, <1>4 DEF DigestsOrdered
<1>6. \A q : Abandoned(q)' <=> Abandoned(q)
  BY DEF Abandoned
<1>7. \A q \in used' : cp'.pending # Answers[q]
  BY <1>1, AnswerTyped
<1>8. \A q \in used' : Answers[q] = Answers[r] => q = r \/ Abandoned(q)
  BY DEF TakenAbandoned
<1>9. TakenAbandoned'
  BY <1>1, <1>6, <1>7, <1>8 DEF TakenAbandoned
<1> QED  BY <1>5, <1>9

\* A node of the graph.
LEMMA RunNodeKeeps ==
    ASSUME PlannerInv, NEW p \in Procs, RunNode(p), lost' = lost
    PROVE  /\ PlannerInv'
           /\ UNCHANGED claims
           /\ \/ UNCHANGED used /\ cp'.pending = cp.pending /\ cp'.consumed = cp.consumed
              \/ /\ UNCHANGED used /\ cp'.consumed = cp.consumed
                 /\ cp.pending = NoInterrupt /\ cp'.pending \in Interrupts
              \/ \E a \in Resumes : /\ cp.pending = Answers[a] /\ a \notin used
                                     /\ cp'.pending = NoInterrupt /\ cp'.consumed = a
                                     /\ used' = used \union {a}
<1> DEFINE j == proc[p].job
           r == Carried(p)
<1>1. proc[p].pc = "running" /\ guard = p /\ UNCHANGED <<guard, tables>>
  BY DEF RunNode
<1>2. PICK c \in Results(cp, r) :
         /\ Write(c)
         /\ IF c.consumed # cp.consumed
            THEN used' = used \union {c.consumed} /\ proc' = [proc EXCEPT ![p].fresh = FALSE]
            ELSE UNCHANGED <<used, proc>>
  BY DEF RunNode
<1>3. TypeOK /\ Knows(p) /\ Holds(p) /\ Earned(cp) /\ cp \in Checkpoints
  BY <1>1 DEF PlannerInv, ProcsKnow, HolderKnows, TypeOK
<1>4. proc[p].pc \in Working /\ j \in Jobs /\ StartClaimed
  BY <1>1, <1>3 DEF PlannerInv, StartFirst, Working, Knows
<1>5. r \in Resumes \union {None}
  BY <1>3, <1>4, JobTyped DEF Carried, Knows
<1>6. NodeKeeps(cp, c, r)
  BY <1>2, <1>3, <1>5, ResultsKeep
<1>7. c \in Checkpoints /\ Earned(c) /\ cp' = c
  BY <1>2, <1>6 DEF NodeKeeps, Write
<1>8. proc \in [Procs -> Process] /\ used \in SUBSET Resumes /\ UNCHANGED claims
  BY <1>1, <1>3 DEF TypeOK, Process, tables
<1>9. Starting => used = {} /\ j.kind = "start"
  BY <1>4 DEF PlannerInv, StartFirst
<1>10. CASE Quiet(cp, c) \/ Raises(cp, c)
  <2>1. UNCHANGED <<used, proc>> /\ cp'.consumed = cp.consumed
    BY <1>2, <1>7, <1>10 DEF Quiet, Raises
  <2>2. DigestsOrdered' /\ TakenAbandoned'
    <3>1. CASE Quiet(cp, c)
      BY <1>7, <1>8, <2>1, <3>1, QuietKeeps DEF Quiet, PlannerInv
    <3>2. CASE Raises(cp, c)
      BY <1>7, <1>8, <2>1, <3>2, RaisesNew
    <3> QED  BY <1>10, <3>1, <3>2
  <2>3. Knows(p)'
    BY <1>3, <1>8, <2>1 DEF Knows, Abandoned
  <2>4. proc[p].fresh => cp'.pending = cp.pending
    <3> SUFFICES ASSUME proc[p].fresh PROVE cp'.pending = cp.pending
      OBVIOUS
    <3>1. cp.pending = Answers[j.req] /\ j.req \in Resumes
      BY <1>1, <1>3, <1>4, JobTyped DEF Knows, Holds
    <3>2. cp.pending # NoInterrupt
      BY <3>1, AnswerTyped
    <3> QED  BY <1>7, <1>10, <3>2 DEF Quiet, Raises
  <2>5. Holds(p)'
    BY <1>1, <1>3, <1>8, <2>1, <2>4 DEF Holds, Owns
  <2>6. \/ cp'.pending = cp.pending
        \/ cp.pending = NoInterrupt /\ cp'.pending \in Interrupts
    <3>1. cp.consumed \in Resumes \union {None}
      BY <1>3, CheckpointFields
    <3> QED  BY <1>7, <1>10, <3>1, InterruptsDistinct DEF Quiet, Raises
  <2>7. PlannerInv'
    BY <1>1, <1>2, <1>4, <1>7, <1>8, <1>9, <2>1, <2>2, <2>3, <2>5, CheckpointKeeps
  <2> QED  BY <1>8, <2>1, <2>6, <2>7
<1>11. CASE Takes(cp, c, r)
  <2>1. proc[p].fresh /\ r = j.req /\ j.kind = "resume" /\ r \in Resumes
    BY <1>3, <1>5, <1>11 DEF Takes, Carried, Knows
  <2>2. cp.pending = Answers[r] /\ r \notin used /\ c.consumed = r
    BY <1>1, <1>3, <1>11, <2>1 DEF Holds, Takes
  <2>3. c.consumed # cp.consumed
    BY <2>1, <2>2, AnswerTyped DEF PlannerInv, DigestsOrdered
  <2>4. used' = used \union {r} /\ proc' = [proc EXCEPT ![p].fresh = FALSE]
    BY <1>2, <2>2, <2>3
  <2>5. /\ proc' \in [Procs -> Process]
        /\ \A o \in Procs : o # p => proc'[o] = proc[o]
        /\ proc'[p].pc = proc[p].pc /\ proc'[p].job = proc[p].job /\ ~proc'[p].fresh
    BY <1>8, <2>4 DEF Process
  <2>6. DigestsOrdered' /\ TakenAbandoned'
    BY <1>7, <1>8, <1>11, <2>1, <2>2, <2>4, TakesNew
  <2>7. Knows(p)'
    BY <1>1, <1>3, <1>8, <2>5 DEF Knows, Working
  <2>8. Holds(p)'
    BY <1>1, <1>7, <2>1, <2>2, <2>5 DEF Holds
  <2>9. ~Starting
    BY <1>9, <2>1
  <2>10. used' \in SUBSET Resumes /\ used \subseteq used'
    BY <1>8, <2>1, <2>4
  <2>11. PlannerInv'
    BY <1>1, <1>2, <1>4, <1>7, <2>5, <2>6, <2>7, <2>8, <2>9, <2>10, CheckpointKeeps
  <2>12. cp'.pending = NoInterrupt /\ cp'.consumed = r
    BY <1>7, <1>11 DEF Takes
  <2> QED  BY <1>8, <2>1, <2>2, <2>4, <2>11, <2>12
<1> QED  BY <1>6, <1>10, <1>11 DEF NodeKeeps

\* A rewind asks again what the abandoned answer had answered.
LEMMA RewindKeeps ==
    ASSUME PlannerInv, NEW p \in Procs, Rewind(p), lost' = lost
    PROVE  /\ PlannerInv'
           /\ proc[p].job.req \in Resumes /\ Abandoned(proc[p].job.req)
           /\ cp.consumed = proc[p].job.req
           /\ cp'.pending = Answers[proc[p].job.req] /\ cp'.consumed = None
<1> DEFINE r == proc[p].job.req
           c == Restored(proc[p].seen)
<1>1. /\ proc[p].pc = "rewind" /\ guard = p /\ Write(c) /\ Finish(p)
      /\ UNCHANGED <<used, tables>>
  BY DEF Rewind
<1>2. TypeOK /\ Knows(p) /\ Holds(p) /\ proc[p].seen \in Checkpoints
  BY <1>1 DEF PlannerInv, ProcsKnow, HolderKnows, TypeOK
<1>3. /\ r \in Resumes /\ Abandoned(r) /\ cp.consumed = r
      /\ Saved(proc[p].seen, Answers[r])
  BY <1>1, <1>2, JobTyped DEF Knows, Holds
<1>4. /\ c \in Checkpoints /\ c.pending = Answers[r] /\ c.consumed = None /\ ~c.artifacts
      /\ c.next = "human_interrupt_when_required" /\ c.status # "failed"
  BY <1>2, <1>3, Edges, NodesKnown DEF Restored, Saved, Checkpoints
<1> HIDE DEF c
<1>5. Earned(c)
  BY <1>4 DEF Earned, Waits, Opening, None
<1>6. cp' = c /\ UNCHANGED claims
  BY <1>1 DEF Write, tables
<1>7. r \in used /\ used \in SUBSET Resumes
  BY <1>2, <1>3, AnswerTyped DEF PlannerInv, DigestsOrdered, TypeOK
<1>8. DigestsOrdered'
  <2>1. cp'.pending # NoInterrupt /\ cp'.consumed = None
    BY <1>3, <1>4, <1>6, AnswerTyped
  <2>2. \A x \in Resumes : cp'.pending = critique_interrupt(x) => x \in used
    BY <1>4, <1>6, <1>7 DEF PlannerInv, DigestsOrdered
  <2> QED  BY <1>1, <2>1, <2>2 DEF PlannerInv, DigestsOrdered
<1>9. TakenAbandoned'
  <2>1. \A q \in used : Answers[q] = Answers[r] => Abandoned(q)
    BY <1>3, AnswerTyped DEF PlannerInv, TakenAbandoned
  <2>2. \A q : Abandoned(q)' <=> Abandoned(q)
    BY <1>6 DEF Abandoned
  <2> QED  BY <1>1, <1>4, <1>6, <2>1, <2>2 DEF TakenAbandoned
<1>10. /\ proc' \in [Procs -> Process] /\ proc'[p] = Idle
       /\ \A o \in Procs : o # p => proc'[o] = proc[o]
       /\ guard' \in {p, guard, None} /\ guard' # p
       /\ Knows(p)' /\ proc'[p].pc = "idle"
  BY <1>1, <1>2, FinishedProcess
<1>11. proc'[p].pc \notin Working /\ StartClaimed /\ (Starting => used' = {})
  BY <1>1, <1>10 DEF Working, PlannerInv, StartFirst
<1>12. guard' \in {guard, None}
  BY <1>1, <1>10
<1>13. PlannerInv'
  BY <1>1, <1>4, <1>5, <1>7, <1>8, <1>9, <1>10, <1>11, <1>12, CheckpointKeeps
<1> QED  BY <1>3, <1>4, <1>6, <1>13

\* The failed critique of an earlier release becomes an interrupt nobody answered.
LEMMA ConvertKeeps ==
    ASSUME PlannerInv, NEW p \in Procs, NEW r \in Resumes,
           convert_failed_critique_to_interrupt(p, r), lost' = lost
    PROVE  /\ PlannerInv'
           /\ UNCHANGED <<used, claims>> /\ cp'.consumed = cp.consumed
           /\ cp'.pending = critique_interrupt(r) /\ cp.pending = NoInterrupt
<1> DEFINE c == [cp EXCEPT !.pending = critique_interrupt(r), !.status = "planning",
                           !.correction = r, !.next = "human_interrupt_after_critique"]
<1>1. /\ guard = None /\ cp.consumed = r /\ ~cp.artifacts /\ Write(c)
      /\ cp.status = "failed"
      /\ UNCHANGED <<used, tables, guard, proc>>
  BY DEF convert_failed_critique_to_interrupt, execution
<1>2. TypeOK /\ Knows(p) /\ Earned(cp) /\ cp \in Checkpoints
  BY DEF PlannerInv, ProcsKnow, TypeOK
<1>3. /\ c \in Checkpoints /\ c.pending = critique_interrupt(r) /\ c.consumed = cp.consumed
      /\ c.next = "human_interrupt_after_critique" /\ c.artifacts = cp.artifacts
      /\ c.status = "planning"
  BY <1>2, NodesKnown, InterruptsDistinct DEF Checkpoints
<1> HIDE DEF c
<1>4. Earned(c)
  BY <1>1, <1>3 DEF Earned, Waits, Opening, None
<1>5. cp.pending = NoInterrupt
  BY <1>1, <1>2 DEF Earned, Waits
<1>6. cp' = c /\ UNCHANGED claims
  BY <1>1 DEF Write, tables
<1>7. Raises(cp, c)
  BY <1>1, <1>3, <1>5 DEF Raises
<1>8. DigestsOrdered' /\ TakenAbandoned'
  BY <1>1, <1>6, <1>7, RaisesNew
<1>9. Knows(p)' /\ guard' # p /\ proc' \in [Procs -> Process]
  BY <1>1, <1>2, <1>6, PlannerAssumption DEF Knows, Abandoned, TypeOK, Process
<1>10. StartClaimed /\ (Starting => used' = {})
  <2>1. cp # NoState
    BY <1>1, IdleTyped, AnswerTyped
  <2> QED  BY <1>1, <2>1 DEF PlannerInv, StartFirst
<1>11. used' \in SUBSET Resumes /\ used \subseteq used'
  BY <1>1, <1>2 DEF TypeOK
<1>12. PlannerInv'
  BY <1>1, <1>3, <1>4, <1>8, <1>9, <1>10, <1>11, CheckpointKeeps
<1> QED  BY <1>1, <1>3, <1>5, <1>6, <1>12

-----------------------------------------------------------------------------
(* Steps that write the tables.                                            *)

\* A claim takes a free row, or the expired row of the same request.
LEMMA ClaimRow ==
    ASSUME PlannerInv, NEW p \in Procs, NEW q \in Requests, claim(p, q)
    PROVE  /\ claims' \in [Keys -> Claims] /\ bindings' \in [Comments -> Resumes \union {None}]
           /\ claims[Key[q]].state \in {None, "in_progress"}
           /\ claims[Key[q]].state = "in_progress" => claims[Key[q]].req = q
           /\ \A k \in Keys : k # Key[q] => claims'[k] = claims[k]
           /\ claims'[Key[q]].state = "in_progress" /\ claims'[Key[q]].req = q
           /\ claims'[Key[q]].token = p
           /\ RowsKept /\ RowsNamed' /\ ResponseFaithful'
<1> USE DEF PlannerInv
<1> DEFINE row == [NoClaim EXCEPT !.state = "in_progress", !.req = q, !.token = p, !.live = TRUE]
<1>1. row \in Claims /\ row.state = "in_progress" /\ row.req = q /\ row.token = p
  BY IdleTyped DEF NoClaim, Claims
<1>2. /\ claims' = [claims EXCEPT ![Key[q]] = row] /\ Claimable(q)
      /\ bindings' = IF q \in Resumes THEN [bindings EXCEPT ![Comment[q]] = q] ELSE bindings
  BY DEF claim
<1> HIDE DEF row
<1>3. Key[q] \in Keys /\ q # None
  BY KeyTyped
<1>4. /\ claims' \in [Keys -> Claims] /\ claims'[Key[q]] = row
      /\ \A k \in Keys : k # Key[q] => claims'[k] = claims[k]
  BY <1>1, <1>2, <1>3 DEF TypeOK
<1>5. bindings' \in [Comments -> Resumes \union {None}]
  BY <1>2 DEF TypeOK
<1>6. /\ claims[Key[q]].state \in {None, "in_progress"}
      /\ claims[Key[q]].state = "in_progress" => claims[Key[q]].req = q
  BY <1>2 DEF Claimable, Inserts, Recovers, _validate_row_identity, None
<1>7. RowsKept
  BY <1>1, <1>3, <1>4, <1>6 DEF RowsKept, RowsNamed, None
<1>8. RowsNamed'
  BY <1>1, <1>3, <1>4 DEF RowsNamed, None
<1>9. ResponseFaithful'
  BY <1>1, <1>4 DEF ResponseFaithful
<1> QED  BY <1>1, <1>4, <1>5, <1>6, <1>7, <1>8, <1>9

\* start() claims its request under the lock.
LEMMA StartKeeps ==
    ASSUME PlannerInv, NEW p \in Procs, NEW q \in Starts, start(p, q), lost' = lost
    PROVE  PlannerInv'
<1>1. /\ execution(p) /\ claim(p, q) /\ Enter(p, "claimed", "start", q, NoState)
      /\ UNCHANGED checkpoints
  BY DEF start
<1>2. q \in Requests /\ q \notin Resumes /\ Key[q] \in Keys
  BY KeyTyped, PlannerAssumption DEF Requests
<1>3. /\ claims' \in [Keys -> Claims] /\ bindings' \in [Comments -> Resumes \union {None}]
      /\ claims[Key[q]].state \in {None, "in_progress"}
      /\ claims[Key[q]].state = "in_progress" => claims[Key[q]].req = q
      /\ \A k \in Keys : k # Key[q] => claims'[k] = claims[k]
      /\ claims'[Key[q]].state = "in_progress" /\ claims'[Key[q]].req = q
      /\ claims'[Key[q]].token = p
      /\ RowsKept /\ RowsNamed' /\ ResponseFaithful'
  BY <1>1, <1>2, ClaimRow
<1>4. TypeOK /\ lost' \in 0 .. MaxLost /\ UNCHANGED <<cp, used>>
  BY <1>1 DEF PlannerInv, TypeOK, checkpoints
<1>5. [kind |-> "start", req |-> q] \in Jobs /\ NoState \in Checkpoints /\ "claimed" \in Places
  BY JobsTyped, IdleTyped DEF Places
<1>6. /\ proc' \in [Procs -> Process]
      /\ \A o \in Procs : o # p => proc'[o] = proc[o]
      /\ proc'[p].pc = "claimed" /\ proc'[p].job = [kind |-> "start", req |-> q]
      /\ proc'[p].seen = NoState /\ ~proc'[p].fresh
      /\ guard = None /\ guard' = p
  BY <1>1, <1>4, <1>5, EnteredProcess
<1>7. Knows(p)'
  BY <1>3, <1>5, <1>6 DEF Knows, Working
<1>8. Holds(p)'
  BY <1>3, <1>6 DEF Holds, Owns
<1>9. StartFirst'
  <2>1. StartClaimed'
    BY <1>2, <1>3 DEF StartClaimed
  <2>2. /\ used = {}
        /\ \A k \in Keys : k # Key[q] => claims[k].req \notin Resumes
        /\ \A o \in Procs : proc[o].pc \in Working => proc[o].job.kind = "start"
    <3>1. CASE ~StartClaimed
      <4>1. \A k \in Keys : claims[k].req = None
        BY <3>1 DEF PlannerInv, StartFirst, RowsNamed
      <4> QED  BY <3>1, <4>1, AnswerTyped DEF PlannerInv, StartFirst, Working
    <3>2. CASE StartClaimed
      <4>1. claims[Key[q]].state = "in_progress"
        BY <1>1, <1>3, <3>2 DEF claim, Claimable, Inserts, Recovers, StartClaimed
      <4>2. Starting
        BY <1>2, <1>3, <4>1 DEF Starting
      <4> QED  BY <4>2 DEF PlannerInv, StartFirst
    <3> QED  BY <3>1, <3>2
  <2>3. \A k \in Keys : claims'[k].req \notin Resumes
    BY <1>2, <1>3, <2>2
  <2>4. \A o \in Procs : proc'[o].pc \in Working => proc'[o].job.kind = "start"
    BY <1>6, <2>2
  <2> QED  BY <1>4, <2>1, <2>2, <2>3, <2>4 DEF StartFirst
<1>10. \A o \in Procs : guard # o
  BY <1>6, PlannerAssumption
<1> QED  BY <1>1, <1>3, <1>4, <1>6, <1>7, <1>8, <1>9, <1>10, TablesKeep

\* resume() claims its request, with the lock or without.
LEMMA ResumeKeeps ==
    ASSUME PlannerInv, NEW p \in Procs, resume(p), lost' = lost
    PROVE  PlannerInv'
<1> DEFINE q == proc[p].job.req
<1>1. proc[p].pc = "checked" /\ UNCHANGED checkpoints
  BY DEF resume, At
<1>2. TypeOK /\ Knows(p) /\ lost' \in 0 .. MaxLost /\ UNCHANGED <<cp, used>>
  BY <1>1 DEF PlannerInv, ProcsKnow, TypeOK, checkpoints
<1>3. /\ proc[p].job \in Jobs /\ proc[p].job.kind = "resume" /\ ~proc[p].fresh
      /\ q \in Resumes /\ q \in Requests /\ q \notin Starts /\ Key[q] \in Keys
  BY <1>1, <1>2, JobTyped, AnswerTyped DEF Knows
<1>4. CASE Finish(p) /\ UNCHANGED tables
  BY <1>1, <1>4, FinishKeeps
<1>5. CASE claim(p, q) /\ Goto(p, "claimed")
  <2>1. /\ claims' \in [Keys -> Claims] /\ bindings' \in [Comments -> Resumes \union {None}]
        /\ claims[Key[q]].state \in {None, "in_progress"}
        /\ claims[Key[q]].state = "in_progress" => claims[Key[q]].req = q
        /\ \A k \in Keys : k # Key[q] => claims'[k] = claims[k]
        /\ claims'[Key[q]].state = "in_progress" /\ claims'[Key[q]].req = q
        /\ claims'[Key[q]].token = p
        /\ RowsKept /\ RowsNamed' /\ ResponseFaithful'
    BY <1>3, <1>5, ClaimRow
  <2>2. /\ proc' \in [Procs -> Process]
        /\ \A o \in Procs : o # p => proc'[o] = proc[o]
        /\ proc'[p].pc = "claimed" /\ proc'[p].job = proc[p].job
        /\ proc'[p].fresh = proc[p].fresh /\ guard' = guard
    BY <1>2, <1>5 DEF Goto, TypeOK, Process, Places
  <2>3. Knows(p)'
    BY <1>3, <2>1, <2>2 DEF Knows, Working
  <2>4. q \in used => cp.pending # Answers[q]
    <3>1. ~Abandoned(q)
      BY <2>1 DEF Abandoned, None
    <3> QED  BY <3>1 DEF PlannerInv, TakenAbandoned
  <2>5. Holds(p)'
    BY <1>2, <1>3, <2>2, <2>4 DEF Holds
  <2>6. ~Starting
    <3>1. CASE Inserts(q)
      BY <3>1 DEF Inserts, Unfinished, Starting
    <3>2. CASE Recovers(q)
      BY <1>3, <3>2 DEF Recovers, _validate_row_identity, PlannerInv, StartFirst
    <3> QED  BY <1>5, <3>1, <3>2 DEF claim, Claimable
  <2>7. ~Starting'
    BY <1>3, <2>1, <2>6 DEF Starting
  <2>8. StartClaimed'
    <3>1. PICK k \in Keys : claims[k].req \in Starts
      BY <1>1 DEF PlannerInv, StartFirst, StartClaimed
    <3>2. claims[k].req # None
      BY <3>1, PlannerAssumption DEF Requests
    <3>3. claims'[k].req = claims[k].req
      BY <2>1, <3>2 DEF RowsKept
    <3> QED  BY <3>1, <3>3 DEF StartClaimed
  <2>9. StartFirst'
    BY <2>7, <2>8 DEF StartFirst
  <2>10. \A o \in Procs : o # p /\ guard = o /\ proc[o].pc \in Working
                            /\ proc[o].job.kind = "start" => Owns(o, proc[o].job.req)'
    <3> SUFFICES ASSUME NEW o \in Procs, guard = o, proc[o].pc \in Working,
                        proc[o].job.kind = "start"
                 PROVE  Owns(o, proc[o].job.req)'
      OBVIOUS
    <3>1. Owns(o, proc[o].job.req) /\ Knows(o)
      BY DEF PlannerInv, HolderKnows, Holds, ProcsKnow
    <3>2. /\ proc[o].job.req \in Starts /\ Key[proc[o].job.req] \in Keys
          /\ claims[Key[proc[o].job.req]].req = proc[o].job.req
      BY <3>1, JobTyped DEF Knows, Working
    <3>3. Starting
      BY <3>1, <3>2 DEF Owns, Starting
    <3> QED  BY <2>6, <3>3
  <2> QED  BY <1>1, <1>2, <2>1, <2>2, <2>3, <2>5, <2>9, <2>10, TablesKeep
<1> QED  BY <1>4, <1>5 DEF resume

\* Only the owner of a claim completes it, with what its own request produced.
LEMMA CompleteKeeps ==
    ASSUME PlannerInv, NEW p \in Procs, Complete(p), lost' = lost
    PROVE  /\ PlannerInv'
           /\ \/ UNCHANGED claims
              \/ \E a \in Requests :
                   /\ a \in Resumes => a \in used
                   /\ claims[Key[a]].state = "in_progress" /\ claims[Key[a]].req = a
                   /\ claims'[Key[a]].state = "completed" /\ claims'[Key[a]].req = a
                   /\ \A k \in Keys : k # Key[a] => claims'[k] = claims[k]
<1> DEFINE q == proc[p].job.req
           j == proc[p].job
           s == proc[p].seen
<1>1. proc[p].pc = "ran" /\ finalize(p, q) /\ Finish(p) /\ UNCHANGED checkpoints
  BY DEF Complete
<1>2. TypeOK /\ Knows(p) /\ lost' \in 0 .. MaxLost /\ s \in Checkpoints
  BY DEF PlannerInv, ProcsKnow, TypeOK
<1>3. /\ j \in Jobs /\ j.kind \in {"start", "resume"} /\ claims[Key[q]].req = q
      /\ q \in Requests /\ Key[q] \in Keys /\ (j.kind = "resume" <=> q \in Resumes)
  BY <1>1, <1>2, JobTyped DEF Knows, Working
<1>4. /\ s.pending # NoInterrupt \/ s.status # "planning"
      /\ s.consumed = IF q \in Resumes THEN q ELSE None
  BY <1>1, <1>2, <1>3 DEF Knows
<1>5. CASE ~Owns(p, q)
  BY <1>1, <1>5, FinishKeeps DEF finalize, tables
<1>6. CASE Owns(p, q)
  <2>1. /\ claims' = [claims EXCEPT ![Key[q]].state = "completed", ![Key[q]].response = s]
        /\ UNCHANGED bindings
    BY <1>1, <1>6 DEF finalize
  <2>2. /\ claims' \in [Keys -> Claims]
        /\ \A k \in Keys : k # Key[q] => claims'[k] = claims[k]
        /\ claims'[Key[q]].state = "completed" /\ claims'[Key[q]].req = q
        /\ claims'[Key[q]].response = s
    <3> DEFINE row == [claims[Key[q]] EXCEPT !.state = "completed", !.response = s]
    <3>1. claims[Key[q]] \in Claims
      BY <1>2, <1>3 DEF TypeOK
    <3>2. row \in Claims /\ row.state = "completed" /\ row.req = q /\ row.response = s
      BY <1>2, <1>3, <3>1 DEF Claims
    <3>3. claims' = [claims EXCEPT ![Key[q]] = row]
      BY <1>2, <1>3, <2>1 DEF TypeOK, Claims
    <3> HIDE DEF row
    <3> QED  BY <1>2, <1>3, <3>2, <3>3 DEF TypeOK
  <2>3. claims[Key[q]].state = "in_progress" /\ claims[Key[q]].token = p
    BY <1>6 DEF Owns
  <2>4. RowsKept
    BY <1>3, <2>2, <2>3 DEF RowsKept
  <2>5. RowsNamed'
    BY <1>3, <2>2, KeyTyped DEF PlannerInv, RowsNamed, None
  <2>6. ResponseFaithful'
    BY <1>4, <2>2 DEF PlannerInv, ResponseFaithful
  <2>7. /\ proc' \in [Procs -> Process] /\ proc'[p] = Idle
        /\ \A o \in Procs : o # p => proc'[o] = proc[o]
        /\ guard' \in {p, guard, None} /\ guard' # p
        /\ Knows(p)' /\ proc'[p].pc = "idle"
    BY <1>1, <1>2, FinishedProcess
  <2>8. StartFirst'
    <3>1. StartClaimed /\ (StartClaimed' <=> StartClaimed)
      BY <1>1, <1>3, <2>2 DEF PlannerInv, StartFirst, StartClaimed
    <3>2. Starting' => Starting
      BY <2>2 DEF Starting
    <3>3. \A k \in Keys : claims'[k].req = claims[k].req
      BY <1>3, <2>2
    <3>4. \A o \in Procs : proc'[o].pc \in Working => proc'[o] = proc[o]
      BY <2>7 DEF Working
    <3> QED  BY <1>1, <3>1, <3>2, <3>3, <3>4 DEF PlannerInv, StartFirst, checkpoints
  <2>9. \A o \in Procs : o # p /\ guard = o /\ proc[o].pc \in Working
                           /\ proc[o].job.kind = "start" => Owns(o, proc[o].job.req)'
    <3> SUFFICES ASSUME NEW o \in Procs, o # p, guard = o, proc[o].pc \in Working,
                        proc[o].job.kind = "start"
                 PROVE  Owns(o, proc[o].job.req)'
      OBVIOUS
    <3>1. Owns(o, proc[o].job.req) /\ Knows(o)
      BY DEF PlannerInv, HolderKnows, Holds, ProcsKnow
    <3>2. Key[proc[o].job.req] \in Keys
      BY <3>1, JobTyped DEF Knows, Working
    <3>3. Key[proc[o].job.req] # Key[q]
      BY <2>3, <3>1 DEF Owns
    <3>4. claims'[Key[proc[o].job.req]] = claims[Key[proc[o].job.req]]
      BY <2>2, <3>2, <3>3
    <3>5. proc'[o].job.req = proc[o].job.req
      BY <2>7
    <3> QED  BY <3>1, <3>4, <3>5 DEF Owns
  <2>10. PlannerInv'
    BY <1>1, <1>2, <2>1, <2>2, <2>4, <2>5, <2>6, <2>7, <2>8, <2>9, TablesKeep DEF TypeOK
  <2>11. q \in Resumes => q \in used
    BY <1>1, <1>2, <1>3 DEF Knows
  <2> QED  BY <1>3, <2>2, <2>3, <2>10, <2>11
<1> QED  BY <1>5, <1>6

\* A beat of the heartbeat, and the end of a lease, touch nothing but the lease.
LEMMA LiveKeeps ==
    ASSUME PlannerInv, NEW k \in Keys, NEW b \in BOOLEAN,
           claims' = [claims EXCEPT ![k].live = b],
           UNCHANGED <<checkpoints, bindings, guard, proc, lost>>
    PROVE  /\ PlannerInv'
           /\ \A n \in Keys : claims'[n].state = claims[n].state /\ claims'[n].req = claims[n].req
<1> USE DEF PlannerInv
<1> DEFINE row == [claims[k] EXCEPT !.live = b]
<1>1. row \in Claims /\ row.state = claims[k].state /\ row.req = claims[k].req
      /\ row.token = claims[k].token /\ row.response = claims[k].response
  BY DEF TypeOK, Claims
<1>2. claims' = [claims EXCEPT ![k] = row]
  BY DEF TypeOK, Claims
<1> HIDE DEF row
<1>3. claims' \in [Keys -> Claims]
  BY <1>1, <1>2 DEF TypeOK
<1>4. \A n \in Keys : /\ claims'[n].state = claims[n].state /\ claims'[n].req = claims[n].req
                      /\ claims'[n].token = claims[n].token
                      /\ claims'[n].response = claims[n].response
  BY <1>1, <1>2 DEF TypeOK
<1>5. UNCHANGED <<cp, preResume, used, bindings, guard, proc, lost>>
  BY DEF checkpoints
<1>6. TypeOK'
  BY <1>3, <1>5 DEF TypeOK
<1>7. Earned(cp)' /\ PreResumeSaved' /\ DigestsOrdered'
  BY <1>5 DEF Earned, PreResumeSaved, Saved, DigestsOrdered
<1>8. RowsNamed' /\ ResponseFaithful'
  BY <1>4 DEF RowsNamed, ResponseFaithful
<1>9. RowsKept
  BY <1>4 DEF RowsKept
<1>10. TakenAbandoned'
  <2>1. \A r \in used : Abandoned(r) => Abandoned(r)'
    BY <1>9, AbandonedKept DEF TypeOK
  <2> QED  BY <1>5, <2>1 DEF TakenAbandoned
<1>11. ProcsKnow'
  BY <1>5, <1>9, KnowsKept DEF ProcsKnow
<1>12. HolderKnows'
  <2> SUFFICES ASSUME NEW o \in Procs, guard' = o PROVE Holds(o)'
    BY DEF HolderKnows
  <2>1. Holds(o) /\ Knows(o)
    BY <1>5 DEF HolderKnows, ProcsKnow
  <2>2. proc[o].pc \in Working => Key[proc[o].job.req] \in Keys
    BY <2>1, JobTyped DEF Knows, Working
  <2>3. proc[o].pc \in Working /\ proc[o].job.kind = "start" => Owns(o, proc[o].job.req)'
    BY <1>4, <1>5, <2>1, <2>2 DEF Holds, Owns
  <2> QED  BY <1>5, <2>1, <2>3, HoldsKept
<1>13. StartFirst'
  <2>1. (StartClaimed' <=> StartClaimed) /\ (Starting' <=> Starting)
    BY <1>4 DEF StartClaimed, Starting
  <2> QED  BY <1>4, <1>5, <2>1 DEF StartFirst
<1> QED  BY <1>4, <1>6, <1>7, <1>8, <1>10, <1>11, <1>12, <1>13

\* One beat of the heartbeat.
LEMMA HeartbeatKeeps ==
    ASSUME PlannerInv, NEW p \in Procs, _with_heartbeat(p), lost' = lost
    PROVE  /\ PlannerInv'
           /\ \A n \in Keys : claims'[n].state = claims[n].state /\ claims'[n].req = claims[n].req
<1> DEFINE q == proc[p].job.req
<1>1. proc[p].pc \in Working /\ UNCHANGED <<checkpoints, bindings>>
  BY DEF _with_heartbeat, Working
<1>2. Key[q] \in Keys
  BY <1>1, JobTyped DEF PlannerInv, ProcsKnow, Knows, Working
<1>3. CASE Owns(p, q)
  BY <1>1, <1>2, <1>3, LiveKeeps DEF _with_heartbeat
<1>4. CASE ~Owns(p, q)
  <2>1. Finish(p) /\ UNCHANGED <<checkpoints, tables, lost>>
    BY <1>1, <1>4 DEF _with_heartbeat, tables
  <2> QED  BY <2>1, FinishKeeps DEF tables
<1> QED  BY <1>3, <1>4

\* A tombstone goes to the row of the request it names, and only while it has no response.
LEMMA TombstoneKeeps ==
    ASSUME PlannerInv, NEW p \in Procs, Tombstone(p), lost' = lost
    PROVE  /\ PlannerInv'
           /\ \/ UNCHANGED tables
              \/ /\ proc[p].job.req \in Resumes
                 /\ claims[Key[proc[p].job.req]].state # "completed"
                 /\ claims[Key[proc[p].job.req]].req = proc[p].job.req
                 /\ claims'[Key[proc[p].job.req]].state = "abandoned"
                 /\ claims'[Key[proc[p].job.req]].req = proc[p].job.req
                 /\ \A k \in Keys : k # Key[proc[p].job.req] => claims'[k] = claims[k]
<1> DEFINE r == proc[p].job.req
<1>1. proc[p].pc \in {"abandon", "target"} /\ UNCHANGED checkpoints
  BY DEF Tombstone
<1>2. TypeOK /\ Knows(p) /\ lost' \in 0 .. MaxLost /\ UNCHANGED <<cp, used>>
  BY <1>1 DEF PlannerInv, ProcsKnow, TypeOK, checkpoints
<1>3. /\ proc[p].job \in Jobs /\ proc[p].job.kind = "abandon" /\ ~proc[p].fresh
      /\ r \in Resumes /\ r \in Requests /\ r \notin Starts /\ Key[r] \in Keys /\ r # None
  BY <1>1, <1>2, JobTyped, AnswerTyped DEF Knows
<1>4. CASE Finish(p) /\ UNCHANGED tables
  BY <1>1, <1>4, FinishKeeps
<1>5. CASE /\ abandon_resume(r)
           /\ IF proc[p].pc = "target" THEN Goto(p, "rewind") ELSE Finish(p)
  <2> DEFINE row == [NoClaim EXCEPT !.state = "abandoned", !.req = r]
  <2>1. row \in Claims /\ row.state = "abandoned" /\ row.req = r
    BY <1>3, IdleTyped DEF NoClaim, Claims
  <2>2. claims' = [claims EXCEPT ![Key[r]] = row] /\ UNCHANGED bindings /\ Abandonable(r)
    BY <1>5 DEF abandon_resume
  <2> HIDE DEF row
  <2>3. /\ claims' \in [Keys -> Claims] /\ claims'[Key[r]] = row
        /\ \A k \in Keys : k # Key[r] => claims'[k] = claims[k]
    BY <1>2, <1>3, <2>1, <2>2 DEF TypeOK
  <2>4. claims[Key[r]].req = r /\ claims[Key[r]].state \in {"in_progress", "abandoned"}
    BY <2>2 DEF Abandonable
  <2>5. /\ claims'[Key[r]].state = "abandoned" /\ claims'[Key[r]].req = r
        /\ claims[Key[r]].state # "completed"
    BY <2>1, <2>3, <2>4
  <2>6. RowsKept /\ RowsNamed'
    BY <1>3, <2>1, <2>3, <2>4 DEF RowsKept, PlannerInv, RowsNamed, None
  <2>7. ResponseFaithful'
    BY <2>1, <2>3 DEF PlannerInv, ResponseFaithful
  <2>8. /\ proc' \in [Procs -> Process] /\ guard' \in {guard, None}
        /\ \A o \in Procs : o # p => proc'[o] = proc[o]
        /\ proc'[p].pc \notin Working /\ Knows(p)' /\ (guard' = p => Holds(p)')
    <3>1. CASE proc[p].pc = "target"
      <4>1. /\ proc' \in [Procs -> Process] /\ guard' = guard
            /\ \A o \in Procs : o # p => proc'[o] = proc[o]
            /\ proc'[p].pc = "rewind" /\ proc'[p].job = proc[p].job
            /\ proc'[p].fresh = proc[p].fresh /\ proc'[p].seen = proc[p].seen
        BY <1>2, <1>5, <3>1 DEF Goto, TypeOK, Process, Places
      <4>2. Knows(p)'
        BY <1>2, <1>3, <2>5, <3>1, <4>1 DEF Knows, Working, Saved, Abandoned
      <4>3. guard' = p => Holds(p)'
        BY <1>2, <1>3, <3>1, <4>1 DEF PlannerInv, HolderKnows, Holds, Working
      <4> QED  BY <4>1, <4>2, <4>3 DEF Working
    <3>2. CASE proc[p].pc # "target"
      <4>1. Finish(p)
        BY <1>5, <3>2
      <4>2. guard' \in {guard, None}
        BY <4>1 DEF Finish
      <4> QED  BY <1>2, <4>1, <4>2, FinishedProcess DEF Working
    <3> QED  BY <3>1, <3>2
  <2>9. \A k \in Keys : claims'[k].req = claims[k].req
    BY <2>1, <2>3, <2>4
  <2>10. StartFirst'
    <3>1. StartClaimed /\ (StartClaimed' <=> StartClaimed)
      BY <1>1, <2>9 DEF PlannerInv, StartFirst, StartClaimed
    <3>2. Starting' => Starting
      BY <2>1, <2>3 DEF Starting
    <3>3. \A o \in Procs : proc'[o].pc \in Working => proc'[o] = proc[o]
      BY <2>8
    <3> QED  BY <1>2, <2>9, <3>1, <3>2, <3>3 DEF PlannerInv, StartFirst
  <2>11. \A o \in Procs : o # p /\ guard = o /\ proc[o].pc \in Working
                            /\ proc[o].job.kind = "start" => Owns(o, proc[o].job.req)'
    <3> SUFFICES ASSUME NEW o \in Procs, o # p, guard = o, proc[o].pc \in Working,
                        proc[o].job.kind = "start"
                 PROVE  Owns(o, proc[o].job.req)'
      OBVIOUS
    <3>1. Owns(o, proc[o].job.req) /\ Knows(o)
      BY DEF PlannerInv, HolderKnows, Holds, ProcsKnow
    <3>2. /\ proc[o].job.req \in Starts /\ Key[proc[o].job.req] \in Keys
          /\ claims[Key[proc[o].job.req]].req = proc[o].job.req
      BY <3>1, JobTyped DEF Knows, Working
    <3>3. Key[proc[o].job.req] # Key[r]
      BY <1>3, <2>4, <3>2
    <3>4. claims'[Key[proc[o].job.req]] = claims[Key[proc[o].job.req]]
      BY <2>3, <3>2, <3>3
    <3>5. proc'[o].job.req = proc[o].job.req
      BY <2>8
    <3> QED  BY <3>1, <3>4, <3>5 DEF Owns
  <2>12. guard' \in {p, guard, None} /\ (guard' = p => guard \in {p, None})
    BY <2>8, PlannerAssumption
  <2>13. bindings' \in [Comments -> Resumes \union {None}]
    BY <1>2, <2>2 DEF TypeOK
  <2>14. PlannerInv'
    BY <1>1, <1>2, <2>3, <2>6, <2>7, <2>8, <2>10, <2>11, <2>12, <2>13, TablesKeep
  <2> QED  BY <1>3, <2>3, <2>4, <2>5, <2>14
<1> QED  BY <1>4, <1>5 DEF Tombstone

-----------------------------------------------------------------------------
(* The invariant always holds.                                             *)

\* A new thread, and one that an earlier release left with a failed critique.
LEMMA PlannerInitially == Init => PlannerInv
<1> SUFFICES ASSUME Init PROVE PlannerInv
  OBVIOUS
<1>1. /\ preResume = [i \in Interrupts |-> NoState] /\ guard = None
      /\ proc = [p \in Procs |-> Idle] /\ lost = 0
  BY DEF Init
<1>2. /\ preResume \in [Interrupts -> Checkpoints] /\ guard \in Procs \union {None}
      /\ proc \in [Procs -> Process] /\ lost \in 0 .. MaxLost
      /\ \A p \in Procs : proc[p].pc = "idle" /\ ~proc[p].fresh
  BY <1>1, IdleTyped, PlannerAssumption
<1>3. PreResumeSaved /\ HolderKnows
  BY <1>1, PlannerAssumption DEF PreResumeSaved, HolderKnows
<1>4. ProcsKnow
  BY <1>2 DEF ProcsKnow, Knows, Working
<1>5. NoClaim \in Claims /\ NoClaim.state = None /\ NoClaim.req = None
  BY IdleTyped DEF NoClaim, Claims
<1>6. CASE Fresh
  <2>1. /\ cp = NoState /\ claims = [k \in Keys |-> NoClaim]
        /\ bindings = [c \in Comments |-> None] /\ used = {}
    BY <1>6 DEF Fresh
  <2>2. TypeOK
    BY <1>2, <1>5, <2>1, IdleTyped DEF TypeOK, Process
  <2>3. Earned(cp)
    BY <2>1 DEF Earned, NoState, Waits, Opening, None
  <2>4. DigestsOrdered /\ TakenAbandoned
    BY <2>1, IdleTyped, InterruptsDistinct DEF DigestsOrdered, TakenAbandoned
  <2>5. RowsNamed /\ ResponseFaithful
    BY <1>5, <2>1 DEF RowsNamed, ResponseFaithful, None
  <2>6. StartFirst
    <3>1. \A k \in Keys : claims[k].state = None /\ claims[k].req = None
      BY <1>5, <2>1
    <3>2. ~Starting
      BY <3>1 DEF Starting, None
    <3> QED  BY <1>2, <2>1, <3>1, <3>2 DEF StartFirst
  <2> QED  BY <1>3, <1>4, <2>2, <2>3, <2>4, <2>5, <2>6 DEF PlannerInv
<1>7. CASE \E s \in Starts, r \in Resumes : Legacy(s, r)
  <2>1. PICK s \in Starts, r \in Resumes : Legacy(s, r)
    BY <1>7
  <2> DEFINE c == FailedCritique(r)
             asked == [NoClaim EXCEPT !.state = "completed", !.req = s,
                                      !.response = [NoState EXCEPT !.pending = Questions]]
             failed == [NoClaim EXCEPT !.state = "completed", !.req = r,
                                       !.response = _response_from_state(c)]
  <2>2. /\ Key[s] # Key[r] /\ Answers[r] = Questions /\ cp = c /\ used = {r}
        /\ claims = [k \in Keys |-> IF k = Key[s] THEN asked
                                    ELSE IF k = Key[r] THEN failed ELSE NoClaim]
        /\ bindings = [m \in Comments |-> IF m = Comment[r] THEN r ELSE None]
    BY <2>1 DEF Legacy
  <2>3. /\ s \in Requests /\ s \notin Resumes /\ s # None /\ Key[s] \in Keys
        /\ r \in Requests /\ r \notin Starts /\ r # None /\ Key[r] \in Keys
    BY AnswerTyped, KeyTyped, PlannerAssumption DEF Requests
  <2>4. /\ c \in Checkpoints /\ c.next = "END" /\ c.pending = NoInterrupt /\ c.consumed = r
        /\ c.status = "failed" /\ ~c.artifacts
    BY IdleTyped DEF FailedCritique, NoState, Checkpoints
  <2>5. /\ failed \in Claims /\ failed.state = "completed" /\ failed.req = r
        /\ failed.response.status = "failed" /\ failed.response.consumed = r
    <3> HIDE DEF c
    <3>1. /\ _response_from_state(c) \in Checkpoints
          /\ _response_from_state(c).status = "failed" /\ _response_from_state(c).consumed = r
      BY <2>4, ResponseFields
    <3> QED  BY <2>3, <3>1 DEF NoClaim, Claims
  <2>6. /\ asked \in Claims /\ asked.state = "completed" /\ asked.req = s
        /\ asked.response.pending = Questions /\ asked.response.consumed = None
    <3> DEFINE n == [NoState EXCEPT !.pending = Questions]
    <3>1. n \in Checkpoints /\ n.pending = Questions /\ n.consumed = None
      BY IdleTyped, InterruptsDistinct DEF NoState, Checkpoints
    <3>2. asked = [NoClaim EXCEPT !.state = "completed", !.req = s, !.response = n]
      OBVIOUS
    <3> HIDE DEF n, asked
    <3> QED  BY <2>3, <3>1, <3>2 DEF NoClaim, Claims
  <2> HIDE DEF c, asked, failed
  <2>7. claims \in [Keys -> Claims] /\ bindings \in [Comments -> Resumes \union {None}]
    BY <1>5, <2>2, <2>5, <2>6
  <2>8. TypeOK
    BY <1>2, <2>2, <2>4, <2>7 DEF TypeOK, Process
  <2>9. Earned(cp)
    BY <2>2, <2>4 DEF Earned, Waits, Opening, None
  <2>10. DigestsOrdered
    BY <2>2, <2>3, <2>4, InterruptsDistinct DEF DigestsOrdered
  <2>11. TakenAbandoned
    BY <2>2, <2>4, AnswerTyped DEF TakenAbandoned
  <2>12. RowsNamed
    BY <1>5, <2>2, <2>3, <2>5, <2>6 DEF RowsNamed, None
  <2>13. ResponseFaithful
    BY <1>5, <2>2, <2>3, <2>5, <2>6, InterruptsDistinct DEF ResponseFaithful, None
  <2>14. StartClaimed /\ ~Starting
    BY <1>5, <2>2, <2>3, <2>5, <2>6 DEF StartClaimed, Starting, None
  <2> QED  BY <1>3, <1>4, <2>8, <2>9, <2>10, <2>11, <2>12, <2>13, <2>14 DEF PlannerInv, StartFirst
<1> QED  BY <1>6, <1>7 DEF Init

\* Every step keeps the invariant.
LEMMA PlannerStep == PlannerInv /\ [Next]_vars => PlannerInv'
<1> SUFFICES ASSUME PlannerInv, [Next]_vars PROVE PlannerInv'
  OBVIOUS
<1>1. ASSUME NEW p \in Procs, Step(p), lost' = lost PROVE PlannerInv'
  <2>1. ASSUME NEW q \in Starts, start(p, q) PROVE PlannerInv'
    BY <1>1, <2>1, StartKeeps
  <2>2. CASE _run_or_recover_start(p)
    BY <1>1, <2>2, RunOrRecoverStartKeeps
  <2>3. ASSUME NEW r \in Resumes, ReadForResume(p, r) PROVE PlannerInv'
    BY <1>1, <2>3, ReadForResumeKeeps
  <2>4. ASSUME NEW r \in Resumes, ReadForAbandon(p, r) PROVE PlannerInv'
    BY <1>1, <2>4, ReadForAbandonKeeps
  <2>5. ASSUME NEW r \in Resumes, convert_failed_critique_to_interrupt(p, r) PROVE PlannerInv'
    BY <1>1, <2>5, ConvertKeeps
  <2>6. CASE resume(p)
    BY <1>1, <2>6, ResumeKeeps
  <2>7. CASE _run_or_recover_resume(p)
    BY <1>1, <2>7, RunOrRecoverResumeKeeps
  <2>8. CASE RunNode(p)
    BY <1>1, <2>8, RunNodeKeeps
  <2>9. CASE Respond(p)
    BY <1>1, <2>9, RespondKeeps
  <2>10. CASE Complete(p)
    BY <1>1, <2>10, CompleteKeeps
  <2>11. CASE _with_heartbeat(p)
    BY <1>1, <2>11, HeartbeatKeeps
  <2>12. CASE Tombstone(p)
    BY <1>1, <2>12, TombstoneKeeps
  <2>13. CASE Rewind(p)
    BY <1>1, <2>13, RewindKeeps
  <2>14. CASE Abort(p)
    BY <1>1, <2>14, AbortKeeps
  <2> QED  BY <1>1, <2>1, <2>2, <2>3, <2>4, <2>5, <2>6, <2>7, <2>8, <2>9, <2>10, <2>11,
              <2>12, <2>13, <2>14 DEF Step
<1>2. ASSUME NEW k \in Keys, ExpireLease(k), lost' = lost PROVE PlannerInv'
  <2> DEFINE b == FALSE
  <2>1. /\ claims' = [claims EXCEPT ![k].live = b] /\ b \in BOOLEAN
        /\ UNCHANGED <<checkpoints, bindings, guard, proc, lost>>
    BY <1>2 DEF ExpireLease
  <2> HIDE DEF b
  <2> QED  BY <2>1, LiveKeeps
<1>3. ASSUME NEW p \in Procs, LoseConnection(p) PROVE PlannerInv'
  BY <1>3, LoseConnectionKeeps
<1>4. CASE UNCHANGED vars
  <2>1. UNCHANGED <<cp, preResume, used, claims, bindings, guard, proc, lost>>
    BY <1>4 DEF vars, checkpoints, tables
  <2> QED  BY <2>1 DEF PlannerInv, TypeOK, Earned, PreResumeSaved, Saved, DigestsOrdered,
                       TakenAbandoned, Abandoned, RowsNamed, ResponseFaithful, ProcsKnow, Knows,
                       HolderKnows, Holds, Owns, StartFirst, StartClaimed, Starting
<1> QED  BY <1>1, <1>2, <1>3, <1>4 DEF Next

\* The invariant holds in every reachable state.
LEMMA PlannerAlways == Spec => []PlannerInv
BY PlannerInitially, PlannerStep, PTL DEF Spec

-----------------------------------------------------------------------------
(* What follows.                                                           *)

\* Every row, checkpoint and process the service writes is one it can read.
THEOREM PlannerTypeCorrect == Spec => []TypeOK
BY PlannerAlways, PTL DEF PlannerInv

\* Artifacts come only from an accepted and valid draft, on every path of the graph,
\* of the recovery and of the corrections.
THEOREM ArtifactsEarnedAlways == Spec => []ArtifactsEarned
<1>1. PlannerInv => ArtifactsEarned
  BY DEF PlannerInv, Earned, Waits, ArtifactsEarned
<1> QED  BY <1>1, PlannerAlways, PTL

\* A durable response is the one its own request produced: no process finalizes for
\* another, whatever locks and leases were lost on the way.
THEOREM ResponseFaithfulAlways == Spec => []ResponseFaithful
BY PlannerAlways, PTL DEF PlannerInv

-----------------------------------------------------------------------------
(* The refinement.                                                         *)

\* The abandoned and the settled requests of the abstract thread.
Dead == {r \in Resumes : claims[Key[r]].state = "abandoned" /\ claims[Key[r]].req = r}
Settled == {r \in Resumes : claims[Key[r]].state = "completed" /\ claims[Key[r]].req = r}

\* A row that is neither abandoned nor completed, before and after, is none of the thread's.
LEMMA RowsQuiet ==
    ASSUME NEW n \in Keys, \A k \in Keys : k # n => claims'[k] = claims[k],
           claims[n].state \notin {"abandoned", "completed"},
           claims'[n].state \notin {"abandoned", "completed"}
    PROVE  UNCHANGED <<Dead, Settled>>
<1>1. \A r \in Resumes : Key[r] \in Keys
  BY AnswerTyped
<1>2. \A r \in Resumes : r \in Dead' <=> r \in Dead
  BY <1>1 DEF Dead
<1>3. \A r \in Resumes : r \in Settled' <=> r \in Settled
  BY <1>1 DEF Settled
<1>4. Dead \subseteq Resumes /\ Settled \subseteq Resumes
      /\ Dead' \subseteq Resumes /\ Settled' \subseteq Resumes
  BY DEF Dead, Settled
<1> QED  BY <1>2, <1>3, <1>4

\* The same for rows whose lease is all that changed.
LEMMA LeasesQuiet ==
    ASSUME \A n \in Keys : claims'[n].state = claims[n].state /\ claims'[n].req = claims[n].req
    PROVE  UNCHANGED <<Dead, Settled>>
<1>1. \A r \in Resumes : Key[r] \in Keys
  BY AnswerTyped
<1> QED  BY <1>1 DEF Dead, Settled

\* A step that leaves the interrupt, the answers and the outcomes alone is none of the
\* abstract thread.
LEMMA ThreadStutters ==
    ASSUME cp'.pending = cp.pending, cp'.consumed = cp.consumed, used' = used,
           UNCHANGED <<Dead, Settled>>
    PROVE  [Thread!Next]_(Thread!vars)
BY DEF Thread!vars, Dead, Settled

\* A new thread maps to a new one, and the thread of an earlier release to one whose
\* answer is settled.
LEMMA ThreadInitially == Init => Thread!Init
<1> SUFFICES ASSUME Init PROVE Thread!Init
  OBVIOUS
<1>1. \A r \in Resumes : Key[r] \in Keys
  BY AnswerTyped
<1>2. NoClaim.state = None /\ NoClaim.req = None
  BY DEF NoClaim
<1>3. CASE Fresh
  <2>1. cp = NoState /\ claims = [k \in Keys |-> NoClaim] /\ used = {}
    BY <1>3 DEF Fresh
  <2>2. Dead = {} /\ Settled = {}
    BY <1>1, <1>2, <2>1 DEF Dead, Settled, None
  <2> QED  BY <2>1, <2>2, IdleTyped DEF Thread!Init, Dead, Settled
<1>4. CASE \E s \in Starts, r \in Resumes : Legacy(s, r)
  <2>1. PICK s \in Starts, r \in Resumes : Legacy(s, r)
    BY <1>4
  <2>2. /\ Key[s] # Key[r] /\ used = {r} /\ s \notin Resumes
    BY <2>1, PlannerAssumption DEF Legacy
  <2>3. cp.pending = NoInterrupt /\ cp.consumed = r
    BY <2>1, IdleTyped DEF Legacy, FailedCritique, NoState
  <2>4. \A k \in Keys :
          /\ claims[k].state \in {None, "completed"}
          /\ claims[k].state = "completed" <=> k \in {Key[s], Key[r]}
          /\ claims[k].req = IF k = Key[s] THEN s ELSE IF k = Key[r] THEN r ELSE None
    <3> SUFFICES ASSUME NEW k \in Keys
                 PROVE  /\ claims[k].state \in {None, "completed"}
                        /\ claims[k].state = "completed" <=> k \in {Key[s], Key[r]}
                        /\ claims[k].req = IF k = Key[s] THEN s ELSE IF k = Key[r] THEN r ELSE None
      OBVIOUS
    <3>1. CASE k = Key[s]
      BY <2>1, <3>1 DEF Legacy, NoClaim
    <3>2. CASE k # Key[s] /\ k = Key[r]
      BY <2>1, <3>2 DEF Legacy, NoClaim
    <3>3. CASE k # Key[s] /\ k # Key[r]
      BY <1>2, <2>1, <3>3 DEF Legacy, None
    <3> QED  BY <3>1, <3>2, <3>3
  <2>5. Dead = {}
    BY <1>1, <2>4 DEF Dead, None
  <2>6. Settled = {r}
    <3>1. r \in Settled
      BY <1>1, <2>2, <2>4 DEF Settled
    <3>2. \A a \in Settled : a = r
      BY <1>1, <2>2, <2>4, AnswerTyped DEF Settled
    <3> QED  BY <3>1, <3>2
  <2> QED  BY <2>2, <2>3, <2>5, <2>6 DEF Thread!Init, Dead, Settled
<1> QED  BY <1>3, <1>4 DEF Init

\* Nodes that raise an interrupt and nodes that take an answer are steps of the thread.
LEMMA RunNodeRefines ==
    ASSUME PlannerInv, NEW p \in Procs, RunNode(p), lost' = lost
    PROVE  [Thread!Next]_(Thread!vars)
<1>1. UNCHANGED <<Dead, Settled>>
  BY RunNodeKeeps DEF Dead, Settled
<1>2. CASE UNCHANGED used /\ cp'.pending = cp.pending /\ cp'.consumed = cp.consumed
  BY <1>1, <1>2, ThreadStutters
<1>3. CASE /\ UNCHANGED used /\ cp'.consumed = cp.consumed
           /\ cp.pending = NoInterrupt /\ cp'.pending \in Interrupts
  <2>1. Thread!Raise(cp'.pending)
    BY <1>1, <1>3 DEF Thread!Raise, Dead, Settled
  <2> QED  BY <1>3, <2>1 DEF Thread!Next
<1>4. CASE \E a \in Resumes : /\ cp.pending = Answers[a] /\ a \notin used
                              /\ cp'.pending = NoInterrupt /\ cp'.consumed = a
                              /\ used' = used \union {a}
  <2>1. PICK a \in Resumes : /\ cp.pending = Answers[a] /\ a \notin used
                             /\ cp'.pending = NoInterrupt /\ cp'.consumed = a
                             /\ used' = used \union {a}
    BY <1>4
  <2>2. Thread!Take(a)
    BY <1>1, <2>1 DEF Thread!Take, Dead, Settled
  <2> QED  BY <2>2 DEF Thread!Next
<1> QED  BY <1>2, <1>3, <1>4, RunNodeKeeps

\* A completed resume request is settled; a completed start request is not the thread's.
LEMMA CompleteRefines ==
    ASSUME PlannerInv, NEW p \in Procs, Complete(p), lost' = lost
    PROVE  [Thread!Next]_(Thread!vars)
<1>1. UNCHANGED <<cp, used>>
  BY DEF Complete, checkpoints
<1>2. CASE UNCHANGED claims
  BY <1>1, <1>2, ThreadStutters DEF Dead, Settled
<1>3. CASE \E a \in Requests :
             /\ a \in Resumes => a \in used
             /\ claims[Key[a]].state = "in_progress" /\ claims[Key[a]].req = a
             /\ claims'[Key[a]].state = "completed" /\ claims'[Key[a]].req = a
             /\ \A k \in Keys : k # Key[a] => claims'[k] = claims[k]
  <2>1. PICK a \in Requests :
             /\ a \in Resumes => a \in used
             /\ claims[Key[a]].state = "in_progress" /\ claims[Key[a]].req = a
             /\ claims'[Key[a]].state = "completed" /\ claims'[Key[a]].req = a
             /\ \A k \in Keys : k # Key[a] => claims'[k] = claims[k]
    BY <1>3
  <2>2. \A r \in Resumes : Key[r] \in Keys
    BY AnswerTyped
  <2>3. \A r \in Resumes : r \in Dead' <=> r \in Dead
    BY <2>1, <2>2 DEF Dead
  <2>4. \A r \in Resumes : r \in Settled' <=> r \in Settled \/ r = a
    BY <2>1, <2>2 DEF Settled
  <2>5. Dead \subseteq Resumes /\ Settled \subseteq Resumes
        /\ Dead' \subseteq Resumes /\ Settled' \subseteq Resumes
    BY DEF Dead, Settled
  <2>6. Dead' = Dead
    BY <2>3, <2>5
  <2>7. CASE a \in Resumes
    <3>1. Settled' = Settled \union {a}
      BY <2>4, <2>5, <2>7
    <3>2. a \in used /\ a \notin Dead
      BY <2>1, <2>7 DEF Dead
    <3>3. Thread!Settle(a)
      BY <1>1, <2>6, <3>1, <3>2 DEF Thread!Settle, Dead, Settled
    <3> QED  BY <2>7, <3>3 DEF Thread!Next
  <2>8. CASE a \notin Resumes
    <3>1. Settled' = Settled
      BY <2>4, <2>5, <2>8
    <3> QED  BY <1>1, <2>6, <3>1, ThreadStutters
  <2> QED  BY <2>7, <2>8
<1> QED  BY <1>2, <1>3, CompleteKeeps

\* A tombstone abandons a request that is not settled.
LEMMA TombstoneRefines ==
    ASSUME PlannerInv, NEW p \in Procs, Tombstone(p), lost' = lost
    PROVE  [Thread!Next]_(Thread!vars)
<1>1. UNCHANGED <<cp, used>>
  BY DEF Tombstone, checkpoints
<1>2. CASE UNCHANGED tables
  BY <1>1, <1>2, ThreadStutters DEF Dead, Settled, tables
<1>3. ASSUME NEW a \in Resumes, a = proc[p].job.req,
              claims[Key[a]].state # "completed", claims[Key[a]].req = a,
              claims'[Key[a]].state = "abandoned", claims'[Key[a]].req = a,
              \A k \in Keys : k # Key[a] => claims'[k] = claims[k]
      PROVE  [Thread!Next]_(Thread!vars)
  <2>1. \A r \in Resumes : Key[r] \in Keys
    BY AnswerTyped
  <2>2. \A r \in Resumes : r \in Dead' <=> r \in Dead \/ r = a
    BY <1>3, <2>1 DEF Dead
  <2>3. \A r \in Resumes : r \in Settled' <=> r \in Settled
    BY <1>3, <2>1 DEF Settled
  <2>4. Dead \subseteq Resumes /\ Settled \subseteq Resumes
        /\ Dead' \subseteq Resumes /\ Settled' \subseteq Resumes
    BY DEF Dead, Settled
  <2>5. Dead' = Dead \union {a} /\ Settled' = Settled
    BY <1>3, <2>2, <2>3, <2>4
  <2>6. a \notin Settled
    BY <1>3 DEF Settled
  <2>7. Thread!Abandon(a)
    BY <1>1, <2>5, <2>6 DEF Thread!Abandon, Dead, Settled
  <2> QED  BY <1>3, <2>7 DEF Thread!Next
<1> QED  BY <1>2, <1>3, TombstoneKeeps

\* A claim is none of the thread's steps.
LEMMA ClaimQuiet ==
    ASSUME PlannerInv, NEW p \in Procs, NEW q \in Requests, claim(p, q)
    PROVE  UNCHANGED <<Dead, Settled>>
<1>1. /\ claims[Key[q]].state \in {None, "in_progress"}
      /\ claims'[Key[q]].state = "in_progress"
      /\ \A k \in Keys : k # Key[q] => claims'[k] = claims[k]
  BY ClaimRow
<1>2. Key[q] \in Keys
  BY KeyTyped
<1> QED  BY <1>1, <1>2, RowsQuiet DEF None

\* Every step of the service is a step of the abstract thread, or none.
LEMMA ThreadStep == PlannerInv /\ [Next]_vars => [Thread!Next]_(Thread!vars)
<1> SUFFICES ASSUME PlannerInv, [Next]_vars PROVE [Thread!Next]_(Thread!vars)
  OBVIOUS
<1>1. ASSUME UNCHANGED checkpoints, UNCHANGED <<Dead, Settled>>
      PROVE  [Thread!Next]_(Thread!vars)
  BY <1>1, ThreadStutters DEF checkpoints
<1>2. UNCHANGED claims => UNCHANGED <<Dead, Settled>>
  BY DEF Dead, Settled
<1>3. ASSUME NEW p \in Procs, Step(p), lost' = lost PROVE [Thread!Next]_(Thread!vars)
  <2>1. ASSUME NEW q \in Starts, start(p, q) PROVE [Thread!Next]_(Thread!vars)
    <3>1. claim(p, q) /\ q \in Requests /\ UNCHANGED checkpoints
      BY <2>1 DEF start, Requests
    <3> QED  BY <1>1, <3>1, ClaimQuiet
  <2>2. CASE _run_or_recover_start(p)
    <3>1. UNCHANGED <<used, claims>>
      BY <2>2 DEF _run_or_recover_start, tables
    <3>2. cp' = cp \/ (cp.next = None /\ cp' = Initial)
      BY <2>2 DEF _run_or_recover_start, Write
    <3>3. cp.next = None => cp = NoState
      BY DEF PlannerInv, Earned
    <3>4. cp'.pending = cp.pending /\ cp'.consumed = cp.consumed
      BY <3>2, <3>3, IdleTyped, InitialTyped
    <3> QED  BY <1>2, <3>1, <3>4, ThreadStutters
  <2>3. ASSUME NEW r \in Resumes, ReadForResume(p, r) \/ ReadForAbandon(p, r)
        PROVE  [Thread!Next]_(Thread!vars)
    BY <1>1, <1>2, <2>3 DEF ReadForResume, ReadForAbandon, tables
  <2>4. ASSUME NEW r \in Resumes, convert_failed_critique_to_interrupt(p, r)
        PROVE  [Thread!Next]_(Thread!vars)
    <3>1. /\ UNCHANGED <<used, claims>> /\ cp'.consumed = cp.consumed
          /\ cp'.pending = critique_interrupt(r) /\ cp.pending = NoInterrupt
      BY <1>3, <2>4, ConvertKeeps
    <3>2. Thread!Raise(critique_interrupt(r))
      BY <1>2, <3>1 DEF Thread!Raise, Dead, Settled
    <3> QED  BY <3>2, InterruptsDistinct DEF Thread!Next
  <2>5. CASE resume(p)
    <3>1. proc[p].job.req \in Requests
      BY <2>5, JobTyped DEF resume, At, PlannerInv, ProcsKnow, Knows
    <3>2. UNCHANGED checkpoints /\ (claim(p, proc[p].job.req) \/ UNCHANGED tables)
      BY <2>5 DEF resume
    <3> QED  BY <1>1, <1>2, <3>1, <3>2, ClaimQuiet DEF tables
  <2>6. CASE _run_or_recover_resume(p)
    BY <1>1, <1>2, <2>6 DEF _run_or_recover_resume, tables
  <2>7. CASE RunNode(p)
    BY <1>3, <2>7, RunNodeRefines
  <2>8. CASE Respond(p)
    BY <1>1, <1>2, <2>8 DEF Respond, tables
  <2>9. CASE Complete(p)
    BY <1>3, <2>9, CompleteRefines
  <2>10. CASE _with_heartbeat(p)
    <3>1. UNCHANGED checkpoints
      BY <2>10 DEF _with_heartbeat
    <3> QED  BY <1>1, <1>3, <2>10, <3>1, HeartbeatKeeps, LeasesQuiet
  <2>11. CASE Tombstone(p)
    BY <1>3, <2>11, TombstoneRefines
  <2>12. CASE Rewind(p)
    <3> DEFINE r == proc[p].job.req
    <3>1. /\ r \in Resumes /\ Abandoned(r) /\ cp.consumed = r
          /\ cp'.pending = Answers[r] /\ cp'.consumed = None
      BY <1>3, <2>12, RewindKeeps
    <3>2. UNCHANGED <<used, claims>>
      BY <2>12 DEF Rewind, tables
    <3> HIDE DEF r
    <3>3. Thread!Rewind(r)
      BY <1>2, <3>1, <3>2 DEF Thread!Rewind, Abandoned, Dead, Settled
    <3> QED  BY <3>1, <3>3 DEF Thread!Next
  <2>13. CASE Abort(p)
    BY <1>1, <1>2, <2>13 DEF Abort, tables
  <2> QED  BY <1>3, <2>1, <2>2, <2>3, <2>4, <2>5, <2>6, <2>7, <2>8, <2>9, <2>10, <2>11,
              <2>12, <2>13 DEF Step
<1>4. ASSUME NEW k \in Keys, ExpireLease(k), lost' = lost PROVE [Thread!Next]_(Thread!vars)
  <2> DEFINE b == FALSE
  <2>1. /\ claims' = [claims EXCEPT ![k].live = b] /\ b \in BOOLEAN
        /\ UNCHANGED <<checkpoints, bindings, guard, proc, lost>>
    BY <1>4 DEF ExpireLease
  <2> HIDE DEF b
  <2>2. \A n \in Keys : claims'[n].state = claims[n].state /\ claims'[n].req = claims[n].req
    BY <2>1, LiveKeeps
  <2> QED  BY <1>1, <2>1, <2>2, LeasesQuiet
<1>5. ASSUME NEW p \in Procs, LoseConnection(p) PROVE [Thread!Next]_(Thread!vars)
  BY <1>1, <1>2, <1>5 DEF LoseConnection, tables
<1>6. CASE UNCHANGED vars
  BY <1>1, <1>2, <1>6 DEF vars, tables
<1> QED  BY <1>3, <1>4, <1>5, <1>6 DEF Next

\* The service implements the abstract thread, with processes that lose locks and leases,
\* die and are corrected by operators: an answer is taken once, an abandoned one is never
\* settled, and only an abandoned answer is asked for again.
THEOREM ImplementsThreadAlways == Spec => ImplementsThread
<1>1. Init => Thread!Init
  BY ThreadInitially
<1>2. PlannerInv /\ [Next]_vars => [Thread!Next]_(Thread!vars)
  BY ThreadStep
<1> QED  BY <1>1, <1>2, PlannerAlways, PTL DEF Spec, ImplementsThread, Thread!Spec
=============================================================================
