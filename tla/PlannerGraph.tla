---------------------------- MODULE PlannerGraph ----------------------------
(***************************************************************************)
(* The planning pipeline: the nodes of the LangGraph graph as functions on *)
(* a checkpoint.                                                           *)
(*                                                                         *)
(* A checkpoint keeps of the graph state what routes it and what the       *)
(* service asks of it; the drafts themselves are left out.  The model's    *)
(* answers are choices, so a node is the set of its possible results; a    *)
(* node that raises has none.  A resume request stands for its exact       *)
(* binding (interrupt, comment, timestamp) and its answer.                 *)
(***************************************************************************)
EXTENDS Naturals

CONSTANT Resumes   \* resume requests of the thread

None == "none"

NoInterrupt == <<"none", None>>

\* The identifier of an interrupt is a digest.  The digest of a critique covers
\* the consumed answer, of which it is the only part told apart here.
Questions == <<"questions", None>>
critique_interrupt(consumed) == <<"critique", consumed>>
Interrupts == {Questions} \union {critique_interrupt(c) : c \in Resumes \union {None}}

\* The unconditional edges of the graph.  Nodes in a row that only add a draft of
\* the model to the state are one: drafting_specification for classify_scope_and_risk,
\* retrieve_repository_context and draft_compact_specification, drafting_backlog for
\* generate_prd_when_warranted, generate_architecture,
\* derive_requirements_and_decisions and decompose_epics_and_stories.
Edge ==
    [normalize_intake |-> "drafting_specification",
     drafting_specification |-> "identify_consequential_questions",
     identify_consequential_questions |-> "human_interrupt_when_required",
     human_interrupt_when_required |-> "drafting_backlog",
     drafting_backlog |-> "infer_typed_relations",
     infer_typed_relations |-> "critique_decomposition",
     human_interrupt_after_critique |-> "revise_decomposition",
     revise_decomposition |-> "infer_typed_relations",
     validate_backlog |-> "render_artifacts",
     render_artifacts |-> "prepare_planning_pr",
     prepare_planning_pr |-> "END"]

Nodes == DOMAIN Edge \union {"critique_decomposition"}

\* A checkpoint; next is None in the checkpoint of a thread that has none.
Checkpoints ==
    [next : Nodes \union {None, "END"},
     pending : Interrupts \union {NoInterrupt},
     consumed : Resumes \union {None},
     attempts : Nat,
     acceptable : BOOLEAN,                 \* the last critique
     valid : BOOLEAN,                      \* the relation draft makes a valid backlog
     status : {"planning", "artifacts_ready", "failed"},
     artifacts : BOOLEAN,
     correction : Resumes \union {None}]   \* critique_correction

NoState ==
    [next |-> None, pending |-> NoInterrupt, consumed |-> None, attempts |-> 0,
     acceptable |-> FALSE, valid |-> FALSE, status |-> "planning",
     artifacts |-> FALSE, correction |-> None]

\* The input of the first invocation.
Initial == [NoState EXCEPT !.next = "normalize_intake"]

Moved(c) == [c EXCEPT !.next = Edge[c.next]]

normalize_intake(c) == {[Moved(c) EXCEPT !.status = "planning"]}

drafting_specification(c) == {Moved(c)}

drafting_backlog(c) == {Moved(c)}

identify_consequential_questions(c) ==
    {[Moved(c) EXCEPT !.pending = i] : i \in {NoInterrupt, Questions}}

\* Without an answer the node interrupts the invocation: it has no result.
human_interrupt_when_required(c, r) ==
    IF c.pending = NoInterrupt
    THEN {Moved(c)}
    ELSE IF r = None THEN {}
    ELSE {[Moved(c) EXCEPT !.consumed = r, !.pending = NoInterrupt]}

human_interrupt_after_critique(c, r) ==
    IF c.pending = NoInterrupt \/ r = None
    THEN {}
    ELSE {[Moved(c) EXCEPT !.consumed = r, !.pending = NoInterrupt, !.attempts = 0,
                           !.status = "planning"]}

infer_typed_relations(c) == {[Moved(c) EXCEPT !.valid = v] : v \in BOOLEAN}

revise_decomposition(c) == {[Moved(c) EXCEPT !.valid = FALSE]}

\* Mutant: an exhausted critique goes on to the validation.
RoutedExhausted(c) ==
    [c EXCEPT !.next = IF c.acceptable \/ c.attempts >= 2 THEN "validate_backlog"
                       ELSE "revise_decomposition"]

\* The conditional edge out of critique_decomposition.
Routed(c) ==
    [c EXCEPT !.next = IF c.pending # NoInterrupt THEN "human_interrupt_after_critique"
                       ELSE IF c.acceptable THEN "validate_backlog"
                       ELSE "revise_decomposition"]

Rejected(c) ==
    LET counted == [c EXCEPT !.acceptable = FALSE, !.attempts = @ + 1]
    IN  IF counted.attempts >= 2
        THEN [counted EXCEPT !.pending = critique_interrupt(c.consumed), !.status = "planning"]
        ELSE counted

critique_decomposition(c) ==
    {Routed([c EXCEPT !.acceptable = TRUE]), Routed(Rejected(c))}

\* A draft that breaks the rules raises, again on every retry.
validate_backlog(c) == IF c.valid THEN {Moved(c)} ELSE {}

render_artifacts(c) == {[Moved(c) EXCEPT !.artifacts = TRUE]}

prepare_planning_pr(c) == {[Moved(c) EXCEPT !.status = "artifacts_ready"]}

\* The checkpoints the next node can write, given the answer the invocation
\* carries, if it still carries one.
Results(c, r) ==
    CASE c.next = "normalize_intake" -> normalize_intake(c)
      [] c.next = "drafting_specification" -> drafting_specification(c)
      [] c.next = "drafting_backlog" -> drafting_backlog(c)
      [] c.next = "identify_consequential_questions" -> identify_consequential_questions(c)
      [] c.next = "human_interrupt_when_required" -> human_interrupt_when_required(c, r)
      [] c.next = "infer_typed_relations" -> infer_typed_relations(c)
      [] c.next = "critique_decomposition" -> critique_decomposition(c)
      [] c.next = "human_interrupt_after_critique" -> human_interrupt_after_critique(c, r)
      [] c.next = "revise_decomposition" -> revise_decomposition(c)
      [] c.next = "validate_backlog" -> validate_backlog(c)
      [] c.next = "render_artifacts" -> render_artifacts(c)
      [] c.next = "prepare_planning_pr" -> prepare_planning_pr(c)
      [] OTHER -> {}

\* An invocation returns at the end of the graph or at an interrupt.
Returns(c, r) ==
    \/ c.next = "END"
    \/ /\ c.next \in {"human_interrupt_when_required", "human_interrupt_after_critique"}
       /\ c.pending # NoInterrupt
       /\ r = None

\* What a response tells of the state it is made from, and the answer that state
\* came from, which it does not tell.
_response_from_state(c) ==
    [NoState EXCEPT !.pending = c.pending, !.status = c.status, !.consumed = c.consumed]

_is_servable(c) == c.pending # NoInterrupt \/ c.status \in {"artifacts_ready", "failed"}
=============================================================================
