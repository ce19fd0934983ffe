------------------------------ MODULE PlanGraph ------------------------------
(***************************************************************************)
(* A backlog plan as a graph of items, the semantic rules that admit it, and *)
(* the boundary of a partial replan.                                         *)
(*                                                                          *)
(* The text of an item is its type here; keys are numbers, so that they have *)
(* an order.  The rules about an item's wording, evidence, estimate and      *)
(* repository are left out: no property tells such items apart.              *)
(***************************************************************************)
EXTENDS Integers, FiniteSets

CONSTANTS
    Keys,    \* node keys
    Types,   \* the item types in use
    Fields   \* the relation fields in use

AllTypes == {"Initiative", "Epic", "Story", "Task", "Decision", "Investigation", "Bug"}
AllFields == {"blocked_by", "sequence_after", "related_to", "decision_required", "decisions"}

ASSUME PlanAssumption ==
    /\ Keys \subseteq Nat \ {0} /\ IsFiniteSet(Keys)
    /\ Types \subseteq AllTypes /\ Types # {}
    /\ Fields \subseteq AllFields

_RANK == [t \in AllTypes |->
            CASE t = "Initiative" -> 0 [] t = "Epic" -> 1 [] t = "Story" -> 2 [] OTHER -> 3]

NoParent == 0
Items == [type : Types, parent : Keys \union {NoParent}, rel : SUBSET (Fields \X Keys)]

\* A replan names its base, its roots, what they govern, and the version every
\* other node keeps; the commit of a node is the approved one of its version.
NoScope == [base |-> 0]

\* A plan is a version, a scope and a function from its keys to items.
Known(plan) == DOMAIN plan.items

-----------------------------------------------------------------------------
(* validate_plan.                                                          *)

\* A finite graph has a cycle when a part of it is left by no node.
_has_cycle(edges) ==
    \E S \in SUBSET Keys \ {{}} : \A k \in S : \E t \in S : <<k, t>> \in edges

ParentEdges(plan) ==
    {e \in Known(plan) \X Known(plan) : plan.items[e[1]].parent = e[2]}

Targets(plan, f) == {e \in Known(plan) \X Keys : <<f, e[2]>> \in plan.items[e[1]].rel}

\* The endpoints OpenProject stores for a directed relation.
StoredPair(f, k, t) == IF f = "blocked_by" THEN <<t, k>> ELSE <<k, t>>

Uses(plan) == {u \in Fields \X Known(plan) \X Keys : <<u[1], u[3]>> \in plan.items[u[2]].rel}

\* One relation on a stored pair; a symmetric one beside no other.
Collides(u, v) ==
    /\ u # v
    /\ IF "related_to" \in {u[1], v[1]}
       THEN {u[1], v[1]} # {"related_to"} /\ {u[2], u[3]} = {v[2], v[3]}
       ELSE StoredPair(u[1], u[2], u[3]) = StoredPair(v[1], v[2], v[3])

ValidScope(plan) ==
    LET scope == plan.replan
    IN  scope # NoScope =>
          /\ scope.base < plan.version
          /\ scope.roots \subseteq scope.affected
          /\ scope.roots \subseteq Known(plan)
          /\ \A k \in DOMAIN scope.bindings :
                k \in Known(plan) /\ k \notin scope.affected /\ scope.bindings[k] <= scope.base

validate_plan(plan) ==
    /\ ValidScope(plan)
    /\ \A u, v \in Uses(plan) : ~Collides(u, v)
    /\ \A u \in Uses(plan) :
          /\ u[3] \in Known(plan) /\ u[3] # u[2]
          /\ u[1] \in {"decision_required", "decisions"} => plan.items[u[3]].type = "Decision"
    /\ \A k \in Known(plan) :
          LET p == plan.items[k].parent
          IN  p # NoParent => /\ p \in Known(plan)
                              /\ _RANK[plan.items[p].type] < _RANK[plan.items[k].type]
    /\ ~_has_cycle(ParentEdges(plan))
    /\ ~_has_cycle(Targets(plan, "blocked_by"))

-----------------------------------------------------------------------------
(* The boundary of a partial replan.                                       *)

\* Mutant: every node carries the version of the plan.
BindingOfPlan(plan, k) == plan.version

\* The version whose text and commit a node of a mixed plan carries.
effective_node_binding(plan, k) ==
    IF plan.replan # NoScope /\ k \in DOMAIN plan.replan.bindings
    THEN plan.replan.bindings[k]
    ELSE plan.version

build_replan_scope(prior, roots, affected) ==
    [base |-> prior.version, roots |-> roots, affected |-> affected,
     bindings |-> [k \in Known(prior) \ affected |-> effective_node_binding(prior, k)]]

\* The root above a key, or NoParent; a cycle of parents ends the walk.
_selected_root_owner(k, items, roots) ==
    LET above(j) == IF j \in roots \/ j \notin DOMAIN items THEN j ELSE items[j].parent
        up[n \in 0..Cardinality(Keys)] == IF n = 0 THEN k ELSE above(up[n - 1])
        top == up[Cardinality(Keys)]
    IN  IF top \in roots THEN top ELSE NoParent

_prior_descendant_keys(prior, roots) ==
    {k \in Known(prior) : _selected_root_owner(k, prior.items, roots) # NoParent}

\* Parents and relations with one end outside the boundary; the symmetric
\* relation has no direction.
_cross_boundary_edges(plan, protected) ==
    LET crossing(k, t) == t \in Known(plan) /\ ((k \in protected) # (t \in protected))
    IN  {<<"parent", <<e[1], e[2]>>>> : e \in {e \in ParentEdges(plan) : crossing(e[1], e[2])}}
        \union {<<u[1], IF u[1] = "related_to" THEN {u[2], u[3]} ELSE <<u[2], u[3]>> >> :
                   u \in {u \in Uses(plan) : crossing(u[2], u[3])}}

validate_replan_candidate(prior, candidate, roots, affected) ==
    LET P == Known(prior)  C == Known(candidate)  protected == P \ affected
        owner(plan, k) == _selected_root_owner(k, plan.items, roots)
    IN  /\ roots # {} /\ roots \subseteq P /\ roots \subseteq affected
        /\ \A r \in roots : LET p == prior.items[r].parent
                            IN  p # NoParent => owner(prior, p) = NoParent
        /\ candidate.version > prior.version
        /\ candidate.replan = build_replan_scope(prior, roots, affected)
        /\ \A k \in protected : k \in C /\ candidate.items[k] = prior.items[k]
        /\ roots \subseteq C
        /\ \A r \in roots : candidate.items[r].parent = prior.items[r].parent
        /\ \A k \in (affected \intersect P \intersect C) \ roots :
              owner(prior, k) # NoParent /\ owner(candidate, k) = owner(prior, k)
        /\ \A k \in ((affected \union (C \ P)) \intersect C) \ roots :
              owner(candidate, k) # NoParent
        /\ _cross_boundary_edges(prior, protected) = _cross_boundary_edges(candidate, protected)

\* Whatever the planner proposes, the protected nodes are the prior ones.
apply_replan_boundary(prior, proposed, roots, affected) ==
    LET kept == Known(prior) \ affected
    IN  [version |-> proposed.version,
         replan |-> build_replan_scope(prior, roots, affected),
         items |-> [k \in kept \union Known(proposed) |->
                      IF k \in kept THEN prior.items[k] ELSE proposed.items[k]]]
=============================================================================
