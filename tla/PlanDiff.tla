------------------------------- MODULE PlanDiff -------------------------------
(***************************************************************************)
(* From an approved plan and a snapshot of OpenProject to the operations     *)
(* that publish it, and what those operations do one after the other while   *)
(* people go on moving the same work packages.                               *)
(*                                                                          *)
(* The journal, its retries and its faults are the Publication module's; an  *)
(* operation happens here once, or is refused and blocks the publication.    *)
(***************************************************************************)
EXTENDS PlanGraph, SequencesExt

CONSTANTS
    Priors,     \* plans that may be published already
    Proposals,  \* plans the planner may propose
    MaxEdits    \* bound on people's changes

VARIABLES
    base,     \* the published plan, or NoPlan
    package,  \* the work packages of the plan in OpenProject, by key
    plan,     \* the approved plan, or NoPlan
    ops,      \* the operations of plan_diff
    at,       \* how many of them are done
    phase,    \* of the publication
    snapshot, \* the work packages that plan_diff was given
    edited,   \* packages whose topology somebody changed since the snapshot
    moved,    \* packages somebody moved since the snapshot
    edits

vars == <<base, package, plan, ops, at, phase, snapshot, edited, moved, edits>>

\* Plans have typed items, and every node a version; what is published was valid.
ASSUME DiffAssumption ==
    /\ MaxEdits \in Nat
    /\ \A p \in Priors : validate_plan(p)
    /\ \A p \in Priors \union Proposals :
          /\ p = [version |-> p.version, replan |-> p.replan, items |-> p.items]
          /\ Known(p) \subseteq Keys /\ p.items \in [Known(p) -> Items] /\ p.version \in Nat
          /\ \A k \in Known(p) : effective_node_binding(p, k) \in Nat

NoPlan == [version |-> 0, replan |-> NoScope, items |-> [k \in {} |-> {}]]

\* parent_id without a planning identity.
Unmanaged == -1
Absent == [hash |-> <<>>, parent |-> NoParent, rel |-> {}, superseded |-> FALSE, id |-> 0]
Present(snap) == {k \in Keys : snap[k] # Absent}

-----------------------------------------------------------------------------
(* What a plan asks of a work package.                                     *)

\* The text of the item and the version and commit its node carries.
managed_hash(p, k) == <<p.items[k].type, effective_node_binding(p, k)>>

Semantic(f) == IF f = "decisions" THEN "governed_by" ELSE f

\* A symmetric relation belongs to the lower key, whoever declares it.
_relations(p, k) ==
    {<<Semantic(r[1]), r[2]>> : r \in {r \in p.items[k].rel : r[1] # "related_to"}}
    \union {<<"related_to", t>> : t \in {t \in Known(p) : k < t /\
                \/ <<"related_to", t>> \in p.items[k].rel
                \/ <<"related_to", k>> \in p.items[t].rel}}

\* The plan as OpenProject shows it once it is published.
Published(p, k) ==
    [hash |-> managed_hash(p, k), parent |-> p.items[k].parent, rel |-> _relations(p, k),
     superseded |-> FALSE]
Shows(w) == [hash |-> w.hash, parent |-> w.parent, rel |-> w.rel, superseded |-> w.superseded]

-----------------------------------------------------------------------------
(* plan_diff.                                                              *)

parent_identity(w) == IF w.parent = Unmanaged THEN NoParent ELSE w.parent

\* _topology_preconditions: the unmanaged parent is the one of the snapshot.
Expect(hash, w, parent, rel) ==
    [hash |-> hash, parent |-> parent, unmanaged |-> w.parent = Unmanaged, rel |-> rel]
_existing_preconditions(hash, w) == Expect(hash, w, parent_identity(w), w.rel)

Operation(kind, k, arg, expect) == [kind |-> kind, key |-> k, arg |-> arg, expect |-> expect]
Nothing == [kind |-> "nothing"]
One(condition, op) == IF condition THEN <<op>> ELSE <<>>
InOrder(S) ==
    LET n == Cardinality(S)
    IN  CHOOSE s \in [1..n -> S] : \A i, j \in 1..n : i < j => s[i] < s[j]

\* Mutant: relations are checked against the snapshot, not against each other.
RelationOpsStale(kind, k, relations, expect) ==
    LET s == SetToSeq(relations)
    IN  [i \in 1..Len(s) |-> Operation(kind, k, s[i], expect)]

\* The relations of one item, in a fixed order, each on top of the ones before.
RelationOps(kind, k, relations, expect) ==
    LET s == SetToSeq(relations)
        done(i) == {s[j] : j \in 1..i - 1}
    IN  [i \in 1..Len(s) |->
           Operation(kind, k, s[i],
               [expect EXCEPT !.rel = IF kind = "create_relation" THEN expect.rel \union done(i)
                                                                  ELSE expect.rel \ done(i)])]

\* Mutant: parents without an identity are all alike.
ParentChangedByIdentity(w, parent) == parent_identity(w) # parent

ParentChanged(w, parent) ==
    parent_identity(w) # parent \/ (parent = NoParent /\ w.parent # NoParent)

\* One item: reactivate, text, parent, relations to add, relations to remove.
ItemOps(p, snap, k) ==
    LET w == snap[k]
        new == w = Absent
        after == managed_hash(p, k)
        parent == p.items[k].parent
        virtual_parent == IF ParentChanged(w, parent) THEN parent ELSE parent_identity(w)
        wanted == _relations(p, k) \ w.rel
        unwanted == w.rel \ _relations(p, k)
    IN  One(~new /\ w.superseded,
            Operation("reactivate_work_package", k, Nothing, _existing_preconditions(w.hash, w)))
        \o One(~new /\ w.hash # after,
               Operation("update_managed_fields", k, after, _existing_preconditions(w.hash, w)))
        \o One(ParentChanged(w, parent),
               Operation("set_parent", k, parent, _existing_preconditions(after, w)))
        \o RelationOps("create_relation", k, wanted, Expect(after, w, virtual_parent, w.rel))
        \o RelationOps("remove_managed_relation", k, unwanted,
                       Expect(after, w, virtual_parent, w.rel \union wanted))

\* Mutant: a node that is gone is marked at every publication.
GoneAgain(p, snap) == Present(snap) \ Known(p)

Gone(p, snap) == {k \in Present(snap) \ Known(p) : ~snap[k].superseded}

\* Nodes first, then each item's text, parent and relations, then what is gone.
plan_diff(p, snap) ==
    LET creates == InOrder(Known(p) \ Present(snap))
        items == InOrder(Known(p))
        gone == InOrder(Gone(p, snap))
        all == [i \in DOMAIN creates |->
                  Operation("create_work_package", creates[i], managed_hash(p, creates[i]), Nothing)]
               \o FlattenSeq([i \in DOMAIN items |-> ItemOps(p, snap, items[i])])
               \o [i \in DOMAIN gone |->
                     Operation("mark_superseded", gone[i], Nothing,
                         _existing_preconditions(snap[gone[i]].hash, snap[gone[i]]))]
    IN  all \o One(all # <<>>, Operation("record_audit", 0, Nothing, Nothing))

-----------------------------------------------------------------------------
(* Publishing the operations.                                              *)

\* Mutant: a parent without an identity counts as no parent.
AssertCurrentByIdentity(op) ==
    LET w == package[op.key]
    IN  CASE op.kind = "record_audit" -> TRUE
          [] op.kind = "create_work_package" -> w = Absent
          [] OTHER -> /\ w # Absent
                      /\ w.hash = op.expect.hash
                      /\ parent_identity(w) = op.expect.parent
                      /\ w.rel = op.expect.rel

\* The publisher's check, which the adapter repeats before it writes.
_assert_current(op) ==
    LET w == package[op.key]
    IN  CASE op.kind = "record_audit" -> TRUE
          [] op.kind = "create_work_package" -> w = Absent
          [] OTHER -> /\ w # Absent
                      /\ w.hash = op.expect.hash
                      /\ parent_identity(w) = op.expect.parent
                      /\ (w.parent = Unmanaged) = op.expect.unmanaged
                      /\ w.rel = op.expect.rel

\* _project_relation: OpenProject orders a symmetric relation by numeric id.
_project_relation(f, k, t) ==
    CASE f = "blocked_by" -> <<t, k>>
      [] f = "related_to" /\ package[t].id < package[k].id -> <<t, k>>
      [] OTHER -> <<k, t>>

\* OpenProject keeps one relation for a stored pair, whatever its type.
PairTaken(f, k, t) ==
    \E s \in Present(package) : \E r \in package[s].rel :
        /\ <<r[1], s, r[2]>> # <<f, k, t>>
        /\ _project_relation(r[1], s, r[2]) = _project_relation(f, k, t)

\* What the adapter has to find before it can write.
Resolves(op) ==
    /\ op.kind = "set_parent" /\ op.arg # NoParent => package[op.arg] # Absent
    /\ op.kind \in {"create_relation", "remove_managed_relation"} =>
          package[op.arg[2]] # Absent
    /\ op.kind = "create_relation" => ~PairTaken(op.arg[1], op.key, op.arg[2])

\* What one operation leaves of its package.
Written(op) ==
    LET w == package[op.key]
    IN  CASE op.kind = "create_work_package" ->
               [Absent EXCEPT !.hash = op.arg, !.id = Cardinality(Keys) + op.key]
          [] op.kind = "update_managed_fields" -> [w EXCEPT !.hash = op.arg]
          [] op.kind = "set_parent" -> [w EXCEPT !.parent = op.arg]
          [] op.kind = "create_relation" -> [w EXCEPT !.rel = w.rel \union {op.arg}]
          [] op.kind = "remove_managed_relation" -> [w EXCEPT !.rel = w.rel \ {op.arg}]
          [] op.kind = "mark_superseded" -> [w EXCEPT !.superseded = TRUE]
          [] op.kind = "reactivate_work_package" -> [w EXCEPT !.superseded = FALSE]

-----------------------------------------------------------------------------
(* Behaviour.                                                              *)

Existing(hash, parent, rel, superseded, k) ==
    [hash |-> hash, parent |-> parent, rel |-> rel, superseded |-> superseded, id |-> k]

\* What an earlier version may have left of a node that its successor dropped.
Left(k) ==
    LET relations == {r \in {Semantic(f) : f \in Fields} \X Known(base) :
                        r[1] = "related_to" => k < r[2]}
    IN  UNION {{Existing(<<CHOOSE t \in Types : TRUE, 1>>, p, R, TRUE, k) :
                   R \in {{}} \union {{r} : r \in relations}} : p \in Known(base) \union {NoParent}}

Init ==
    /\ base \in Priors \union {NoPlan}
    /\ LET image == [k \in Known(base) |->
                        Existing(managed_hash(base, k), base.items[k].parent,
                                 _relations(base, k), FALSE, k)]
       IN  \/ package = [k \in Keys |-> IF k \in Known(base) THEN image[k] ELSE Absent]
           \/ /\ base # NoPlan
              /\ \E g \in Keys \ Known(base) : \E w \in Left(g) :
                    package = [k \in Keys |-> IF k \in Known(base) THEN image[k]
                                              ELSE IF k = g THEN w ELSE Absent]
              /\ \A k \in Present(package) : \A r \in package[k].rel : ~PairTaken(r[1], k, r[2])
    /\ plan = NoPlan /\ ops = <<>> /\ at = 0 /\ phase = "idle"
    /\ snapshot = [k \in Keys |-> Absent] /\ edited = {} /\ moved = {} /\ edits = 0

\* The snapshot of the planning run is the one at publication, or it is refused.
publish(p) ==
    /\ phase = "idle"
    /\ validate_plan(p)
    /\ plan' = p
    /\ ops' = plan_diff(p, package)
    /\ phase' = "publishing"
    /\ snapshot' = package
    /\ edited' = {} /\ moved' = {}
    /\ UNCHANGED <<base, package, at, edits>>

PublishFirst(p) == base = NoPlan /\ publish(p)

\* The lifecycle and the publisher both hold a replan to its boundary.
PublishReplan(roots, proposed) ==
    LET affected == _prior_descendant_keys(base, roots)
        p == apply_replan_boundary(base, [proposed EXCEPT !.version = base.version + 1],
                                   roots, affected)
    IN  /\ \A r \in roots : proposed.items[r].parent = base.items[r].parent
        /\ validate_replan_candidate(base, p, roots, affected)
        /\ publish(p)

apply ==
    LET op == ops[at + 1]
    IN  /\ phase = "publishing"
        /\ at < Len(ops)
        /\ _assert_current(op) /\ Resolves(op)
        /\ package' = IF op.kind = "record_audit" THEN package
                      ELSE [package EXCEPT ![op.key] = Written(op)]
        /\ at' = at + 1
        /\ UNCHANGED <<base, plan, ops, phase, snapshot, edited, moved, edits>>

Refuse ==
    /\ phase = "publishing"
    /\ at < Len(ops)
    /\ ~(_assert_current(ops[at + 1]) /\ Resolves(ops[at + 1]))
    /\ phase' = "blocked"
    /\ UNCHANGED <<base, package, plan, ops, at, snapshot, edited, moved, edits>>

Complete ==
    /\ phase = "publishing"
    /\ at = Len(ops)
    /\ phase' = "completed"
    /\ UNCHANGED <<base, package, plan, ops, at, snapshot, edited, moved, edits>>

\* A person moves a package under a parent of their own, or out of any.
Move(k, p) ==
    /\ edits < MaxEdits
    /\ phase \in {"idle", "publishing"}
    /\ package[k] # Absent /\ package[k].parent # p
    /\ package' = [package EXCEPT ![k].parent = p]
    /\ edits' = edits + 1
    /\ edited' = edited \union {k}
    /\ moved' = moved \union {k}
    /\ UNCHANGED <<base, plan, ops, at, phase, snapshot>>

\* A person deletes a relation.
Unrelate(k, r) ==
    /\ edits < MaxEdits
    /\ phase \in {"idle", "publishing"}
    /\ r \in package[k].rel
    /\ package' = [package EXCEPT ![k].rel = package[k].rel \ {r}]
    /\ edits' = edits + 1
    /\ edited' = edited \union {k}
    /\ UNCHANGED <<base, plan, ops, at, phase, snapshot, moved>>

Next ==
    \/ /\ phase = "idle" /\ base = NoPlan
       /\ \E p \in Proposals : PublishFirst(p)
    \/ /\ phase = "idle" /\ base # NoPlan
       /\ \E p \in Proposals : \E R \in SUBSET (Known(base) \intersect Known(p)) \ {{}} :
             PublishReplan(R, p)
    \/ apply \/ Refuse \/ Complete
    \/ \E k \in Keys : \/ \E p \in {NoParent, Unmanaged} : Move(k, p)
                       \/ \E r \in package[k].rel : Unrelate(k, r)

Spec == Init /\ [][Next]_vars

-----------------------------------------------------------------------------
(* Properties.                                                             *)

\* A completed publication leaves every node that nobody touched meanwhile as the
\* plan has it, and every other node of the plan's history superseded (plan_diff).
Converges ==
    phase = "completed" =>
        \A k \in Keys \ edited :
            IF k \in Known(plan) THEN Shows(package[k]) = Published(plan, k)
            ELSE package[k] = Absent \/ package[k].superseded

\* Publishing the same plan again has nothing to do.
ReapplyIsEmpty ==
    phase = "completed" /\ edited = {} => plan_diff(plan, package) = <<>>

\* A replan changes nothing outside its boundary, unless somebody had changed it
\* after the last publication: neither the ownership of symmetric relations nor
\* the version in the managed hash reaches a protected node (_check_replan_boundary).
ReplanIsLocal ==
    plan # NoPlan /\ plan.replan # NoScope /\ edits = 0 =>
        \A i \in 1..Len(ops) :
            ops[i].key # 0 => ops[i].key \in plan.replan.affected \/ ops[i].key \notin Known(base)

\* A relation takes the place of another one of the same pair.
Retyped ==
    \E i, j \in 1..Len(ops) :
        /\ ops[i].kind = "create_relation" /\ ops[j].kind = "remove_managed_relation"
        /\ {ops[i].key, ops[i].arg[2]} = {ops[j].key, ops[j].arg[2]}

\* The operations of one diff fit one after the other: a publication is refused
\* only when somebody changed a package since the snapshot, or replaces somebody's
\* own parent, or retypes a relation.
OperationsFit ==
    phase = "blocked" => edited # {} \/ Retyped
                         \/ \E k \in Keys : \/ snapshot[k].parent = Unmanaged
                                            \/ k \notin Known(plan) /\ package[k].rel # {}

\* An operation that follows a parent operation of the same package expects the
\* hierarchy as that operation leaves it, "not the stale input snapshot": without
\* anybody's change since the snapshot, no precondition fails (plan_diff).
PreconditionsHold ==
    phase = "blocked" /\ edited = {} => _assert_current(ops[at + 1])

\* No operation moves a package that somebody moved since the snapshot, unless it
\* is back under the parent that the snapshot shows (_topology_preconditions).
MovesKept ==
    [][\A k \in moved : package'[k].parent # package[k].parent /\ edits' = edits
                        => package[k].parent = snapshot[k].parent]_vars
=============================================================================
