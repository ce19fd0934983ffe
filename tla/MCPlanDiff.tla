------------------------------ MODULE MCPlanDiff ------------------------------
(* Every plan over a few keys with one epic and at most one relation. *)
EXTENDS PlanDiff

CONSTANTS PriorKeys, ProposalKeys, Epics

Edges(S) == {{}} \union {{e} : e \in S \X Fields \X S}

\* Only an epic may be a parent here.
PlansOver(S, version) ==
    {p \in {[version |-> version, replan |-> NoScope,
             items |-> [k \in S |-> [type |-> IF k = e THEN "Epic" ELSE "Task", parent |-> pa[k],
                                     rel |-> {r \in Fields \X S : <<k, r[1], r[2]>> \in E}]]] :
              e \in Epics \intersect S, pa \in [S -> Epics \union {NoParent}], E \in Edges(S)} :
        validate_plan(p)}

MCPriors == UNION {PlansOver(S, 2) : S \in PriorKeys}
MCProposals == UNION {PlansOver(S, 1) : S \in ProposalKeys}
=============================================================================
