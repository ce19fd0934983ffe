SPECIFICATION Spec
CONSTANTS
  Keys = {1, 2, 3}
  Types = {"Epic", "Task"}
  Fields = {"blocked_by", "related_to", "sequence_after"}
  Priors <- MCPriors
  Proposals <- MCProposals
  PriorKeys = {{1, 2, 3}, {2, 3}}
  ProposalKeys = {{1, 2, 3}, {2, 3}, {1, 2}}
  Epics = {2}
  MaxEdits = 1
CHECK_DEADLOCK FALSE
INVARIANTS
  Converges
  ReapplyIsEmpty
  ReplanIsLocal
  OperationsFit
PROPERTY MovesKept
