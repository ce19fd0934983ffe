SPECIFICATION Spec
CONSTANTS
  Keys = {1, 2}
  Types = {"Epic", "Task"}
  Fields = {"related_to"}
  Priors <- MCPriors
  Proposals <- MCProposals
  PriorKeys = {{1, 2}}
  ProposalKeys = {{1, 2}}
  Epics = {1}
  MaxEdits = 1
CHECK_DEADLOCK FALSE
INVARIANT PreconditionsHold
