SPECIFICATION Spec
CONSTANTS
  c1 = c1
  c2 = c2
  c3 = c3
  Calls = {c1, c2, c3}
  Envelope <- MCEnvelope
  Attempts = 2
  MaxFaults = 2
  MaxEdits = 1
CHECK_DEADLOCK FALSE
INVARIANTS
  AnsweredShown
  OnePackage
PROPERTIES
  TextKept
  Delivered
