SPECIFICATION Spec
CONSTANTS
  p1 = p1
  p2 = p2
  w1 = w1
  r1 = r1
  Pulls = {p1, p2}
  Workers = {w1, r1}
  Reconcilers = {r1}
  MaxTime = 2
  MaxChanges = 3
  MaxEdits = 0
  MaxFaults = 0
INVARIANTS
  TypeOK
  SuccessIsCurrent
  EvidenceJustified
PROPERTY MergeSticky
SYMMETRY PullSymmetry
