SPECIFICATION FairSpec
CONSTANTS
  p1 = p1
  p2 = p2
  w1 = w1
  r1 = r1
  Pulls = {p1}
  Workers = {w1, r1}
  Reconcilers = {r1}
  MaxTime = 1
  MaxChanges = 2
  MaxEdits = 1
  MaxFaults = 1
PROPERTY MergeProjected
