SPECIFICATION Spec
CONSTANTS
  s1 = s1
  s2 = s2
  a1 = a1
  a2 = a2
  b1 = b1
  p1 = p1
  p2 = p2
  k1 = k1
  k2 = k2
  k3 = k3
  k4 = k4
  c1 = c1
  c2 = c2
  c3 = c3
  Procs = {p1, p2}
  Starts = {s1}
  Resumes = {a1}
  Keys = {k1, k2, k3, k4}
  Key <- MCKey
  Comments = {c1, c2, c3}
  Comment <- MCComment
  Answers <- MCEarlyAnswers
  MaxLost = 0
CHECK_DEADLOCK FALSE
SYMMETRY ProcSymmetry
INVARIANT ExactInterrupt
