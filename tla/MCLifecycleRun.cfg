SPECIFICATION Spec
CONSTANTS
  w1 = w1
  w2 = w2
  e1 = e1
  e2 = e2
  c1 = c1
  c2 = c2
  m1 = m1
  m2 = m2
  n1 = n1
  r1 = r1
  r2 = r2
  Workers = {w1, w2}
  MaxVersion = 3
  MaxInterrupt = 2
  Changes = {e1, e2}
  Service = {e2}
  Comments = {c1, c2}
  Merges = {m1, m2}
  Pull <- MCPull
  Nights = {n1}
  Replans = {r1, r2}
  Base <- MCBase
  Unfenced = {e1, c1, m1}
  Arrivals <- MCArrivals
CHECK_DEADLOCK FALSE
SYMMETRY WorkerSymmetry
INVARIANTS
  PublishedEarned
  PublishedInOrder
  QuestionAsked
  OneActive
PROPERTY AnswerKept
