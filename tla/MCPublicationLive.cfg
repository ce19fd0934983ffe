SPECIFICATION FairSpec
CONSTANTS
  v1 = v1
  v2 = v2
  p1 = p1
  p2 = p2
  p3 = p3
  k1 = k1
  k2 = k2
  Envelopes = {v1}
  Publishers = {p1}
  EnvelopeOf <- MCEnvelopeOf
  Packages = {k1, k2}
  N = 3
  Kind <- MCKind
  Package <- MCPackage
  MaxFaults = 2
  MaxEdits = 2
PROPERTY CompletesOrBlocked
