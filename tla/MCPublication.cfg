SPECIFICATION Spec
CONSTANTS
  v1 = v1
  v2 = v2
  p1 = p1
  p2 = p2
  p3 = p3
  k1 = k1
  k2 = k2
  Envelopes = {v1, v2}
  Publishers = {p1, p2, p3}
  EnvelopeOf <- MCEnvelopeOf
  Packages = {k1, k2}
  N = 3
  Kind <- MCKind
  Package <- MCPackage
  MaxFaults = 1
  MaxEdits = 2
SYMMETRY Duplicates
INVARIANTS
  TypeOK
  InOrder
  AppliedHasEffect
  EffectOnce
  FenceExclusive
  CompletedIsPublished
PROPERTIES
  NoOverwrite
  ImplementsOrdered
