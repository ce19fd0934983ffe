SPECIFICATION Spec
CONSTANTS
  d1 = d1
  f1 = f1
  f2 = f2
  r1 = r1
  Deliveries = {d1}
  Flows = {f1, f2, r1}
  DeliveryOf <- MCDeliveryOf
  Recoveries = {r1}
  Retries = 1
  MaxFaults = 1
SYMMETRY Duplicates
INVARIANTS
  TypeOK
  EffectExclusive
  OwnerKeepsRow
  NoFenceLeak
  CompletedAfterEffect
  EffectOnce
PROPERTY SettledByOwner
