SPECIFICATION FairSpec
CONSTANTS
  d1 = d1
  f1 = f1
  f2 = f2
  r1 = r1
  Deliveries = {d1}
  Flows = {f1, f2}
  DeliveryOf <- MCDeliveryOf
  Recoveries = {}
  Retries = 1
  MaxFaults = 1
PROPERTIES
  DeliverySettles
  FlowsEnd
