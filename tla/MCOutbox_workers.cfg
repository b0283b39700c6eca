SPECIFICATION FairSpec
CONSTANTS
  u1 = u1
  u2 = u2
  u3 = u3
  Null = Null
  Worker <- TwoWorkers
  Row <- ThreeRows
  BatchSize = 2
  Poison = {1}
  MaxAbandon = 1
  MaxPublished = 1
  Retention = 0
  ClaimTimeout = 2
INVARIANTS TypeOK HeldByOne OnceUnlessAbandoned
PROPERTIES KeepsDeliveryContract EveryMessagePublished
CHECK_DEADLOCK FALSE
