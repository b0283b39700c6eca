SPECIFICATION FairSpec
CONSTANTS
  u1 = u1
  u2 = u2
  c1 = c1
  c2 = c2
  c3 = c3
  c4 = c4
  None = None
  Worker <- TwoWorkers
  Row <- TwoRows
  Connection <- OwnConnections
  ConnectionOf <- Own
  BatchSize = 2
  MaxStarts = 3
INVARIANTS
  TypeOK
  RequestsAtomic
  ClaimsExclusive
PROPERTIES
  KeepsDeliveryContract
  StopReturns
CHECK_DEADLOCK FALSE
