SPECIFICATION FairSpec
CONSTANTS
  u1 = u1
  u2 = u2
  c1 = c1
  c2 = c2
  c3 = c3
  c4 = c4
  None = None
  Worker <- OneWorker
  Row <- TwoRows
  Connection <- OneConnection
  ConnectionOf <- Shared
  BatchSize = 2
  MaxStarts = 1
INVARIANT RequestsAtomic
CHECK_DEADLOCK FALSE
