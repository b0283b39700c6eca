SPECIFICATION FairSpec
CONSTANTS
  u1 = u1
  u2 = u2
  u3 = u3
  Null = Null
  Worker <- OneWorker
  Row <- OneRow
  BatchSize = 1
  Poison = {}
  MaxAbandon = 1
  MaxPublished = Null
  Retention = 0
  ClaimTimeout = 2
PROPERTY EveryMessagePublished
CHECK_DEADLOCK FALSE
