SPECIFICATION FairSpec
CONSTANTS
  t1 = t1
  t2 = t2
  Threads <- TwoThreads
  PARTITIONS = 1
  NumCalls = 2
  PartitionOf <- OnePartition
  RowCalls <- Calls
  MAX_RECOVERY_ATTEMPTS = 3
  CallersOverlap = TRUE
  MaxFaults = 2
INVARIANT RecoveryExclusive
PROPERTIES EveryCallReturns EmptyPoolReopens
CHECK_DEADLOCK FALSE
