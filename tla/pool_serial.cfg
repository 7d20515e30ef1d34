SPECIFICATION Spec
CONSTANTS
  t1 = t1
  t2 = t2
  Threads <- TwoThreads
  PARTITIONS = 2
  NumCalls = 3
  PartitionOf <- TwoPartitions
  RowCalls <- AllButSecond
  MAX_RECOVERY_ATTEMPTS = 3
  CallersOverlap = FALSE
  MaxFaults = 3
INVARIANTS TypeOK AckedRowsCommitted PartitionOrder
PROPERTY ImplementsContract
CHECK_DEADLOCK FALSE
