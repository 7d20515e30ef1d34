SPECIFICATION FairSpec
CONSTANTS
  e1 = e1
  e2 = e2
  raw = raw
  book = book
  Tables <- OneTable
  Events <- TwoEvents
  EnvHost = 0
  MaxRotations = 1
  MaxRedeploys = 1
  MaxFaults = 2
  MAX_POLLS = 2
INVARIANT TypeOK
PROPERTIES ImplementsContract KeepsLastGood SelfHeals EveryPostEnds
CHECK_DEADLOCK FALSE
