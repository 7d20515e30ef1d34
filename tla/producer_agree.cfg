SPECIFICATION Spec
CONSTANTS
  p1 = p1
  p2 = p2
  probe = probe
  Null = Null
  POSITIONS_DIM <- TwoPositions
  UnknownIds = {}
  EventTypes = {"MARK"}
  Batches <- MixedBatch
  Faults = {"crash"}
  MaxClock = 6
  MaxHorizon = 0
INVARIANTS TypeOK StrategiesAgree
CHECK_DEADLOCK FALSE
