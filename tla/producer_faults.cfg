SPECIFICATION Spec
CONSTANTS
  p1 = p1
  p2 = p2
  probe = probe
  Null = Null
  POSITIONS_DIM <- OnePosition
  UnknownIds = {probe}
  EventTypes = {"TRADE", "MARK"}
  Batches <- TwoMarks
  Faults = {"crash", "init_fail", "load_fail", "raw_error", "book_error"}
  MaxClock = 4
  MaxHorizon = 2
INVARIANTS RollupsAgree NoStaleBook LiveMarksKept
CHECK_DEADLOCK FALSE
