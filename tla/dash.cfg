SPECIFICATION FairSpec
CONSTANTS
  MAX_TAPE = 2
  MAX_LATENCY_BARS = 2
  Events <- TwoEvents
  Mine <- OneEvent
  Others <- OtherEvent
  Sockets <- TwoSockets
  PollSlots <- OnePoll
  MaxDrops = 1
  MaxReplays = 1
  MaxPushes = 1
  Words = {"real"}
INVARIANTS TypeOK OneConnection OneOfEach GreenIsCommitted
PROPERTIES ClientBarStays Reconnects TapeConverges
CHECK_DEADLOCK FALSE
