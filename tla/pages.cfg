SPECIFICATION FairSpec
CONSTANTS
  Parts <- AllParts
  Fetches <- Two
  MaxVersion = 1
  MaxFaults = 1
  MaxSwitches = 2
  MaxPushes = 1
  BannerAfter = 1
  Requests <- Two
  MaxRows = 1
  MaxServingFaults = 2
  MaxMounts = 1
  Scripts <- ThreeScripts
  MaxQuestions = 2
  MaxPiece = 3
  MaxBreaks = 1
  Events <- Two
  Profile <- TwoProfiles
  ProbeWords <- ProbeWordsOf
  MAX_IN_FLIGHT = 1
  INGRESS_SAMPLES = 1
  SERVED_SAMPLES = 2
  BUDGET_MS = 9
  MaxCuts = 1
  MIN_CLICKS = 1
  STREAMLIT_RENDER_MS = 9
  TIED_MS = 2
  MAX_TAPE = 2
  MAX_LATENCY_BARS = 2
INVARIANTS TypeOK AnswerIsWhole SegmentsAddUp PanelsAgree
PROPERTIES ShowsItsView BannerClears TilesConverge PastIsShown TotalsSettle AnswerEnds
CHECK_DEADLOCK FALSE
