SPECIFICATION FairSpec
CONSTANTS
  FirstBest = 1
  MaxBlock = 2
  Lag = 0
  BackfillEnabled = TRUE
  Handlers = {h1}
  Ops = {"toggle", "reset", "todo"}
  NapSuffices = TRUE
  MaxAnnounce = 1
  MaxRequests = 3
  MaxFaults = 0
  MaxRequeues = 1
INVARIANTS TypeOK PausedHoldsNothing
PROPERTIES PauseTakesEffect Drains ImplementsFairQueue
CHECK_DEADLOCK FALSE
