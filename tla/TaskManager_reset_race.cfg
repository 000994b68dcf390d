SPECIFICATION Spec
CONSTANTS
  FirstBest = 1
  MaxBlock = 2
  Lag = 0
  BackfillEnabled = TRUE
  Handlers = {h1}
  Ops = {"reset"}
  NapSuffices = TRUE
  MaxAnnounce = 2
  MaxRequests = 1
  MaxFaults = 0
  MaxRequeues = 0
INVARIANT ResetBackfillsChain
CHECK_DEADLOCK FALSE
