SPECIFICATION Spec
CONSTANTS
  FirstBest = 2
  MaxBlock = 3
  Lag = 1
  BackfillEnabled = TRUE
  Handlers = {h1}
  Ops = {"toggle", "exit", "stop", "todo"}
  NapSuffices = TRUE
  MaxAnnounce = 3
  MaxRequests = 2
  MaxFaults = 1
  MaxRequeues = 0
INVARIANTS WatcherLeavesNoGap ExitDelayedLosesNothing
PROPERTIES ImplementsQueue
CHECK_DEADLOCK FALSE
