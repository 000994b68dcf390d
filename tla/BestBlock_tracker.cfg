SPECIFICATION FairSpec
CONSTANTS
  Modes = {TRUE, FALSE}
  Subscribers = {tm}
  StartTip = 2
  MaxTip = 4
  MaxReorgs = 2
  MaxFaults = 2
INVARIANTS TypeOK NoSkippedHeight ReorgRepublished
PROPERTIES CloseReturns CatchesUp
CHECK_DEADLOCK FALSE
