SPECIFICATION FairSpec
CONSTANTS
  Lag = 0
  Backfill = TRUE
  DeleteEntityDefined = FALSE
  Lookback = 1
  StartTip = 3
  Final = 2
  MaxHeight = 3
  MaxFork = 1
  MaxCrashes = 0
  MaxFailures = 0

PROPERTY ReorgedBlockReplaced
CHECK_DEADLOCK FALSE
