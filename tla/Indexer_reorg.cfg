SPECIFICATION FairSpec
CONSTANTS
  Lag = 0
  Backfill = TRUE
  DeleteEntityDefined = TRUE
  Lookback = 1
  StartTip = 2
  Final = 1
  MaxHeight = 3
  MaxFork = 1
  MaxCrashes = 0
  MaxFailures = 0

INVARIANTS TypeOK
PROPERTIES Converges
CHECK_DEADLOCK FALSE
