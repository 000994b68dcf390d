SPECIFICATION Spec
CONSTANTS
  Lag = 1
  Backfill = TRUE
  DeleteEntityDefined = TRUE
  Lookback = 1
  StartTip = 2
  Final = 1
  MaxHeight = 3
  MaxFork = 1
  MaxCrashes = 1
  MaxFailures = 1
 
PROPERTIES DeletedOnlyToReplace
CHECK_DEADLOCK FALSE
