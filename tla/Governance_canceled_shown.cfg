SPECIFICATION Spec
CONSTANTS
  Voters = {"ann", "bob"}
  Power <- MCPower
  Staked = 4
  WarmUp = 3
  Active = 2
  Queue = 4
  Grace = 2
  Threshold = 60
  MinQuorum = 60
  Soon = 1
  Safety = 2
  MaxTime = 8
  MaxBlocks = 3
  MaxReorgs = 1
  ReorgAge = 1
  StoreDelay = 1
  MaxLate = 0
INVARIANT CanceledShown
CHECK_DEADLOCK FALSE
