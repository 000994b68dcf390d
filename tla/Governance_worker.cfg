SPECIFICATION FairSpec
CONSTANTS
  Voters = {"ann", "bob"}
  Power <- MCPower
  Staked = 4
  WarmUp = 3
  Active = 2
  Queue = 4
  Grace = 2
  Threshold = 60
  MinQuorum = 60
  Soon = 1
  Safety = 2
  MaxTime = 15
  MaxBlocks = 5
  MaxReorgs = 0
  ReorgAge = 1
  StoreDelay = 1
  MaxLate = 1
INVARIANT AnnouncedOnce
PROPERTIES Settles
CHECK_DEADLOCK FALSE
