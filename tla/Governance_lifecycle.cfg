SPECIFICATION Spec
CONSTANTS
  Voters = {"ann", "bob"}
  Power <- MCPower
  Staked = 4
  WarmUp = 3
  Active = 2
  Queue = 4
  Grace = 2
  Threshold = 60
  MinQuorum = 60
  Soon = 1
  Safety = 2
  MaxTime = 15
  MaxBlocks = 6
  MaxReorgs = 1
  ReorgAge = 1
  StoreDelay = 1
  MaxLate = 0
INVARIANTS TypeOK   FinalIsFinal NoOrphanRows AnnouncedOnce PhasesAnnounced ShownInItsPhase
CHECK_DEADLOCK FALSE
