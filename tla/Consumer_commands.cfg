SPECIFICATION FairSpec
CONSTANTS
  From = 1
  MaxTo = 4
  BatchSize = 2
  Bad = {1}
  MaxEnds = 2
  MaxFaults = 1
INVARIANTS
  TypeOK
  TasksAccounted
  BatchQueuesAll
PROPERTIES
  OneBadBlockStarvesNobody
  StopReturns
CHECK_DEADLOCK FALSE
