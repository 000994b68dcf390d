SPECIFICATION Spec
CONSTANTS
  Users = {"a", "b", "c"}
  Tokens = {"kek", "t1"}
  Year = 3
  Scale = 2
  Calls <- MCCalls
  MaxHeight = 2
  MaxBlocks = 3
  MaxTxs = 4
  MaxFaults = 1
INVARIANTS
  TypeOK
  RowsMatchBlock
  PowerMatchesContract
  StakedIsHeld
  DelegateesTold
  ListMatchesCount
  
  
CHECK_DEADLOCK FALSE
