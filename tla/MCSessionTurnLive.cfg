SPECIFICATION FairSpec
CONSTANTS
  MaxTurns = 1
  MaxRecords = 2
  MaxOperations = 2
PROPERTIES
  SendReturns
  KillFreesSlot
CHECK_DEADLOCK FALSE
