SPECIFICATION Spec
CONSTANTS
  MaxTurns = 2
  MaxRecords = 0
  MaxOperations = 0
PROPERTY NoSpawnIntoEndedSession
CHECK_DEADLOCK FALSE
