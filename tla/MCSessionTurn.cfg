SPECIFICATION Spec
CONSTANTS
  MaxTurns = 2
  MaxRecords = 1
  MaxOperations = 1
INVARIANTS
  SlotExclusive
  ChildHasTurn
  TurnBracketed
  AnnouncedTurnCloses
CHECK_DEADLOCK FALSE
PROPERTIES
  SessionEndIsLast
