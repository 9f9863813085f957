\* Run by hand on SessionTurn, one invariant at a time: each is refuted.
SPECIFICATION Spec
CONSTANTS
  MaxTurns = 3
  MaxRecords = 1
  MaxOperations = 0
INVARIANTS
  SubscriberSeesTurnEnd
  OneTurnInFlight
CHECK_DEADLOCK FALSE
