SPECIFICATION Spec
CONSTANTS
  Requests = {r1}
  MaxTurns = 2
INVARIANT RestartClosesEveryTurn
CHECK_DEADLOCK FALSE
