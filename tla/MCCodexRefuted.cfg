\* Run by hand on CodexAdapter, with one of the properties at a time.
SPECIFICATION CodexSpec
CONSTANTS
  MaxTurns = 2
  RpcIds = {0}
INVARIANTS
  NoTurnLeftOpen
  ExecEndsOnce
CHECK_DEADLOCK FALSE
