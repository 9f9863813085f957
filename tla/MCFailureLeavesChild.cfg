\* One turn whose child prints its result while the failure branch writes meta.json.
SPECIFICATION Spec
CONSTANTS
  MaxTurns = 1
  MaxRecords = 0
  MaxOperations = 0
INVARIANTS
  FailureKillsChild
CHECK_DEADLOCK FALSE
