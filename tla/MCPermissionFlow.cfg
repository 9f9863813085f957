SPECIFICATION Spec
CONSTANTS
  Requests = {r1, r2}
  MaxTurns = 2
INVARIANTS
  PermissionPaired
  DecisionAudited
  RestartClosesTurns
SYMMETRY Symmetry
CHECK_DEADLOCK FALSE
