SPECIFICATION FairRpcSpec
CONSTANTS
  Subs = {1, 2}
  MaxSeq = 2
  MaxCredit = 1
  QueueBudget = 1
  ControlLimit = 2
  Burst = 1
PROPERTIES
  StreamKept
  CreditedMovesOn
CHECK_DEADLOCK FALSE
