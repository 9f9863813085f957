\* Run by hand on RpcSubscriptions: WatermarkNeverAdvances is refuted.
SPECIFICATION RpcSpec
CONSTANTS
  Subs = {1}
  MaxSeq = 3
  MaxCredit = 1
  QueueBudget = 1
  ControlLimit = 2
  Burst = 1
INVARIANT WatermarkNeverAdvances
CHECK_DEADLOCK FALSE
