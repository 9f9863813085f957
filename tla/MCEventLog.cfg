SPECIFICATION FairSpec
CONSTANTS
  Subscribers = {s1}
  RingCapacity = 2
  HighWater = 1
  MaxSeq = 5
INVARIANTS
  SpillIsHistory
  SpillRises
  LiveIsComplete
PROPERTIES
  StreamKept
  ReplayEnded
CHECK_DEADLOCK FALSE
