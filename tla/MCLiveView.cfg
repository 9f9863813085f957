SPECIFICATION FairViewSpec
CONSTANTS
  MaxSeq = 3
  Parts = 2
  RingCapacity = 1
  HighWaters = {1, 3}
  Holes = {0, 1, 2}
  MaxDrops = 1
  MaxSelects = 1
CHECK_DEADLOCK FALSE
INVARIANT ViewIsHistory
PROPERTY ViewCatchesUp
