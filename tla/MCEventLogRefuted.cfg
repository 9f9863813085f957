\* Run by hand on EventLog, one invariant at a time: each is refuted.
SPECIFICATION Spec
CONSTANTS
  Subscribers = {s1}
  RingCapacity = 1
  HighWater = 1
  MaxSeq = 4
INVARIANTS
  NoSilentGap
  TornLineCostsOne
CHECK_DEADLOCK FALSE
