SPECIFICATION FairSpec
CONSTANTS
  s1 = s1
  s2 = s2
  r1 = r1
  Sessions = {s1, s2}
  Reqs = {r1}
  NoSession = NoSession
  Inputs <- MCInputs
  MaxLive = 1
  MaxCrashes = 2
INVARIANTS
  OneLivePerWorkspace
  PublishedIsPaid
  RefusedHoldsNoClaim
CHECK_DEADLOCK FALSE
PROPERTIES
  CreateReturns
