\* Run by hand on Records: TornTailKeepsFinal is refuted.
SPECIFICATION Spec
CONSTANTS
  Reqs = {r1}
  NoSession = NoSession
  Revs = {v1}
  MaxRevisions = 3
  MaxCrashes = 2
INVARIANT TornTailKeepsFinal
CHECK_DEADLOCK FALSE
