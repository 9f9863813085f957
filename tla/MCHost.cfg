SPECIFICATION HostSpec
CONSTANTS
  Hosts = {here, there}
  Pids = {1}
  Images = {cli, other}
  CLI = cli
  MaxBirths = 3
  MaxLives = 3
  MaxReboots = 1
  Reqs = {r1, r2}
  NoSession = NoSession
  Revs = {v1}
  MaxRevisions = 3
  Sessions = {s1}
  MaxCrashes = 2
  Items = {1}
  TokenBudget = 2
  WarnLine = 1
  Burns = {1, 2}
  MaxEvents = 6
  MaxRefusals = 1
INVARIANTS
  StrangersSpared
  OrphansReaped
  DecidedOnce
  FinalStays
  ItemCompletedOnce
  NoticeFollowsCrossing
  IdleIsBetweenTurns
SYMMETRY Alike
CHECK_DEADLOCK FALSE
