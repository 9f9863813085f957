\* Run by hand on ServerLock, one invariant at a time: each is refuted.
SPECIFICATION Spec
CONSTANTS
  Servers = {p1, p2}
  Former = p0
  Hosts = {h1, h2}
  Window = 10
  Interval = 2
  DrainTimeout = 5
  KillTimeout = 2
  BootTime = 4
  MayBeLate = {}
  Renewals = 8
INVARIANTS
  OneHolder
  HolderNamed
