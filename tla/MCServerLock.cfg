SPECIFICATION FairSpec
CONSTANTS
  Servers = {p1, p2}
  Former = p0
  Hosts = {h1, h2}
  Window = 10
  Interval = 2
  DrainTimeout = 5
  KillTimeout = 2
  BootTime = 0
  MayBeLate = {p1}
  Renewals = 8
INVARIANTS
  RootExclusive
  HostExclusive
PROPERTIES
  DisplacedStops
