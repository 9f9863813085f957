\* Run by hand on ProcessReap: ShutdownKills is refuted.
SPECIFICATION ReapSpec
CONSTANTS
  Hosts = {here, there}
  Pids = {1}
  Images = {cli, other}
  CLI = cli
  MaxBirths = 3
  MaxLives = 3
  MaxReboots = 1
INVARIANT ShutdownKills
CHECK_DEADLOCK FALSE
