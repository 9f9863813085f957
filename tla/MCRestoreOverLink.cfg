SPECIFICATION OperatorSpec
CONSTANTS
  Sessions = {1, 2}
  Followed = {"list", "checkpoints", "checklist", "payroll", "reviews"}
  MaxCalls = 2
  MaxSends = 1
  Limit = 1
  AuditPageMax = 2
  MaxLines = 3
  MaxLoads = 3
  MaxRestarts = 1
  Paths <- MCPaths
  Ignorable <- MCIgnorable
  Repos <- MCRepos
  Contents = {x, l}
  Dangling = {l}
  Gitlink = Gitlink
  MaxCommits = 2
INVARIANT IgnoredStands
CHECK_DEADLOCK FALSE
