CONSTANTS
  c1 = c1
  c2 = c2
  d1 = d1
  p = p
  r = r
  Clients = {c1, c2, d1}
  Pids = {p, r}
  PidOf <- MCPidOf
  ForkOf <- MCForkOf
  Matches = {c1, c2, d1}
  Failures = TRUE
  Loops = {FALSE}
  None = None
SPECIFICATION LFairSpec
PROPERTY EveryThreadServed
CHECK_DEADLOCK FALSE
