CONSTANTS
  c1 = c1
  c2 = c2
  c3 = c3
  d1 = d1
  p = p
  q = q
  Clients = {c1, c2, c3, d1}
  Pids = {p, q}
  PidOf <- MCPidOf
  Failures = FALSE
  None = None
SPECIFICATION Spec
INVARIANT NeverPoisoned
CHECK_DEADLOCK FALSE
