CONSTANTS
  Threads = {t1, t2}
  p = p
  q = q
  bad = bad
  Payload = {p}
  Bad = {}
  Capacity = 2
  HotPolls = 1
  MaxSends = 2
  None = None
SPECIFICATION Spec
INVARIANT AllReported
CHECK_DEADLOCK FALSE
