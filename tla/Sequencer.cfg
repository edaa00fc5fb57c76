CONSTANTS
  Threads = {t1, t2, t3}
  p = p
  q = q
  bad = bad
  Payload = {p, q, bad}
  Bad = {bad}
  Capacity = 2
  HotPolls = 1
  MaxSends = 3
  None = None
SPECIFICATION MCSpec
INVARIANTS TypeOK TracesHeld HolesOwned
PROPERTIES ImplementsOrderedTrace EventuallyReported ThreadsEnd
CHECK_DEADLOCK FALSE
