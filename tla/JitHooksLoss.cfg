CONSTANTS
  pc = pc
  mem = mem
  mmap = mmap
  Event = {pc, mem}
  Call = {mmap}
  Size <- MCSize
  ChunkSize = 4
  Capacity = 2
  Junk = Junk
  None = None
  Poison = Poison
  Racing = FALSE
  MaxBytes = 7
  MaxSends = 3
SPECIFICATION Spec
INVARIANT NothingLost
CHECK_DEADLOCK FALSE
