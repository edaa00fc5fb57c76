CONSTANTS
  pc = pc
  mem = mem
  mmap = mmap
  Event = {pc, mem}
  Call = {mmap}
  Size <- MCSize
  ChunkSize = 4
  Capacity = 2
  Junk = Junk
  None = None
  Poison = Poison
  Racing = TRUE
  MaxBytes = 7
  MaxSends = 3
SPECIFICATION FairSpec
INVARIANTS TypeOK NeverPanics TraceKept WholeEvents FieldCurrent
PROPERTIES HooksReturn
CHECK_DEADLOCK FALSE
