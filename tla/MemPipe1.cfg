CONSTANTS
  NumBuffers = 2
  ChunkSize = 2
  Receivers = {r1}
  a = a
  b = b
  z = z
  Byte <- MCBytes
  Junk = z
  Datas <- MCDatas
  CallbackErr = FALSE
  MaxSends = 4
SPECIFICATION FairSpec
INVARIANTS NoOrphan InOrder
PROPERTIES ImplementsChannel BlockingSendReturns AllocReturns EventuallyDelivered
