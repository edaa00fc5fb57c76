CONSTANTS
  NumBuffers = 2
  ChunkSize = 2
  Receivers = {r1, r2}
  a = a
  b = b
  z = z
  Byte <- MCBytes
  Junk = z
  Datas <- MCDatas1
  CallbackErr = FALSE
  MaxSends = 3
SPECIFICATION FairSpec
PROPERTIES BlockingSendReturns
