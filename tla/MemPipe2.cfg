CONSTANTS
  NumBuffers = 3
  ChunkSize = 2
  Receivers = {r1, r2}
  a = a
  b = b
  z = z
  Byte <- MCBytes
  Junk = z
  Datas <- MCDatas2
  CallbackErr = TRUE
  MaxSends = 4
SYMMETRY ReceiverSymmetry
SPECIFICATION Spec
INVARIANTS NoOverwriteWhileRead NoSharedBuffer Integrity NoLoss ReorderBound
PROPERTIES ImplementsChannel BlockingSendWaits
