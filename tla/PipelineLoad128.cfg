CONSTANTS
  Setups <- MCLoadSetups
  Functions <- MCFunctions
  Accesses <- MCLoads
  Mmaps <- MCMmaps
  Munmaps <- MCMunmaps
  Syscalls <- MCSyscalls
  ChunkSize <- MCChunkSize
  MaxSteps <- MCMaxSteps
  Symbols <- MCSymbols
  Readelf <- MCReadelf
  Nm <- MCNm
  Garbled <- MCGarbled
  NumBuffers = 2
  ServerThreads = 2
SPECIFICATION Spec
INVARIANT HalvesAdjacent
CHECK_DEADLOCK FALSE
