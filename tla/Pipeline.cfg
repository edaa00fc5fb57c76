CONSTANTS
  Setups <- MCSetups
  Functions <- MCFunctions
  Accesses <- MCAccesses
  Mmaps <- MCMmaps
  Munmaps <- MCMunmaps
  Syscalls <- MCSyscalls
  ChunkSize <- MCChunkSize
  MaxSteps <- MCMaxSteps
  Symbols <- MCSymbols
  Readelf <- MCReadelf
  Nm <- MCNm
  Garbled <- MCGarbled
  NumBuffers = 2
  ServerThreads = 2
SPECIFICATION FairSpec
INVARIANTS TypeOK EventsFaithful KnownFailures RegistersFaithful SymbolsNearest CoverageExact BacktraceExact CountsExact
PROPERTIES Drains
CHECK_DEADLOCK FALSE
