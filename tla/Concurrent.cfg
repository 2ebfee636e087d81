SPECIFICATION FairSpec
CONSTANTS
  BufferSize = 2
  NumBatches = 5
INVARIANTS
  TypeOK
  BuffersPartition
  ReturnNeverBlocks
  CallerBatchStable
PROPERTIES
  StreamRefinement
  GoroutinesExit
  NextReturns
CHECK_DEADLOCK FALSE
