SPECIFICATION Spec
CONSTANTS
  BufferSize = 2
  NumBatches = 2
INVARIANT EndMeansComplete
CHECK_DEADLOCK FALSE
