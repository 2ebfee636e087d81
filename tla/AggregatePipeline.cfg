SPECIFICATION FairSpec
CONSTANTS
  NumShards = 2
  StepsBatch = 2
  NumSteps = 5
  Lookback = 3
  Offset = 1
  Inputs <- MCInputs
INVARIANTS
  TypeOK
  OutputIsReference
  ErrorsSurface
PROPERTY Terminates
