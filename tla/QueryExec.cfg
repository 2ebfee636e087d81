SPECIFICATION FairSpec
CONSTANTS
  Queries = {q1, q2}
  StringQueries = {q2}
  MaxConcurrent = 1
  NumBatches = 2
  Ahead = 2
  MaxSamples = 1
INVARIANTS
  TypeOK
  SuccessIsComplete
  ResultWithinLimit
  RemoteQueriesClosed
PROPERTIES
  ExecReturns
CHECK_DEADLOCK FALSE
