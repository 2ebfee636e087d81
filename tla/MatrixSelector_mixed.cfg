SPECIFICATION Spec
CONSTANTS
  Nothing = Nothing
  Nil = Nil
  Stale = Stale
  InitialSize = 2
  HistWeight = 2
  Queries <- MCQueries
  Kinds = {"generic", "extended", "overtime", "rate"}
  Values <- MCValues
  StepsBatch = 2
  MaxSamples = 5
  MaxTime = 5
INVARIANT MixedRangeHasNoRate
