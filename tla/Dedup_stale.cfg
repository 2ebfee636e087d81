SPECIFICATION Spec
CONSTANTS
  Labels = {a, b}
  MaxSeries = 3
  Values = {1, 2}
  MinTime = 0
  MaxTime = 1
INVARIANT SkipsPreviousIterations
