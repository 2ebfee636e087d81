SPECIFICATION Spec
CONSTANTS
  Labels = {a, b}
  MaxSeries = 2
  Values = {1, 2}
  MinTime <- NoTime
  MaxTime = 0
INVARIANT OneSamplePerSeries
