CONSTANTS
  LabelNames <- MCLabelNames
  LabelValues <- MCLabelValues
  Queries <- YoungRegionQueries
SPECIFICATION Spec
INVARIANTS
  MeaningPreserved
