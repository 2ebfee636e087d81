CONSTANTS
  LabelNames <- MCLabelNames
  LabelValues <- MCLabelValues
  Queries <- LateEngineQueries
SPECIFICATION Spec
INVARIANTS
  RemoteScope
