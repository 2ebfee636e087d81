CONSTANTS
  LabelNames <- MCLabelNames
  LabelValues <- MCLabelValues
  Queries <- OffsetQueries
SPECIFICATION Spec
INVARIANTS
  RemoteScope
