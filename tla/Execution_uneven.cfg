CONSTANTS
  LabelNames <- MCLabelNames
  LabelValues <- MCLabelValues
  Queries <- UnevenEndQueries
SPECIFICATION Spec
INVARIANTS
  RemoteScope
