CONSTANTS
  LabelNames <- MCLabelNames
  LabelValues <- MCLabelValues
  Queries <- OutdatedQueries
SPECIFICATION Spec
INVARIANTS
  StepsMatch
