CONSTANTS
  LabelNames <- MCLabelNames
  LabelValues <- MCLabelValues
  Queries <- BatchedScalarQueries
SPECIFICATION Spec
INVARIANTS
  StepsMatch
