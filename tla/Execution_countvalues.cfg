CONSTANTS
  LabelNames <- MCLabelNames
  LabelValues <- MCLabelValues
  Queries <- BatchedCountValuesQueries
SPECIFICATION Spec
INVARIANTS
  StepsMatch
