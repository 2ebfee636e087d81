CONSTANTS
  LabelNames <- MCLabelNames
  LabelValues <- MCLabelValues
  Queries <- MCQueries
SPECIFICATION Spec
INVARIANTS
  MeaningPreserved
  RemoteScope
  ReadsWithinMinMaxTime
  StepsMatch
  EveryStepOnce
  OutcomeJustified
  Lockstep
