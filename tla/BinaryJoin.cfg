SPECIFICATION Spec
CONSTANTS
  Queries <- MCQueries
  CustomHists = {3}
  StepsBatch = 2
  NumSteps = 3
  FirstStep = 0
INVARIANTS
  TypeOK
  StepsAreJoined
  RefusedIffAmbiguous
  StepsAsDelivered
