SPECIFICATION Spec
CONSTANTS
  Queries <- SideQueries
  CustomHists = {3}
  StepsBatch = 2
  NumSteps = 3
  FirstStep = 0
INVARIANT OfTwoStepVectors
