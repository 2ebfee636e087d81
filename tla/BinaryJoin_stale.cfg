SPECIFICATION Spec
CONSTANTS
  Queries <- KeptQueries
  CustomHists = {3}
  StepsBatch = 2
  NumSteps = 3
  FirstStep = 0
INVARIANT OfTwoStepVectors
