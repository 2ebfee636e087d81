SPECIFICATION Spec
CONSTANTS
  Queries <- EpochQueries
  CustomHists = {3}
  StepsBatch = 2
  NumSteps = 3
  FirstStep <- BeforeEpoch
INVARIANT RefusedIffAmbiguous
