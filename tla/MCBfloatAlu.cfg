CONSTANTS
  Inputs <- Samples
  Factors <- SampleFactors
  STEPS = 3
SPECIFICATION AluSpec
INVARIANTS ProductTruncated StepWithinOneUnit ZeroAddsNothing LoadIsExact
