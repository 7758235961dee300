SPECIFICATION FairSpec
CONSTANTS
  N = 4
  ACC = 4096
  Weights <- MCWeights
  Inputs <- MCInputs
  LATCH_GAP = 6
INVARIANTS
  ResultsCorrect
  WeightsLatched
  ColumnConserved
  RowsInStep
PROPERTIES
  JobsFinish
