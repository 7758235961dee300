SPECIFICATION ProgramsSpec
CONSTANTS
  RD_REVERSED = TRUE
INVARIANTS
  EopEndsEveryJob
  NoJobLeavesRows
  JobsFindWeights
  ProgramsPass
PROPERTIES
  ProgramsEnd
