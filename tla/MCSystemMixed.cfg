SPECIFICATION Spec
CONSTANTS
  N = 4
  FLITS = 2
  DEPTH = 2
  WORD = 64
  ACC = 4096
  MaxRows = 12
  MAX_BATCH = 3
  ZeroFlit <- MCZeroFlit
  RD_REVERSED = TRUE
  BRIDGE = 2
  Sessions <- MCMixed
INVARIANTS
  EopEndsJob
