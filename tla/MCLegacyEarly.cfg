SPECIFICATION PacedSpec
CONSTANTS
  ACC = 1024
  WORD = 1024
  BYTE = 16
  Operands <- MCOperands
INVARIANTS
  EarlyReadIsStale
