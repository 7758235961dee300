SPECIFICATION FairSpec
CONSTANTS
  DEPTH = 3
  FLITS = 2
  WORD = 64
  MaxRows = 8
  MaxTotal = 3
  ZeroFlit <- MCZeroFlit
INVARIANTS
  TypeOK
  RowsConserved
  FifoHoldsYoungest
  NextFlitOnBus
PROPERTIES
  HeldUntilReady
  Framed
  ImplementsRowStream
  RowsDelivered
