SPECIFICATION DmaSpec
CHECK_DEADLOCK FALSE
CONSTANTS
  max_byte = 4
  max_stride = 1
  enhanced_features = 0
  Depth = 2
  TIME_OUT = 1
  MaxDesc = 4
  Requests <- SomeRequests
  Calls = {"async", "sync"}
  MayPassNull = TRUE
  MayFail = TRUE
  Chains = TRUE
  MayUnregister = TRUE
  BuildN = 2
  BuildExec = 2
  RunN = 3
  RunExec = 4
INVARIANTS
  TransfersSound
  SyncMeansDone
  DescriptorsFit
  RunsInListOrder
PROPERTIES
  DmaCompletes
