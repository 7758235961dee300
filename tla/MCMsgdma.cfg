SPECIFICATION FairSpec
CHECK_DEADLOCK FALSE
CONSTANTS
  max_byte = 4
  max_stride = 1
  enhanced_features = 0
  Depth = 2
  TIME_OUT = 1
  MaxDesc = 4
  Requests <- SomeRequests
  Calls = {"async"}
  MayPassNull = FALSE
  MayFail = FALSE
  Chains = TRUE
  MayUnregister = FALSE
PROPERTIES
  EveryTransferCallsBack
