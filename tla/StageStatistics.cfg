SPECIFICATION Spec
CONSTANTS
  ChannelIds <- MCChannelIds
  UnknownId = 5
  ContextTypes = {"LSM_KVS_DETAILED", "POSIX_META", "POSIX"}
  Metrics = {"throughput", "counter"}
  ClassifierType = "operation_context"
  Contexts <- MCContexts
  Loads <- MCLoads
  MaxRequests = 2
  MaxOperations = 2
INVARIANTS
  NothingLostBetweenWindows
  WindowsTileTime
  AggregatesCountOnce
  AnswersAreComplete
CHECK_DEADLOCK FALSE
