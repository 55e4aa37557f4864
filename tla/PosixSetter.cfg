SPECIFICATION Spec
CONSTANTS
  Threads = {t1}
  Definers = {}
  Operations = {"write"}
  Workflows <- SomeWorkflows
  Types <- SomeTypes
  Contexts <- SomeContexts
  GivenContexts <- SomeGivenContexts
  FirstDefault <- SomeDefault
  Counts = {1}
  Requests <- SomeRequests
  DefaultCapacity = 1
  Classifiers <- ByWorkflow
  Pairs <- ByType
  Hash <- SomeHash
  NotFound = NotFound
  MaxSettings = 1
  None = None
INVARIANTS
  SetterIsThreadSafe
CHECK_DEADLOCK FALSE
