SPECIFICATION Spec
CONSTANTS
  Threads = {t1}
  Definers = {d1}
  Operations = {"write", "read", "posix_base", "enforce", "close"}
  Workflows <- SomeWorkflows
  Types <- SomeTypes
  Contexts <- SomeContexts
  GivenContexts <- SomeGivenContexts
  FirstDefault <- SomeDefault
  Counts = {1}
  Requests <- SomeRequests
  DefaultCapacity = 1
  Classifiers <- ByWorkflow
  Pairs <- ByType
  Hash <- SomeHash
  NotFound = NotFound
  MaxSettings = 1
  None = None
INVARIANTS
  BuilderFollowsClassifiers
  WrittenAsEnforced
  RefusedForAReason
PROPERTIES
  RoutedByClassifiers
  CallReturns
CHECK_DEADLOCK FALSE
