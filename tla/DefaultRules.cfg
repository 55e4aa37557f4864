SPECIFICATION Spec
CONSTANTS
  Configurations <- OneStage
  Operations <- SomeOperations
  MaxOperations = 0
  MaxUnread = 1
  NoPath = NoPath
  NotANumber = NotANumber
INVARIANTS
  DefaultRulesEnforced
CHECK_DEADLOCK FALSE
