SPECIFICATION Spec
CONSTANTS
  Configurations <- SomeConfigurations
  Operations <- SomeOperations
  MaxOperations = 4
  MaxUnread = 2
  NoPath = NoPath
  NotANumber = NotANumber
INVARIANTS
  OneAnswerEach
  OkMeansDone
  ReadyForAReason
  ObjectsFindTheirChannels
  TerminatesInMidOperation
PROPERTIES
  DestructorEnds
CHECK_DEADLOCK FALSE
