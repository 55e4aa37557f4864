SPECIFICATION FairSpec
CONSTANTS
  Clients = {c1, c2}
  Workers = {w1, w2}
  Payloads = {p1, p2}
  NoContent = NoContent
  NoThread = NoThread
  Modes = {FALSE, TRUE}
  MaxTickets = 3
INVARIANTS
  TypeOK
  TicketLifetime
  OwnResult
  CompletesInOrder
  NoLostWakeup
  CountersAgree
PROPERTIES
  ImplementsService
  EveryRequestAnswered
  DestructorEnds
