SPECIFICATION FairSpec
CONSTANTS
  Clients = {c1, c2}
  Workers = {w1}
  Payloads = {p1, p2}
  NoContent = NoContent
  NoThread = NoThread
  Modes = {FALSE}
  MaxTickets = 2
PROPERTIES
  OtherThreadPicks
