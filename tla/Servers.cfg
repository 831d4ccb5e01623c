SPECIFICATION Spec
CONSTANTS
  Clients = {c1, c2}
  MaxWords = 4
  LongAt = {2}
  BUFFER = 3
  BACKLOG = 0
  MaxFaults = 1
  None = None
INVARIANTS
  SocketsClosed
  RequestAsSent
PROPERTY EveryClientHandled
