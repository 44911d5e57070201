SPECIFICATION Spec
CONSTANTS
  maxConnections = 2
  Clients = {c1, c2, c3}
  NoFd = NoFd
  ShutdownSupport = TRUE
INVARIANTS
  TypeOK
  NothingInherited
PROPERTIES
  Accepted
  ShutdownEnds
CHECK_DEADLOCK FALSE
