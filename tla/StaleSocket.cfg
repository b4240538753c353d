SPECIFICATION Spec
CONSTANTS
  b1 = b1
  b2 = b2
  NoSocket = NoSocket
  Sockets = {b1, b2}
  MaxRooms = 1
  MaxRevision = 2
  MaxFaults = 1
INVARIANTS SocketsConverge
CHECK_DEADLOCK FALSE
