SPECIFICATION FairSpec
CONSTANTS
  b1 = b1
  b2 = b2
  NoSocket = NoSocket
  Sockets = {b1, b2}
  MaxRooms = 2
  MaxRevision = 2
  MaxFaults = 1
INVARIANTS FeedTypeOK ServedFromHub
PROPERTIES SetupEnds HubCatchesUp
CHECK_DEADLOCK FALSE
