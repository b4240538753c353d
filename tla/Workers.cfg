SPECIFICATION Spec
CONSTANTS
  p1 = p1
  p2 = p2
  r1 = r1
  r2 = r2
  r3 = r3
  Servers = {p1}
  Rooms = {r1, r2, r3}
  Broke = {r1}
  BatchSize = 2
  MaxDrainBatches = 2
  MaxRound = 1
  MaxFaults = 1
PROPERTIES ReadyRoundMoves EchoesEnd
CHECK_DEADLOCK FALSE
