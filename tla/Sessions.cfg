SPECIFICATION Spec
CONSTANTS
  a = a
  b = b
  x = x
  y = y
  NoOne = NoOne
  Accounts = {a, b}
  Tokens = {x, y}
  Owner <- MCOwner
  MaxEvents = 3
  MaxSessions = 2
  MaxFaults = 1
INVARIANTS TokenOfShown ShowsLatest ShownCanAct SignedOutForgets OneLateFrame
CHECK_DEADLOCK FALSE
