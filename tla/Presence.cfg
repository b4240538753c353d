SPECIFICATION Spec
CONSTANTS
  a1 = a1
  a2 = a2
  a3 = a3
  c1 = c1
  c2 = c2
  NoOne = NoOne
  Codes = {c1}
  Accounts = {a1, a2}
  Keys = {k1}
  Conns = {s1, s2}
  Throws = {"rock"}
  RechargeAmounts = {50}
  Grace = 1
  Inactivity = 2
  Lease = 1
  MaxRound = 1
  MaxClock = 2
  MaxGeneration = 3
SYMMETRY Symmetry
INVARIANTS EveryRevisionAnnounced GraceOnlyForAbsent
PROPERTIES VisibleChangeBumpsRevision ForfeitOnlyAbsent
CHECK_DEADLOCK FALSE
