SPECIFICATION Spec
CONSTANTS
  t1 = t1
  t2 = t2
  t3 = t3
  c1 = c1
  c2 = c2
  Txs = {t1, t2, t3}
  Codes = {c1, c2}
  Host <- MCHost
  Guest <- MCGuest
  Start <- MCStart
  MaxBegun = 3
SYMMETRY Symmetry
INVARIANTS LoadedIsCurrent OnlyLeaveDeadlocks
PROPERTIES RevisionsGapless ActionsKept DecidedRoundFixed ClosedRoomStays
CHECK_DEADLOCK FALSE
