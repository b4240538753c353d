SPECIFICATION FairSpec
CONSTANTS
  a1 = a1
  a2 = a2
  a3 = a3
  c1 = c1
  c2 = c2
  NoOne = NoOne
  Codes = {c1}
  Accounts = {a1, a2}
  Keys = {k1}
  Conns = {s1}
  Throws = {"rock"}
  RechargeAmounts = {100}
  Grace = 1
  Inactivity = 2
  Lease = 1
  MaxRound = 2
  MaxClock = 2
  MaxGeneration = 2
INVARIANTS SettlementMatchesRound InactivityTracksRound
PROPERTIES PaysAsPromised ForfeitOnlyAbsent AbsenceEnds
CHECK_DEADLOCK FALSE
