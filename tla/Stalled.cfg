SPECIFICATION FairSpec
CONSTANTS
  a1 = a1
  a2 = a2
  a3 = a3
  c1 = c1
  c2 = c2
  NoOne = NoOne
  Codes = {c1, c2}
  Accounts = {a1, a2}
  Keys = {k1}
  Conns = {s1}
  Throws = {}
  RechargeAmounts = {50}
  Grace = 1
  Inactivity = 1
  Lease = 1
  MaxRound = 1
  MaxClock = 1
  MaxGeneration = 1
PROPERTIES FundedRoundSettles
CHECK_DEADLOCK FALSE
