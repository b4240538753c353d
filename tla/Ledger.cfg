SPECIFICATION FairSpec
CONSTANTS
  a1 = a1
  a2 = a2
  a3 = a3
  c1 = c1
  c2 = c2
  NoOne = NoOne
  Codes = {c1}
  Accounts = {a1, a2}
  Keys = {k1}
  Conns = {}
  Throws = {"rock", "paper"}
  RechargeAmounts = {50, 100}
  Grace = 1
  Inactivity = 1
  Lease = 1
  MaxRound = 2
  MaxClock = 2
  MaxGeneration = 1
INVARIANTS TypeOK EscrowHoldsStakes SettlementMatchesRound OneOpenRound WinsMatchHistory
PROPERTIES OutcomeImmutable FundedRoundSettles NextRoundStarts
CHECK_DEADLOCK FALSE
