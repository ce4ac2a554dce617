CONSTANTS
  r1 = r1
  r2 = r2
  r3 = r3
  s1 = s1
  d1 = d1
  d2 = d2
  Deals = {d1, d2}
  Funds = 3
  MaxTime = 2
  Requests = {r1, r2, r3}
  Body <- Asks
  Transfers = {s1}
  Amount <- Worths
  Cancelled = {d1}
  Null = Null
  Window = 1
  MaxRetries = 1
  MaxFaults = 1
SPECIFICATION DvpSpec
INVARIANTS
  DvpTypeOK
  MoneyFollowsDeals
  AnswersAreTrue
  LoneTransferIsMined
PROPERTIES
  LoneCallSucceeds
CHECK_DEADLOCK FALSE
