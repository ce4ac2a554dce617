CONSTANTS
  r1 = r1
  r2 = r2
  r3 = r3
  s1 = s1
  d1 = d1
  d2 = d2
  Deals = {d1, d2}
  Funds = 4
  MaxTime = 2
  Requests = {r1}
  Body <- OneAsk
  Transfers = {s1}
  Amount <- Worths
  Cancelled = {}
  Null = Null
  Window = 1
  MaxRetries = 1
  MaxFaults = 0
SPECIFICATION DvpSpec
INVARIANTS
  NonceHasOneUser
CHECK_DEADLOCK FALSE
