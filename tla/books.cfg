CONSTANTS
  i1 = i1
  i2 = i2
  r1 = r1
  r2 = r2
  r3 = r3
  Instructions = {i1, i2}
  Requests = {r1, r2, r3}
  Null = Null
  Opening = 4
  Deal = 3
  MaxFaults = 1
  Body <- Payouts
  Transfers <- Hashes
SYMMETRY Alike
SPECIFICATION TreasurySpec
INVARIANTS
  TreasuryTypeOK
  HandedOnce
  OverdraftIsARace
  ReceivedIsAttended
  DiffIsExplained
CHECK_DEADLOCK FALSE
