CONSTANTS
  s1 = s1
  Settlements = {s1}
  Null = Null
  MarketFees = {4}
  MaxFee = 5
  MaxBlocks = 2
  LastTxBlock = 2
  MaxReorgDepth = 1
  MayRevert = TRUE
  MaxRetries = 2
  Faults <- AllFaults
SPECIFICATION Spec
INVARIANTS
  ExtraPaymentsAreLostAcks
  ResendOutbids
CHECK_DEADLOCK FALSE
