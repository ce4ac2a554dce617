CONSTANTS
  s1 = s1
  Settlements = {s1}
  Null = Null
  MarketFees = {4}
  MaxFee = 5
  MaxBlocks = 0
  LastTxBlock = 2
  MaxReorgDepth = 0
  MayRevert = FALSE
  MaxRetries = 1
  Faults <- Crashes
SPECIFICATION FairSpec
PROPERTIES
  ApprovedIsDecided
CHECK_DEADLOCK FALSE
