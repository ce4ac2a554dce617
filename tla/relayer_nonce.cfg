CONSTANTS
  s1 = s1
  s2 = s2
  Settlements = {s1, s2}
  Null = Null
  MarketFees = {4}
  MaxFee = 5
  MaxBlocks = 2
  LastTxBlock = 2
  MaxReorgDepth = 1
  MayRevert = FALSE
  MaxRetries = 1
  Faults <- Reorgs
SYMMETRY Symmetry
SPECIFICATION Spec
INVARIANTS
  TypeOK
  PaidAtMostOnce
  OneNonce
  RowIsOwnTransfer
  NonceNotShared
  NoNonceGap
CHECK_DEADLOCK FALSE
