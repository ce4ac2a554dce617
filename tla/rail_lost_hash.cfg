CONSTANTS
  s1 = s1
  poll = poll
  h1 = h1
  Settlements = {s1}
  Null = Null
  Poll = poll
  EventHandlers = {h1}
  MarketFees = {4}
  MaxFee = 6
  MaxBlocks = 2
  LastTxBlock = 1
  MaxReorgDepth = 1
  MayRevert = FALSE
  MaxRetries = 2
  ConfirmationsConfirmed = 1
  ConfirmationsFinal = 2
  Faults <- NoFaults
SPECIFICATION FairRailSpec
PROPERTIES
  PaidIsNoticed
CHECK_DEADLOCK FALSE
