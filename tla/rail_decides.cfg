CONSTANTS
  s1 = s1
  poll = poll
  h1 = h1
  Settlements = {s1}
  Null = Null
  Poll = poll
  EventHandlers = {}
  MarketFees = {4}
  MaxFee = 5
  MaxBlocks = 2
  LastTxBlock = 1
  MaxReorgDepth = 1
  MayRevert = FALSE
  MaxRetries = 1
  ConfirmationsConfirmed = 1
  ConfirmationsFinal = 2
  Faults <- AllButAck
SPECIFICATION FairRailSpec
PROPERTIES
  ApprovedIsDecidedUnlessForgotten
  MinedIsDecided
CHECK_DEADLOCK FALSE
