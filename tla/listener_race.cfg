CONSTANTS
  s1 = s1
  poll = poll
  e1 = e1
  Settlements = {s1}
  Null = Null
  Poll = poll
  EventHandlers = {e1}
  MarketFees = {1}
  MaxFee = 1
  MaxBlocks = 3
  LastTxBlock = 2
  MaxReorgDepth = 1
  MayRevert = FALSE
  ConfirmationsConfirmed = 1
  ConfirmationsFinal = 2
  Faults <- Faulty
SPECIFICATION FairListenerSpec
INVARIANTS
  OpenTypeOK
  LedgerBalanced
  FinalIsBooked
  BookedStaysPaid
  BlockRecordedWhenConfirmed
PROPERTIES
  StaleConfirmationEnds
  PaidBecomesFinal
  BookedBecomesFinal
CHECK_DEADLOCK FALSE
