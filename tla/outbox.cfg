CONSTANTS
  s1 = s1
  s2 = s2
  Settlements = {s1, s2}
  Null = Null
  BatchSize = 2
  MaxEvents = 2
  MaxFaults = 2
SPECIFICATION FairOutboxSpec
INVARIANTS
  OutboxTypeOK
  MarkedIsHeard
  RepeatsAreFaults
PROPERTIES
  ImplementsChannel
  EventsAreHeard
CHECK_DEADLOCK FALSE
