SPECIFICATION SpecSettle
CONSTANTS
  m1 = m1
  m2 = m2
  Size = 3
  Store = 2
  MaxOutcomes = 2
  Kinds <- AllKinds
  Messages <- TwoMessages
  MaxAttempts = 2
  Confs <- EveryTransport
  MaxErrors = 1
  MaxRefusals = 1
  MaxCrashes = 1
  MaxCount = 6
INVARIANTS
  OneLiveCopy
  NothingLost
  RoomAccounted
  CapHolds
  NotSpentEarly
  ReportsReachTheirOutcome
PROPERTIES EveryMessageEnds ImplementsOutcome OutcomesEnd
CHECK_DEADLOCK FALSE
