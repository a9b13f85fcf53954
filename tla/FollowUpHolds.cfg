SPECIFICATION SpecSettle
CONSTANTS
  m1 = m1
  m2 = m2
  Size = 3
  Store = 2
  MaxOutcomes = 2
  Kinds <- FanOnly
  Messages <- TwoMessages
  MaxAttempts = 2
  Confs <- LocalBroker
  MaxErrors = 0
  MaxRefusals = 0
  MaxCrashes = 0
  MaxCount = 2
PROPERTIES DueCopiesLeave
CHECK_DEADLOCK FALSE
