SPECIFICATION SpecSettle
CONSTANTS
  m1 = m1
  m2 = m2
  Size = 3
  Store = 2
  MaxOutcomes = 2
  Kinds <- SingleOnly
  Messages <- TwoMessages
  MaxAttempts = 3
  Confs <- LocalBroker
  MaxErrors = 0
  MaxRefusals = 0
  MaxCrashes = 0
  MaxCount = 9
INVARIANTS
  AttemptsCapped
CHECK_DEADLOCK FALSE
