SPECIFICATION SpecApp
CONSTANTS
  None = None
  Brokers <- TwoBrokers
  Subs <- TwoSubs
  Confs <- Services
  MaxConts = 1
  Tests <- EveryTest
INVARIANTS
  NoCloseUnderAHandler
  ContinuationsBeforeClose
  NothingLeaks
  OkIsHonest
  HealthAgrees
  SettledIsStill
PROPERTIES ShutdownEnds FailureIsReported DriveEnds
