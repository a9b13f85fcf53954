SPECIFICATION SafeApp
CONSTANTS
  None = None
  Brokers <- TwoBrokers
  Subs <- TwoSubs
  Confs <- NoServices
  MaxConts = 1
  Tests <- LiveRequeues
INVARIANTS EveryPublishHandled
