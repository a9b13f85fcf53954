SPECIFICATION Spec
CHECK_DEADLOCK FALSE
CONSTANTS
  Confs <- Everything
INVARIANTS
  RetainedWindow
  FanoutMatchesRoutes
  OneWinner
  TransactionsHold
  ReplyIsMine
  InboxesReleased
