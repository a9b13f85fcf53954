SPECIFICATION Spec
CHECK_DEADLOCK FALSE
CONSTANTS
  Confs <- Transacted
INVARIANTS
  CommitAllOrNothing
