SPECIFICATION Safe
CONSTANTS
  a = a
  NoKey = NoKey
  N = 2
  Confs <- BothOfOne
  Keys <- OneKey
  KeyIndex <- FirstRing
INVARIANTS NoLostThreadWakeup NoLostLoopWakeup
PROPERTIES ImplementsDispatch
