SPECIFICATION SafePools
CONSTANTS
  a = a
  NoKey = NoKey
  None = None
  N = 2
  Keys <- OneKey
  KeyIndex <- FirstWorker
  MaxItems = 3
  MaxBatches = 2
INVARIANTS WorkerPanicIsFound
