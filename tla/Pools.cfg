SPECIFICATION SpecPools
CONSTANTS
  a = a
  NoKey = NoKey
  None = None
  N = 2
  Keys <- OneKey
  KeyIndex <- FirstWorker
  MaxItems = 4
  MaxBatches = 2
INVARIANTS FreeListsHaveRoom BatchPanicIsFound
PROPERTIES ImplementsDispatch StopsAfterCancel EveryDeliveryHandled
