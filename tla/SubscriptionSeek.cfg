SPECIFICATION Safe
CONSTANTS
  s1 = s1
  k1 = k1
  k2 = k2
  None = None
  Subs <- OneSub
  Slots <- TwoSlots
  Sizes <- OneSize
  Retention <- KeepTwo
  BatchLimit = 2
  MaxPublish = 3
  MaxDeliveries = 2
INVARIANTS
  TypeOK
  NothingLost
  OneCopyWithoutSeek
  FreshInOrder
  NoLiveMessageStale
  NoLostWakeup
  NoBatchHeldBack
PROPERTIES SeekLandsOnTarget
