SPECIFICATION Safe
CONSTANTS
  s1 = s1
  k1 = k1
  k2 = k2
  None = None
  Subs <- OneSub
  Slots <- OneSlot
  Sizes <- OneSize
  Retention <- KeepTwo
  BatchLimit = 1
  MaxPublish = 3
  MaxDeliveries = 2
PROPERTIES NextDeliveryReflectsSeek
