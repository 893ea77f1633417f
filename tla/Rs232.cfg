SPECIFICATION FairSpec
CONSTANTS
  Bytes <- MCBytes
  Depth = 2
  UartDepth = 1
  Uses <- MCUses
INVARIANTS TypeOK RingOK DeltaTold
PROPERTIES RingsAreQueues CreditHonoured Drains
