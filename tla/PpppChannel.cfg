CONSTANTS
  Half = 6
  WrapLimit = 3
  MaxInFlight = 2
  MaxSpan = 3
  MaxLag = 1
  MaxChunks = 16
SPECIFICATION FairSpec
CHECK_DEADLOCK FALSE
INVARIANTS
  TypeOK
  InOrderExactlyOnce
  DeliveryIsKnown
PROPERTY TransferEnds
