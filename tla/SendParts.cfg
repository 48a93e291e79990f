\* Does every part go out?
SPECIFICATION Spec
CONSTANTS
  Call <- LongHeader
  GarbageIndex <- Garbage
  NullDatagram = NullDatagram
  sessionMTU = 64
  MAX_ORDER_CHANNELS = 1
  Word = 1024
  MaxCalls = 1
  MaxNamed = 0
  Named = {}
  SplitWord = 65536
INVARIANT PartsFit
CHECK_DEADLOCK FALSE
