\* Packets that wait in both queues, and packets that are split.
SPECIFICATION Spec
CONSTANTS
  Call <- PacketCalls
  GarbageIndex <- Garbage
  NullDatagram = NullDatagram
  sessionMTU = 64
  MAX_ORDER_CHANNELS = 2
  Word = 1024
  MaxCalls = 3
  MaxNamed = 0
  Named = {}
  SplitWord = 2
INVARIANTS TypeOK SentOnce PartsComplete
PROPERTY LossesKnown
CHECK_DEADLOCK FALSE
