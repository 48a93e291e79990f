\* Packets of every kind, early, late, repeated and old.
SPECIFICATION Spec
CONSTANTS
  Packet <- MixedPackets
  NullPacket = NullPacket
  MAX_ORDER_CHANNELS = 2
  GarbageIndex <- Garbage
  MaxSequence = 0
  MaxPackets = 2
  MaxDelivered = 3
INVARIANTS TypeOK ReliableOnce OrderedContiguous RecordedNotLost SequencedIncreasing
