\* A peer one of whose ordered packets comes early.
SPECIFICATION FairSpec
CONSTANTS
  Packet <- OrderedPackets
  NullPacket = NullPacket
  MAX_ORDER_CHANNELS = 2
  GarbageIndex = {0}
  MaxSequence = 0
  MaxPackets = 1
  MaxDelivered = 2
PROPERTY DrainReachesGap
