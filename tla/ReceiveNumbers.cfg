\* Datagrams lost, late and repeated, from a peer whose ordered packets all
\* come in order.
SPECIFICATION FairSpec
CONSTANTS
  Packet <- InOrderPackets
  NullPacket = NullPacket
  MAX_ORDER_CHANNELS = 2
  GarbageIndex = {0}
  MaxSequence = 3
  MaxPackets = 1
  MaxDelivered = 2
INVARIANT NumbersExact
PROPERTIES NackedOnce AckedOnceQuiet MutexReleased
