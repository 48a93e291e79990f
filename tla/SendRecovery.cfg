\* ACKs and NACKs, early, late and repeated.
SPECIFICATION Spec
CONSTANTS
  Call <- RecoveryCalls
  GarbageIndex <- Garbage
  NullDatagram = NullDatagram
  sessionMTU = 64
  MAX_ORDER_CHANNELS = 1
  Word = 1024
  MaxCalls = 3
  MaxNamed = 2
  Named = {0, 1, 2, 3}
  SplitWord = 65536
INVARIANTS NumberNamesDatagram RecoveryExact
CHECK_DEADLOCK FALSE
