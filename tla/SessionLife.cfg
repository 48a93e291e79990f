\* Two addresses, two sessions at a time, one worker, three packets, fair threads.
SPECIFICATION FairSpec
CONSTANTS
  Address = {a1, a2}
  Slot = {s1, s2}
  Worker = {w1}
  MTUs <- AskedMTUs
  MIN_MTU_SIZE = 576
  MAX_MTU_SIZE = 1500
  MaxPackets = 3
INVARIANTS TypeOK PointerStaysGood RoundOnList NoCircle
PROPERTIES RouteStable StopEnds UpdatedAgain
CHECK_DEADLOCK FALSE
