\* Two clients that repeat and mix their packets, two workers.
SPECIFICATION FairSpec
CONSTANTS
  Address = {a1, a2}
  Worker = {w1, w2}
  MTUs = {576, 1500, 1501}
  Sizes = {1464}
  MIN_MTU_SIZE = 576
  MAX_MTU_SIZE = 1500
  Room = 1
  Contents <- SomeContents
  MaxArrivals = 3
INVARIANTS TypeOK SessionsAsReplied CollisionsBounded PongsAccounted PongsInOrder
PROPERTIES PingAnswered
CHECK_DEADLOCK FALSE
