------------------------ MODULE MCReliabilityReceive ------------------------
(***************************************************************************)
(* Small sets of packets for the runs of ReliabilityReceive.               *)
(***************************************************************************)
EXTENDS ReliabilityReceive

Plain(kind, m) ==
  [reliability |-> kind, messageIndex |-> m, sequencedIndex |-> NoIndex,
   orderedIndex |-> NoIndex, orderChannel |-> 255]

Sequenced(kind, m, s, c) ==
  [reliability |-> kind, messageIndex |-> m, sequencedIndex |-> s,
   orderedIndex |-> 0, orderChannel |-> c]

Ordered(kind, m, o, c) ==
  [reliability |-> kind, messageIndex |-> m, sequencedIndex |-> NoIndex,
   orderedIndex |-> o, orderChannel |-> c]

\* With two channels, channel 0 waits for index 2 and channel 1 for whatever
\* its cell happens to hold.
OrderedPackets ==
  {Plain("RELIABLE", 9),
   Ordered("RELIABLE_ORDERED", 0, 0, 0),
   Ordered("RELIABLE_ORDERED", 1, 2, 0),
   Ordered("RELIABLE_ORDERED_WITH_ACK_RECEIPT", 2, 3, 0),
   Ordered("RELIABLE_ORDERED", 3, 4, 0),
   Ordered("RELIABLE_ORDERED", 4, 1, 1),
   Ordered("RELIABLE_ORDERED", 5, 2, 1)}

\* Packets of every kind that one another's arrival could disturb, and one on a
\* bad channel.
MixedPackets ==
  {Plain("UNRELIABLE", NoIndex),
   Plain("RELIABLE_WITH_ACK_RECEIPT", 0),
   Ordered("RELIABLE_ORDERED", 1, 0, 7),
   Sequenced("UNRELIABLE_SEQUENCED", NoIndex, 2, 0),
   Sequenced("RELIABLE_SEQUENCED", 2, 3, 0),
   Ordered("RELIABLE_ORDERED", 3, 2, 0),
   Ordered("RELIABLE_ORDERED", 4, 3, 0),
   Ordered("RELIABLE_ORDERED_WITH_ACK_RECEIPT", 5, 4, 0),
   Ordered("RELIABLE_ORDERED", 6, 1, 1)}

\* The only ordered packet is the one channel 0 waits for.
InOrderPackets ==
  {Plain("UNRELIABLE", NoIndex),
   Plain("RELIABLE", 0),
   Ordered("RELIABLE_ORDERED", 1, 2, 0)}

Garbage == 0 .. 2
=============================================================================
