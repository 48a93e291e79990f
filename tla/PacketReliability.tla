-------------------------- MODULE PacketReliability --------------------------
(***************************************************************************)
(* The reliability of an encapsulated packet, which decides the fields its *)
(* header carries and how both ends treat it, and the length of packets.   *)
(***************************************************************************)
EXTENDS Integers, Sequences

\* EncapsulatedPacket's 0xFF000000, as a signed word: an index that was not set.
NoIndex == -16777216

Reliability ==
  {"UNRELIABLE", "UNRELIABLE_SEQUENCED", "RELIABLE", "RELIABLE_ORDERED",
   "RELIABLE_SEQUENCED", "UNRELIABLE_WITH_ACK_RECEIPT",
   "RELIABLE_WITH_ACK_RECEIPT", "RELIABLE_ORDERED_WITH_ACK_RECEIPT"}

IsReliable(p) ==
  p.reliability \in {"RELIABLE", "RELIABLE_ORDERED", "RELIABLE_SEQUENCED",
                     "RELIABLE_WITH_ACK_RECEIPT",
                     "RELIABLE_ORDERED_WITH_ACK_RECEIPT"}

IsSequenced(p) ==
  p.reliability \in {"UNRELIABLE_SEQUENCED", "RELIABLE_SEQUENCED"}

IsOrdered(p) ==
  p.reliability \in {"RELIABLE_ORDERED", "RELIABLE_ORDERED_WITH_ACK_RECEIPT"}

IsSequencedOrOrdered(p) == IsSequenced(p) \/ IsOrdered(p)

\* Faulty variant: a sequenced packet carries its sequenced index only.
HeaderLengthShort(p) ==
  3 + (IF IsReliable(p) THEN 3 ELSE 0)
    + (IF IsSequenced(p) THEN 3 ELSE 0)
    + (IF IsOrdered(p) THEN 4 ELSE 0)
    + (IF p.hasSplit THEN 10 ELSE 0)

\* EncapsulatedPacket::getLength
HeaderLength(p) ==
  3 + (IF IsReliable(p) THEN 3 ELSE 0)
    + (IF IsSequenced(p) THEN 7 ELSE 0)
    + (IF IsOrdered(p) THEN 4 ELSE 0)
    + (IF p.hasSplit THEN 10 ELSE 0)

GetLength(p) == HeaderLength(p) + p.length

PacketsLength(q) ==
  LET sum[k \in 0 .. Len(q)] == IF k = 0 THEN 0 ELSE sum[k - 1] + GetLength(q[k])
  IN  sum[Len(q)]

\* Datagram::getTotalLength
TotalLength(q) == 4 + PacketsLength(q)
=============================================================================
