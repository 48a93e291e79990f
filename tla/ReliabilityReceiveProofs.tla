---------------------- MODULE ReliabilityReceiveProofs ----------------------
(***************************************************************************)
(* Proofs about ReliabilityReceive, for every set of packets, number of    *)
(* channels, garbage value and bound.                                      *)
(***************************************************************************)
EXTENDS ReliabilityReceive, TLAPS

-----------------------------------------------------------------------------
(* Lemmas on the operators *)

\* The lambda minOrderedIndex of Session::receivePacket (lines 109-116) yields
\* 0 whatever a channel has parked.
LEMMA MinOrderedIndexIsZero ==
  ASSUME NEW keys \in SUBSET Nat
  PROVE  MinOrderedIndex(keys) = 0
<1> DEFINE K == keys \cup {0}
<1>1. 0 \in K /\ \A y \in K : 0 <= y
  OBVIOUS
<1>2. Min(K) \in K /\ \A y \in K : Min(K) <= y
  BY <1>1 DEF Min
<1>3. \A x \in K : x <= 0 => x = 0
  OBVIOUS
<1> QED
  BY <1>1, <1>2, <1>3 DEF MinOrderedIndex

\* The keys of the map of a channel are natural numbers.
LEMMA ParkedIndicesNat ==
  ASSUME TypeOK, NEW c \in Channel
  PROVE  ParkedIndices(c) \in SUBSET Nat
BY PacketAssumption DEF TypeOK, ParkedIndices

-----------------------------------------------------------------------------
(* Types *)

LEMMA InitType == Init => TypeOK
<1> SUFFICES ASSUME Init PROVE TypeOK
  OBVIOUS
<1>1. IndexVector \subseteq [Channel -> Nat]
  BY SizeAssumption DEF IndexVector, Channel
<1>2. /\ pending \in Seq(Packet)
      /\ handledPackets \in Seq(Packet \cup {NullPacket})
      /\ delivered \in Seq(Packet \cup {NullPacket})
  BY DEF Init
<1> QED
  BY <1>1, <1>2, SizeAssumption DEF Init, TypeOK, Channel

\* What every step that takes the next packet of a datagram does to the types.
LEMMA NextPacketType ==
  ASSUME TypeOK, NEW p \in Packet, NextPacket(p)
  PROVE  /\ pending' \in Seq(Packet)
         /\ Record(p) \subseteq Nat
         /\ IsSequencedOrOrdered(p) /\ ~HasBadChannel(p) =>
              p.orderChannel \in Channel
         /\ Append(handledPackets, p) \in Seq(Packet \cup {NullPacket})
<1>1. pending' \in Seq(Packet)
  BY DEF TypeOK, NextPacket
<1>2. Record(p) \subseteq Nat
  BY PacketAssumption DEF TypeOK, Record
<1>3. IsSequencedOrOrdered(p) /\ ~HasBadChannel(p) => p.orderChannel \in Channel
  BY PacketAssumption, SizeAssumption DEF HasBadChannel, PacketType, Channel
<1>4. Append(handledPackets, p) \in Seq(Packet \cup {NullPacket})
  BY DEF TypeOK
<1> QED
  BY <1>1, <1>2, <1>3, <1>4

LEMMA SequencedIndexType ==
  ASSUME NEW p \in Packet, IsSequenced(p)
  PROVE  p.sequencedIndex + 1 \in Nat
BY PacketAssumption

LEMMA OrderedIndexType ==
  ASSUME NEW p \in Packet, IsOrdered(p)
  PROVE  p.orderedIndex + 1 \in Nat
BY PacketAssumption

LEMMA HandlePacketType ==
  ASSUME TypeOK, NEW p \in Packet, HandlePacket(p)
  PROVE  TypeOK'
<1>0. NextPacket(p)
  BY DEF HandlePacket, DropDuplicate, NewPacket, DropBadChannel, DropOldSequenced,
         AcceptSequenced, AcceptOrdered, ParkOrdered, DropOldOrdered, AcceptPlain
<1>1. /\ pending' \in Seq(Packet)
      /\ Record(p) \subseteq Nat
      /\ IsSequencedOrOrdered(p) /\ ~HasBadChannel(p) => p.orderChannel \in Channel
      /\ Append(handledPackets, p) \in Seq(Packet \cup {NullPacket})
  BY <1>0, NextPacketType
<1> USE <1>0, <1>1 DEF NextPacket, NewPacket, TypeOK, numberVars
<1>2. CASE DropDuplicate(p)
  BY <1>2 DEF DropDuplicate, Drop
<1>3. CASE DropBadChannel(p)
  BY <1>3 DEF DropBadChannel, Drop
<1>4. CASE DropOldSequenced(p)
  BY <1>4 DEF DropOldSequenced, Drop
<1>5. CASE AcceptSequenced(p)
  <2>1. p.orderChannel \in Channel
    BY <1>5 DEF AcceptSequenced, IsSequencedOrOrdered
  <2>2. recvSequencedIndex' \in [Channel -> Nat]
    BY <1>5, <2>1, SequencedIndexType DEF AcceptSequenced
  <2> QED
    BY <1>5, <2>2 DEF AcceptSequenced
<1>6. CASE AcceptOrdered(p)
  <2>1. p.orderChannel \in Channel
    BY <1>6 DEF AcceptOrdered, IsSequencedOrOrdered
  <2>2. recvOrderedIndex' \in [Channel -> Nat]
    BY <1>6, <2>1, OrderedIndexType DEF AcceptOrdered
  <2> QED
    BY <1>6, <2>2 DEF AcceptOrdered
<1>7. CASE ParkOrdered(p)
  BY <1>7 DEF ParkOrdered, Park, IsSequencedOrOrdered
<1>8. CASE DropOldOrdered(p)
  BY <1>8 DEF DropOldOrdered, Drop
<1>9. CASE AcceptPlain(p)
  BY <1>9 DEF AcceptPlain
<1> QED
  BY <1>2, <1>3, <1>4, <1>5, <1>6, <1>7, <1>8, <1>9 DEF HandlePacket

\* A packet that is taken out of the map is one that was in it, or the null.
LEMMA ParkedType ==
  ASSUME TypeOK, NEW c \in Channel, NEW index
  PROVE  \/ Parked(c, index) = NullPacket /\ index \notin ParkedIndices(c)
         \/ /\ Parked(c, index) \in recvOrderedPackets[c]
            /\ Parked(c, index).orderedIndex = index
            /\ Parked(c, index) \in Packet
BY DEF Parked, ParkedIndices, TypeOK

LEMMA StepType == TypeOK /\ [Next]_vars => TypeOK'
<1> SUFFICES ASSUME TypeOK, [Next]_vars PROVE TypeOK'
  OBVIOUS
<1>1. ASSUME NEW n \in 0 .. MaxSequence, NEW pkts \in Datagrams,
             ReceiveDatagram(n, pkts)
      PROVE  TypeOK'
  <2>1. pkts \in Seq(Packet)
    BY SizeAssumption DEF Datagrams
  <2>2. n \in Nat
    BY SizeAssumption
  <2>3. Gap(n) \subseteq Nat
    BY <2>2 DEF Gap, TypeOK
  <2>4. ACKQueue' \subseteq Nat /\ NACKQueue' \subseteq Nat /\ received' \subseteq Nat
    BY <1>1, <2>2, <2>3 DEF ReceiveDatagram, TypeOK, Ack, Arrived
  <2>5. recvSequenceNumber' \in Nat /\ lastRecvSequenceNumber' \in Nat
    BY <1>1, <2>2 DEF ReceiveDatagram, TypeOK
  <2> QED
    BY <1>1, <2>1, <2>4, <2>5 DEF ReceiveDatagram, TypeOK, indexVars
<1>2. ASSUME NEW p \in Packet, HandlePacket(p) PROVE TypeOK'
  BY <1>2, HandlePacketType
<1>3. CASE EndPackets
  BY <1>3, SizeAssumption DEF EndPackets, TypeOK, numberVars, indexVars
<1>4. CASE SkipChannel
  BY <1>4, SizeAssumption DEF SkipChannel, TypeOK, numberVars, indexVars
<1>5. CASE EnterChannel
  <2>1. channel \in Channel
    BY <1>5, SizeAssumption DEF EnterChannel, TypeOK, Channel
  <2> QED
    BY <1>5, <2>1 DEF EnterChannel, TypeOK, numberVars, indexVars
<1>6. CASE Purge
  BY <1>6 DEF Purge, TypeOK, Unpark, numberVars, threadVars
<1>7. CASE EndPurge
  BY <1>7 DEF EndPurge, TypeOK, numberVars, indexVars
<1>8. CASE DeliverLate
  <2>1. channel \in Channel
    BY <1>8 DEF DeliverLate, TypeOK
  <2>2. Parked(channel, recvOrderedIndex[channel]) \in Packet \cup {NullPacket}
    BY <2>1, ParkedType
  <2>3. handledPackets' \in Seq(Packet \cup {NullPacket})
    BY <1>8, <2>2 DEF DeliverLate, TypeOK
  <2>4. recvOrderedIndex' \in [Channel -> Nat]
    BY <1>8, <2>1 DEF DeliverLate, TypeOK
  <2>5. recvOrderedPackets' \in [Channel -> SUBSET {p \in Packet : IsOrdered(p)}]
    BY <1>8, <2>1 DEF DeliverLate, TypeOK, Unpark
  <2> QED
    BY <1>8, <2>1, <2>3, <2>4, <2>5 DEF DeliverLate, TypeOK, numberVars
<1>9. CASE EndLate
  <2>1. channel' \in 0 .. MAX_ORDER_CHANNELS
    BY <1>9, SizeAssumption DEF EndLate, TypeOK, Channel
  <2> QED
    BY <1>9, <2>1 DEF EndLate, TypeOK, numberVars, indexVars
<1>10. CASE AddTask
  BY <1>10 DEF AddTask, TypeOK, numberVars, indexVars
<1>11. CASE Update
  BY <1>11 DEF Update, AckedNow, TypeOK, indexVars, threadVars
<1>12. CASE UNCHANGED vars
  BY <1>12 DEF vars, TypeOK, numberVars, indexVars, threadVars
<1> QED
  BY <1>1, <1>2, <1>3, <1>4, <1>5, <1>6, <1>7, <1>8, <1>9, <1>10, <1>11, <1>12
     DEF Next, ReceiveSteps

\* Every variable keeps its type, whatever packets the peer sends: the unsigned
\* and vector types of ReliabilityLayer.h, lines 34-59.
THEOREM TypeCorrect == Spec => []TypeOK
BY InitType, StepType, PTL DEF Spec

-----------------------------------------------------------------------------
(* Datagram numbers *)

\* What makes the three invariants on datagram numbers inductive: the largest
\* number so far was received, none above it was, and whatever is or was asked
\* for lies strictly below it.
NumberInv ==
  /\ recvSequenceNumber \in received \cup {0}
  /\ received \subseteq 0 .. recvSequenceNumber
  /\ NACKQueue \subseteq 1 .. recvSequenceNumber - 1
  /\ nacked \subseteq 1 .. recvSequenceNumber - 1
  /\ NoFalseNack
  /\ GapsReported
  /\ AcksComplete

LEMMA InitNumbers == Init => NumberInv
BY DEF Init, NumberInv, NoFalseNack, GapsReported, AcksComplete

\* A datagram above the largest number opens a gap.
LEMMA NewNumber ==
  ASSUME TypeOK, NumberInv, NEW n \in Nat, NEW pkts, ReceiveDatagram(n, pkts),
         n > recvSequenceNumber
  PROVE  NumberInv' /\ (NACKQueue' \ NACKQueue) \cap nacked = {}
<1>1. /\ recvSequenceNumber' = n
      /\ received' = received \cup {n}
      /\ NACKQueue' = NACKQueue \cup (recvSequenceNumber + 1 .. n - 1)
      /\ nacked' = nacked
      /\ acked' = acked
      /\ ACKQueue' = ACKQueue \cup {n}
  BY DEF ReceiveDatagram, Gap, Ack
<1> USE <1>1 DEF NumberInv, TypeOK
<1>2. received' \subseteq 0 .. recvSequenceNumber'
  OBVIOUS
<1>3. /\ NACKQueue' \subseteq 1 .. recvSequenceNumber' - 1
      /\ nacked' \subseteq 1 .. recvSequenceNumber' - 1
  OBVIOUS
<1>4. NoFalseNack'
  BY DEF NoFalseNack
<1>5. GapsReported'
  <2> SUFFICES ASSUME NEW m \in 1 .. n - 1
               PROVE  m \in received' \cup NACKQueue' \cup nacked'
    BY DEF GapsReported
  <2>1. CASE m < recvSequenceNumber
    BY <2>1 DEF GapsReported
  <2>2. CASE m = recvSequenceNumber
    BY <2>2
  <2>3. CASE m > recvSequenceNumber
    BY <2>3
  <2> QED
    BY <2>1, <2>2, <2>3
<1>6. AcksComplete'
  BY DEF AcksComplete
<1>7. (NACKQueue' \ NACKQueue) \cap nacked = {}
  OBVIOUS
<1> QED
  BY <1>2, <1>3, <1>4, <1>5, <1>6, <1>7

\* A datagram at or below the largest number fills one.
LEMMA OldNumber ==
  ASSUME TypeOK, NumberInv, NEW n \in Nat, NEW pkts, ReceiveDatagram(n, pkts),
         ~(n > recvSequenceNumber)
  PROVE  NumberInv' /\ (NACKQueue' \ NACKQueue) \cap nacked = {}
<1>1. /\ recvSequenceNumber' = recvSequenceNumber
      /\ received' = received \cup {n}
      /\ NACKQueue' = NACKQueue \ {n}
      /\ nacked' = nacked
      /\ acked' = acked
      /\ ACKQueue' = ACKQueue \cup {n}
  <2>1. NACKQueue' = IF n < recvSequenceNumber THEN NACKQueue \ {n} ELSE NACKQueue
    BY DEF ReceiveDatagram, Arrived
  <2>2. ~(n < recvSequenceNumber) => n \notin NACKQueue
    BY DEF NumberInv, TypeOK
  <2> QED
    BY <2>1, <2>2 DEF ReceiveDatagram, Ack
<1>2. /\ received' \subseteq 0 .. recvSequenceNumber'
      /\ NACKQueue' \subseteq 1 .. recvSequenceNumber' - 1
      /\ nacked' \subseteq 1 .. recvSequenceNumber' - 1
      /\ recvSequenceNumber' \in received' \cup {0}
  BY <1>1 DEF NumberInv, TypeOK
<1>3. NoFalseNack' /\ GapsReported' /\ AcksComplete'
  BY <1>1 DEF NumberInv, NoFalseNack, GapsReported, AcksComplete
<1> QED
  BY <1>1, <1>2, <1>3 DEF NumberInv

LEMMA StepNumbers ==
  ASSUME TypeOK, NumberInv, [Next]_vars
  PROVE  NumberInv' /\ (NACKQueue' \ NACKQueue) \cap nacked = {}
<1>1. ASSUME NEW n \in 0 .. MaxSequence, NEW pkts \in Datagrams,
             ReceiveDatagram(n, pkts)
      PROVE  NumberInv' /\ (NACKQueue' \ NACKQueue) \cap nacked = {}
  <2>1. n \in Nat
    BY SizeAssumption
  <2> QED
    BY <1>1, <2>1, NewNumber, OldNumber
<1>2. CASE Update
  BY <1>2 DEF Update, AckedNow, NumberInv, NoFalseNack, GapsReported, AcksComplete
<1>3. CASE UNCHANGED numberVars
  BY <1>3 DEF numberVars, NumberInv, NoFalseNack, GapsReported, AcksComplete
<1>4. CASE ReceiveSteps
  <2>1. UNCHANGED numberVars
    BY <1>4 DEF ReceiveSteps, HandlePacket, NextPacket, NewPacket, DropDuplicate,
         DropBadChannel, DropOldSequenced, AcceptSequenced, AcceptOrdered,
         ParkOrdered, DropOldOrdered, AcceptPlain, EndPackets, SkipChannel,
         EnterChannel, Purge, EndPurge, DeliverLate, EndLate, AddTask
  <2> QED
    BY <2>1, <1>3
<1> QED
  BY <1>1, <1>2, <1>3, <1>4 DEF Next, vars

\* The server never asks for a datagram it has, loses sight of no gap, and
\* acknowledges exactly what it received (handleDatagram, lines 6-25).
THEOREM NumbersCorrect == Spec => []NumbersExact
<1>1. Init => TypeOK /\ NumberInv
  BY InitType, InitNumbers
<1>2. TypeOK /\ NumberInv /\ [Next]_vars => (TypeOK /\ NumberInv)'
  BY StepType, StepNumbers
<1>3. NumberInv => NumbersExact
  BY DEF NumberInv, NumbersExact
<1> QED
  BY <1>1, <1>2, <1>3, PTL DEF Spec

\* A number that went out in a NACK is not queued for one again
\* (handleDatagram, lines 13-17).
THEOREM NacksOnce == Spec => NackedOnce
<1>1. Init => TypeOK /\ NumberInv
  BY InitType, InitNumbers
<1>2. TypeOK /\ NumberInv /\ [Next]_vars => (TypeOK /\ NumberInv)'
  BY StepType, StepNumbers
<1>3. TypeOK /\ NumberInv /\ [Next]_vars =>
        [(NACKQueue' \ NACKQueue) \cap nacked = {}]_vars
  BY StepNumbers
<1> QED
  BY <1>1, <1>2, <1>3, PTL DEF Spec, NackedOnce
=============================================================================
