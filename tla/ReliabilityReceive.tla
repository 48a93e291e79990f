------------------------- MODULE ReliabilityReceive -------------------------
(***************************************************************************)
(* The receive path of one session: ReliabilityLayer::handleDatagram and   *)
(* handleEncapsulated, the part of Session::receivePacket that releases    *)
(* parked ordered packets, and the acknowledgement part of                 *)
(* Session::update.                                                        *)
(*                                                                         *)
(* The receive thread works through a datagram while it holds the session  *)
(* mutex (pc # "idle"); the updater takes the same mutex, so it acts only  *)
(* while pc = "idle".  The steps of the receive thread follow the code's   *)
(* loops one iteration at a time, because one of those loops need not end. *)
(*                                                                         *)
(* A datagram comes off the network with any number and any packets: loss, *)
(* duplication, reordering and retransmission are all choices of n and     *)
(* pkts in ReceiveDatagram.  A received packet is a record of the header   *)
(* fields the code reads; its payload is its identity.  decode never sets  *)
(* hasSplit (EncapsulatedPacket.h:29 compares a bit of weight 16 with 1),  *)
(* so the branch to handleSplit is never taken and is not modelled.        *)
(***************************************************************************)
EXTENDS PacketReliability, Sequences, FiniteSets, FiniteSetsExt

CONSTANTS
  Packet,              \* the encapsulated packets the peer may send
  NullPacket,          \* the null unique_ptr that std::map::operator[] inserts
  MAX_ORDER_CHANNELS,  \* number of order channels (32 in the code)
  GarbageIndex,        \* what a cell beyond the end of a vector may hold
  MaxSequence,         \* bound on datagram numbers (2^24 - 1 on the wire)
  MaxPackets,          \* bound on the packets of one datagram
  MaxDelivered         \* bound on the packets handed over in a behaviour

-----------------------------------------------------------------------------
(* Packets *)

\* What EncapsulatedPacket::decode leaves in the fields of a packet.
PacketType ==
  [reliability : Reliability, messageIndex : Int, sequencedIndex : Int,
   orderedIndex : Int, orderChannel : Nat]

\* What decode guarantees, and what the peer's own counters guarantee: a
\* message index names one packet.  Channel MAX_ORDER_CHANNELS itself passes
\* the code's range check and indexes one past the last channel: it is left
\* out, for no outcome of that access can be described.
ASSUME PacketAssumption ==
  /\ Packet \subseteq PacketType
  /\ \A p \in Packet :
       /\ IsReliable(p) => p.messageIndex \in Nat
       /\ IsSequenced(p) => p.sequencedIndex \in Nat
       /\ IsOrdered(p) => p.orderedIndex \in Nat
       /\ IsSequencedOrOrdered(p) => p.orderChannel # MAX_ORDER_CHANNELS
  /\ \A p, q \in Packet :
       /\ IsReliable(p)
       /\ IsReliable(q)
       /\ p.messageIndex = q.messageIndex
       => p = q

ASSUME NullPacketAssumption == NullPacket \notin Packet

ASSUME SizeAssumption ==
  /\ MAX_ORDER_CHANNELS \in Nat \ {0}
  /\ GarbageIndex \subseteq Nat
  /\ MaxSequence \in Nat
  /\ MaxPackets \in Nat
  /\ MaxDelivered \in Nat

Channel == 0 .. MAX_ORDER_CHANNELS - 1

-----------------------------------------------------------------------------
(* State *)

VARIABLES
  ACKQueue, NACKQueue,    \* numbers waiting for the next update
  recvSequenceNumber, lastRecvSequenceNumber,
  recvReliableIndex,      \* message indices seen so far
  recvSequencedIndex, recvOrderedIndex,  \* next index expected, per channel
  recvOrderedPackets,     \* per channel, the ordered packets that are parked
  pc,                     \* where the receive thread is
  channel,                \* the loop variable i of receivePacket
  pending,                \* packets of the datagram not yet looked at
  handledPackets,         \* packets of the datagram accepted so far
  (* history, read by the properties only *)
  received,               \* numbers of the datagrams handled so far
  acked, nacked,          \* numbers sent to the peer in an ACK, in a NACK
  delivered               \* packets handed to the thread pool, in task order

numberVars == <<ACKQueue, NACKQueue, recvSequenceNumber,
                lastRecvSequenceNumber, received, acked, nacked>>
indexVars == <<recvReliableIndex, recvSequencedIndex, recvOrderedIndex,
               recvOrderedPackets>>
threadVars == <<pc, channel, pending, handledPackets, delivered>>
vars == <<numberVars, indexVars, threadVars>>

\* Faulty variant: the vectors have all their cells, each starting at 0.
ZeroIndexVector == {[c \in Channel |-> 0]}

\* std::vector<uint32_t> x{MAX_ORDER_CHANNELS} is a list of one element: cell
\* 0 holds MAX_ORDER_CHANNELS, and every other cell is beyond the end.
IndexVector ==
  {x \in [Channel -> GarbageIndex \cup {MAX_ORDER_CHANNELS}] :
     /\ x[0] = MAX_ORDER_CHANNELS
     /\ \A c \in Channel \ {0} : x[c] \in GarbageIndex}

Init ==
  /\ ACKQueue = {} /\ NACKQueue = {}
  /\ recvSequenceNumber = 0 /\ lastRecvSequenceNumber = 0
  /\ recvReliableIndex = {}
  /\ recvSequencedIndex \in IndexVector
  /\ recvOrderedIndex \in IndexVector
  /\ recvOrderedPackets = [c \in Channel |-> {}]
  /\ pc = "idle" /\ channel = 0
  /\ pending = <<>> /\ handledPackets = <<>>
  /\ received = {} /\ acked = {} /\ nacked = {} /\ delivered = <<>>

-----------------------------------------------------------------------------
(* ReliabilityLayer::handleDatagram *)

\* Faulty variant: the gap is taken from a stale number.
StaleGap(n) == lastRecvSequenceNumber + 1 .. n - 1

\* Faulty variant: the first missing number is skipped.
ShortGap(n) == recvSequenceNumber + 2 .. n - 1

\* The numbers jumped over when n is the largest number so far.
Gap(n) == recvSequenceNumber + 1 .. n - 1

\* A late datagram is no longer missing.
Arrived(n) == NACKQueue \ {n}

\* Every datagram is acknowledged, a repeated one again.
Ack(n) == ACKQueue \cup {n}

\* A datagram with number n arrives: it is noted for acknowledgement, the
\* numbers it skips are noted as missing, and its packets come next.
ReceiveDatagram(n, pkts) ==
  /\ pc = "idle"
  /\ Len(delivered) < MaxDelivered  \* bound of the model
  /\ ACKQueue' = Ack(n)
  /\ IF n > recvSequenceNumber
     THEN /\ lastRecvSequenceNumber' = recvSequenceNumber
          /\ recvSequenceNumber' = n
          /\ NACKQueue' = NACKQueue \cup Gap(n)
     ELSE /\ UNCHANGED <<lastRecvSequenceNumber, recvSequenceNumber>>
          /\ NACKQueue' = IF n < recvSequenceNumber THEN Arrived(n) ELSE NACKQueue
  /\ received' = received \cup {n}
  /\ pending' = pkts
  /\ pc' = "packets"
  /\ UNCHANGED <<acked, nacked, indexVars, channel, handledPackets, delivered>>

-----------------------------------------------------------------------------
(* ReliabilityLayer::handleEncapsulated, one packet at a time *)

\* Faulty variant: the message index of any packet is recorded.
RecordAny(p) == recvReliableIndex \cup {p.messageIndex}

\* Faulty variant: only the message index of an ordered packet is recorded.
RecordOrdered(p) ==
  IF IsOrdered(p) THEN recvReliableIndex \cup {p.messageIndex}
                  ELSE recvReliableIndex

\* Line 47: the index of a reliable packet is recorded before the packet can
\* still be dropped for its channel or its age.
Record(p) ==
  IF IsReliable(p) THEN recvReliableIndex \cup {p.messageIndex}
                   ELSE recvReliableIndex

IsDuplicate(p) == IsReliable(p) /\ p.messageIndex \in recvReliableIndex

HasBadChannel(p) ==
  IsSequencedOrOrdered(p) /\ p.orderChannel > MAX_ORDER_CHANNELS

\* Faulty variant: off by one, the last index is taken for new.
IsOlderThanLast(p) == p.sequencedIndex < recvSequencedIndex[p.orderChannel] - 1

IsOldSequenced(p) == p.sequencedIndex < recvSequencedIndex[p.orderChannel]

\* Faulty variant: a packet ahead of its turn is accepted.
IsNextOrLater(p) == p.orderedIndex >= recvOrderedIndex[p.orderChannel]

IsNextOrdered(p) == p.orderedIndex = recvOrderedIndex[p.orderChannel]

IsEarlyOrdered(p) == p.orderedIndex > recvOrderedIndex[p.orderChannel]

\* Faulty variant: a channel parks one packet at a time.
ParkOne(p) == {p}

\* recvOrderedPackets[channel][orderedIndex] = packet
Park(p) ==
  {q \in recvOrderedPackets[p.orderChannel] : q.orderedIndex # p.orderedIndex}
    \cup {p}

\* The next packet p of the datagram, which leaves the list.
NextPacket(p) ==
  /\ pc = "packets" /\ pending # <<>>
  /\ p = Head(pending)
  /\ pending' = Tail(pending)
  /\ UNCHANGED <<numberVars, pc, channel, delivered>>

Drop == UNCHANGED <<recvSequencedIndex, recvOrderedIndex, recvOrderedPackets,
                    handledPackets>>

\* Lines 37-46.
DropDuplicate(p) ==
  /\ NextPacket(p)
  /\ IsDuplicate(p)
  /\ Drop
  /\ UNCHANGED recvReliableIndex

\* A packet that is not a duplicate is first recorded.
NewPacket(p) ==
  /\ NextPacket(p)
  /\ ~IsDuplicate(p)
  /\ recvReliableIndex' = Record(p)

\* Lines 56-60.
DropBadChannel(p) == NewPacket(p) /\ HasBadChannel(p) /\ Drop

\* Lines 63-67.
DropOldSequenced(p) ==
  /\ NewPacket(p)
  /\ ~HasBadChannel(p)
  /\ IsSequenced(p)
  /\ IsOldSequenced(p)
  /\ Drop

\* Lines 69 and 86-90.
AcceptSequenced(p) ==
  /\ NewPacket(p)
  /\ ~HasBadChannel(p)
  /\ IsSequenced(p)
  /\ ~IsOldSequenced(p)
  /\ recvSequencedIndex' =
       [recvSequencedIndex EXCEPT ![p.orderChannel] = p.sequencedIndex + 1]
  /\ handledPackets' = Append(handledPackets, p)
  /\ UNCHANGED <<recvOrderedIndex, recvOrderedPackets>>

\* Lines 71-72 and 86-90.
AcceptOrdered(p) ==
  /\ NewPacket(p)
  /\ ~HasBadChannel(p)
  /\ IsOrdered(p)
  /\ IsNextOrdered(p)
  /\ recvOrderedIndex' =
       [recvOrderedIndex EXCEPT ![p.orderChannel] = p.orderedIndex + 1]
  /\ handledPackets' = Append(handledPackets, p)
  /\ UNCHANGED <<recvSequencedIndex, recvOrderedPackets>>

\* Lines 73-80: a packet ahead of its turn is parked until its turn comes.
ParkOrdered(p) ==
  /\ NewPacket(p)
  /\ ~HasBadChannel(p)
  /\ IsOrdered(p)
  /\ ~IsNextOrdered(p)
  /\ IsEarlyOrdered(p)
  /\ recvOrderedPackets' = [recvOrderedPackets EXCEPT ![p.orderChannel] = Park(p)]
  /\ UNCHANGED <<recvSequencedIndex, recvOrderedIndex, handledPackets>>

\* Lines 81-84.
DropOldOrdered(p) ==
  /\ NewPacket(p)
  /\ ~HasBadChannel(p)
  /\ IsOrdered(p)
  /\ ~IsNextOrdered(p)
  /\ ~IsEarlyOrdered(p)
  /\ Drop

\* Lines 86-90: a packet without order is accepted as it comes.
AcceptPlain(p) ==
  /\ NewPacket(p)
  /\ ~IsSequencedOrOrdered(p)
  /\ handledPackets' = Append(handledPackets, p)
  /\ UNCHANGED <<recvSequencedIndex, recvOrderedIndex, recvOrderedPackets>>

HandlePacket(p) ==
  \/ DropDuplicate(p)
  \/ DropBadChannel(p)
  \/ DropOldSequenced(p)
  \/ AcceptSequenced(p)
  \/ AcceptOrdered(p)
  \/ ParkOrdered(p)
  \/ DropOldOrdered(p)
  \/ AcceptPlain(p)

-----------------------------------------------------------------------------
(* Session::receivePacket, after handleDatagram *)

ParkedIndices(c) == {p.orderedIndex : p \in recvOrderedPackets[c]}

\* The lambda minOrderedIndex over a map with these keys: its minimum starts
\* at 0, so no key lowers it.
MinOrderedIndex(keys) == Min(keys \cup {0})

Unpark(c, index) == {p \in recvOrderedPackets[c] : p.orderedIndex # index}

EndPackets ==
  /\ pc = "packets" /\ pending = <<>>
  /\ pc' = "scan" /\ channel' = 0
  /\ UNCHANGED <<numberVars, indexVars, pending, handledPackets, delivered>>

\* Lines 119-120.
SkipChannel ==
  /\ pc = "scan" /\ channel < MAX_ORDER_CHANNELS
  /\ recvOrderedPackets[channel] = {}
  /\ channel' = channel + 1
  /\ UNCHANGED <<numberVars, indexVars, pc, pending, handledPackets, delivered>>

EnterChannel ==
  /\ pc = "scan" /\ channel < MAX_ORDER_CHANNELS
  /\ recvOrderedPackets[channel] # {}
  /\ pc' = "purge"
  /\ UNCHANGED <<numberVars, indexVars, channel, pending, handledPackets, delivered>>

\* One round of lines 123-124.
Purge ==
  /\ pc = "purge"
  /\ MinOrderedIndex(ParkedIndices(channel)) < recvOrderedIndex[channel]
  /\ recvOrderedPackets' = [recvOrderedPackets EXCEPT ![channel] =
       Unpark(channel, MinOrderedIndex(ParkedIndices(channel)))]
  /\ UNCHANGED <<numberVars, recvReliableIndex, recvSequencedIndex,
                 recvOrderedIndex, threadVars>>

EndPurge ==
  /\ pc = "purge"
  /\ MinOrderedIndex(ParkedIndices(channel)) >= recvOrderedIndex[channel]
  /\ pc' = "late"
  /\ UNCHANGED <<numberVars, indexVars, channel, pending, handledPackets, delivered>>

\* The packet that operator[] finds, or the null it inserts.
Parked(c, index) ==
  IF index \in ParkedIndices(c)
  THEN CHOOSE p \in recvOrderedPackets[c] : p.orderedIndex = index
  ELSE NullPacket

\* One round of lines 127-131.  The minimum is taken anew for the erase, when
\* the entry that operator[] looked up is in the map.
DeliverLate ==
  LET index == recvOrderedIndex[channel]
      keys == ParkedIndices(channel)
  IN  /\ pc = "late"
      /\ MinOrderedIndex(keys) = index
      /\ handledPackets' = Append(handledPackets, Parked(channel, index))
      /\ recvOrderedIndex' = [recvOrderedIndex EXCEPT ![channel] = index + 1]
      /\ recvOrderedPackets' = [recvOrderedPackets EXCEPT ![channel] =
           Unpark(channel, MinOrderedIndex(keys \cup {index}))]
      /\ UNCHANGED <<numberVars, recvReliableIndex, recvSequencedIndex,
                     pc, channel, pending, delivered>>

EndLate ==
  /\ pc = "late"
  /\ MinOrderedIndex(ParkedIndices(channel)) # recvOrderedIndex[channel]
  /\ pc' = "scan" /\ channel' = channel + 1
  /\ UNCHANGED <<numberVars, indexVars, pending, handledPackets, delivered>>

\* Lines 138-142: what was accepted goes to the thread pool in one task, and
\* the session mutex is released.
AddTask ==
  /\ pc = "scan" /\ channel = MAX_ORDER_CHANNELS
  /\ delivered' = delivered \o handledPackets
  /\ handledPackets' = <<>>
  /\ pc' = "idle"
  /\ UNCHANGED <<numberVars, indexVars, channel, pending>>

-----------------------------------------------------------------------------
(* Session::update: what the two queues hold is sent, and the queues cleared *)

\* Faulty variant: acknowledgements wait until something is missing.
AckedWithNack == IF NACKQueue = {} THEN {} ELSE ACKQueue

AckedNow == ACKQueue

Update ==
  /\ pc = "idle"
  /\ acked' = acked \cup AckedNow
  /\ ACKQueue' = ACKQueue \ AckedNow
  /\ nacked' = nacked \cup NACKQueue
  /\ NACKQueue' = {}
  /\ UNCHANGED <<recvSequenceNumber, lastRecvSequenceNumber, received,
                 indexVars, threadVars>>

-----------------------------------------------------------------------------
Datagrams == UNION {[1 .. k -> Packet] : k \in 0 .. MaxPackets}

ReceiveSteps ==
  \/ \E p \in Packet : HandlePacket(p)
  \/ EndPackets
  \/ SkipChannel
  \/ EnterChannel
  \/ Purge
  \/ EndPurge
  \/ DeliverLate
  \/ EndLate
  \/ AddTask

Next ==
  \/ \E n \in 0 .. MaxSequence, pkts \in Datagrams : ReceiveDatagram(n, pkts)
  \/ ReceiveSteps
  \/ Update

Spec == Init /\ [][Next]_vars

\* The receive thread runs on while it holds the mutex, and the updater comes
\* round again and again.  std::mutex promises no turn to a thread that finds it
\* taken, so the updater is sure to get in only once the mutex stays free.
FairSpec == Spec /\ WF_vars(ReceiveSteps) /\ WF_vars(Update)

-----------------------------------------------------------------------------
(* Properties *)

\* Every variable has its type; the index of a packet that is not reliable is
\* never recorded as seen (handleEncapsulated, lines 36-48).
TypeOK ==
  /\ ACKQueue \subseteq Nat /\ NACKQueue \subseteq Nat
  /\ received \subseteq Nat /\ acked \subseteq Nat /\ nacked \subseteq Nat
  /\ recvSequenceNumber \in Nat /\ lastRecvSequenceNumber \in Nat
  /\ recvReliableIndex \subseteq Nat
  /\ recvSequencedIndex \in [Channel -> Nat]
  /\ recvOrderedIndex \in [Channel -> Nat]
  /\ recvOrderedPackets \in [Channel -> SUBSET {p \in Packet : IsOrdered(p)}]
  /\ pc \in {"idle", "packets", "scan", "purge", "late"}
  /\ channel \in 0 .. MAX_ORDER_CHANNELS
  /\ pc \in {"purge", "late"} => channel \in Channel
  /\ pending \in Seq(Packet)
  /\ handledPackets \in Seq(Packet \cup {NullPacket})
  /\ delivered \in Seq(Packet \cup {NullPacket})

\* The server never asks again for a datagram it has: a late datagram is taken
\* off the NACK queue before the next update sends it (lines 19-25).
NoFalseNack == NACKQueue \cap received = {}

\* No loss goes unnoticed: every number below the largest one, 0 apart, was
\* received, or is queued to be asked for, or has been asked for (lines 9-17).
GapsReported ==
  \A n \in 1 .. recvSequenceNumber - 1 :
    n \in received \cup NACKQueue \cup nacked

\* What an ACK names was received, and what was received is named in an ACK or
\* waits to be (line 7; Session::update, lines 41-48).
AcksComplete == received = acked \cup ACKQueue

\* The two queues and what has left them say exactly what came and what did not.
NumbersExact == NoFalseNack /\ GapsReported /\ AcksComplete

\* A number that was asked for once is not queued again, however datagrams are
\* repeated and reordered, for a gap is opened once (lines 13-17).
NackedOnce == [][(NACKQueue' \ NACKQueue) \cap nacked = {}]_vars

\* The packets that passed the receive path, in the order of their tasks.
Accepted == delivered \o handledPackets

\* A reliable packet reaches the application at most once, whatever datagrams
\* repeat it, and also when it was parked in between (lines 36-48).
ReliableOnce ==
  \A i, j \in 1 .. Len(Accepted) :
    /\ Accepted[i] = Accepted[j]
    /\ Accepted[i] # NullPacket
    /\ IsReliable(Accepted[i])
    => i = j

IsOrderedOn(p, c) == p # NullPacket /\ IsOrdered(p) /\ p.orderChannel = c

IsSequencedOn(p, c) == p # NullPacket /\ IsSequenced(p) /\ p.orderChannel = c

\* The ordered packets of a channel are accepted in the order of their indices.
OrderedIncreasing ==
  \A c \in Channel : \A i, j \in 1 .. Len(Accepted) :
    /\ i < j
    /\ IsOrderedOn(Accepted[i], c)
    /\ IsOrderedOn(Accepted[j], c)
    => Accepted[i].orderedIndex < Accepted[j].orderedIndex

\* Between an ordered packet that was accepted and the index the channel waits
\* for nothing was passed over (lines 70-85, receivePacket lines 127-133).
OrderedComplete ==
  \A c \in Channel : \A i \in 1 .. Len(Accepted) :
    IsOrderedOn(Accepted[i], c) =>
      \A n \in Accepted[i].orderedIndex .. recvOrderedIndex[c] - 1 :
        \E j \in i .. Len(Accepted) :
          IsOrderedOn(Accepted[j], c) /\ Accepted[j].orderedIndex = n

\* Ordered delivery: in order and without a gap.
OrderedContiguous == OrderedIncreasing /\ OrderedComplete

\* Sequenced delivery: a packet older than one already accepted on its channel
\* is never accepted (lines 62-69).
SequencedIncreasing ==
  \A c \in Channel : \A i, j \in 1 .. Len(Accepted) :
    /\ i < j
    /\ IsSequencedOn(Accepted[i], c)
    /\ IsSequencedOn(Accepted[j], c)
    => Accepted[i].sequencedIndex < Accepted[j].sequencedIndex

\* An ordered packet with this place in the channel was accepted.
PlaceAccepted(c, n) ==
  \E i \in 1 .. Len(Accepted) :
    IsOrderedOn(Accepted[i], c) /\ Accepted[i].orderedIndex = n

\* Recording a message index refuses every retransmission (lines 36-47), so a
\* recorded packet must not be lost afterwards: it was accepted, or another
\* packet with its place in the channel was, or the place is still parked.
\* On channel 0, from the first index the channel waits for.
RecordedNotLost ==
  \A p \in Packet :
    IsReliable(p) /\ p.messageIndex \in recvReliableIndex =>
      /\ ~IsSequencedOrOrdered(p) => \E i \in 1 .. Len(Accepted) : Accepted[i] = p
      /\ IsOrderedOn(p, 0) /\ p.orderedIndex >= MAX_ORDER_CHANNELS =>
           p.orderedIndex \in ParkedIndices(0) \/ PlaceAccepted(0, p.orderedIndex)

\* Once the peer falls silent, every datagram that came is acknowledged
\* (Session::update, lines 41-48, run by the updater's loop).
AckedOnceQuiet ==
  <>[](pc = "idle") => \A n \in 0 .. MaxSequence : n \in received ~> n \in acked

\* A datagram does not hold the session mutex for ever (receivePacket).  It
\* holds as long as no ordered packet is early: see DrainReachesGap.
MutexReleased == pc # "idle" ~> pc = "idle"

\* Session.cpp:126, "We add packets to the datagram until we reach the next
\* gap": the loop over the parked packets comes to an end.
DrainReachesGap == pc \in {"purge", "late"} ~> pc = "idle"
=============================================================================
