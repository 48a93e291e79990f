---------------------- MODULE ReliabilityDeliveryProofs ----------------------
(***************************************************************************)
(* Proofs about what the receive path of a session hands on: no reliable   *)
(* packet twice, ordered packets in order and without a gap, sequenced     *)
(* packets never backwards, and no recorded packet lost.                   *)
(***************************************************************************)
EXTENDS ReliabilityReceiveProofs

-----------------------------------------------------------------------------
(* How the sequence of accepted packets changes *)

LEMMA AcceptedType == TypeOK => Accepted \in Seq(Packet \cup {NullPacket})
BY DEF TypeOK, Accepted

\* x is added at the end of the accepted packets.
AcceptedGrows(x) ==
  /\ Len(Accepted') = Len(Accepted) + 1
  /\ \A i \in 1 .. Len(Accepted) : Accepted'[i] = Accepted[i]
  /\ Accepted'[Len(Accepted) + 1] = x

LEMMA AppendGrows ==
  ASSUME TypeOK, NEW x, handledPackets' = Append(handledPackets, x),
         delivered' = delivered
  PROVE  AcceptedGrows(x)
BY DEF AcceptedGrows, Accepted, TypeOK

\* The steps of the receive path that decide nothing about a packet, and the
\* updater's: handing over a task moves packets within Accepted only.
QuietStep ==
  \/ \E n \in 0 .. MaxSequence, pkts \in Datagrams : ReceiveDatagram(n, pkts)
  \/ EndPackets
  \/ SkipChannel
  \/ EnterChannel
  \/ EndPurge
  \/ EndLate
  \/ AddTask
  \/ Update
  \/ UNCHANGED vars

LEMMA QuietStepKeeps ==
  ASSUME TypeOK, QuietStep
  PROVE  Accepted' = Accepted /\ UNCHANGED indexVars
<1>1. CASE AddTask
  <2>1. /\ delivered' = delivered \o handledPackets
        /\ handledPackets' = <<>>
    BY <1>1 DEF AddTask
  <2> QED
    BY <1>1, <2>1 DEF AddTask, TypeOK, Accepted
<1>2. CASE ~AddTask
  BY <1>2 DEF QuietStep, ReceiveDatagram, EndPackets, SkipChannel, EnterChannel,
       EndPurge, EndLate, Update, vars, threadVars, Accepted
<1> QED
  BY <1>1, <1>2

LEMMA StepKinds ==
  [Next]_vars <=> \/ QuietStep
                  \/ \E p \in Packet : HandlePacket(p)
                  \/ Purge
                  \/ DeliverLate
BY DEF Next, ReceiveSteps, QuietStep

\* Every way of handling a packet either appends it or leaves Accepted alone.
LEMMA HandleKinds ==
  ASSUME TypeOK, NEW p \in Packet, HandlePacket(p)
  PROVE  \/ DropDuplicate(p)
         \/ /\ ~IsDuplicate(p)
            /\ recvReliableIndex' = Record(p)
            /\ \/ AcceptedGrows(p)
               \/ Accepted' = Accepted
<1>1. NextPacket(p) => delivered' = delivered
  BY DEF NextPacket
<1>2. handledPackets' = Append(handledPackets, p) /\ NextPacket(p) => AcceptedGrows(p)
  BY <1>1, AppendGrows
<1> QED
  BY <1>1, <1>2 DEF HandlePacket, NewPacket, DropBadChannel, DropOldSequenced,
     AcceptSequenced, AcceptOrdered, ParkOrdered, DropOldOrdered, AcceptPlain,
     Drop, Accepted

\* The index of a channel is 0 when a parked packet is handed on: then the
\* packet's place is 0, and what the map loses is that place.
LEMMA LateIsZero ==
  ASSUME TypeOK, DeliverLate
  PROVE  /\ channel \in Channel
         /\ recvOrderedIndex[channel] = 0
         /\ recvOrderedIndex' = [recvOrderedIndex EXCEPT ![channel] = 1]
         /\ recvOrderedPackets' =
              [recvOrderedPackets EXCEPT ![channel] = Unpark(channel, 0)]
         /\ AcceptedGrows(Parked(channel, 0))
         /\ UNCHANGED <<recvReliableIndex, recvSequencedIndex>>
<1>1. channel \in Channel
  BY DEF TypeOK, DeliverLate
<1>2. ParkedIndices(channel) \in SUBSET Nat
  BY <1>1, ParkedIndicesNat
<1>3. recvOrderedIndex[channel] = 0
  BY <1>2, MinOrderedIndexIsZero DEF DeliverLate
<1>4. MinOrderedIndex(ParkedIndices(channel) \cup {0}) = 0
  BY <1>2, MinOrderedIndexIsZero
<1>5. AcceptedGrows(Parked(channel, 0))
  BY <1>3, AppendGrows DEF DeliverLate
<1>6. recvOrderedIndex' = [recvOrderedIndex EXCEPT ![channel] = 1]
  <2>1. recvOrderedIndex' =
          [recvOrderedIndex EXCEPT ![channel] = recvOrderedIndex[channel] + 1]
    BY DEF DeliverLate
  <2>2. 0 + 1 = 1
    OBVIOUS
  <2> QED
    BY <1>3, <2>1, <2>2
<1>7. recvOrderedPackets' =
        [recvOrderedPackets EXCEPT ![channel] = Unpark(channel, 0)]
  <2>1. recvOrderedPackets' = [recvOrderedPackets EXCEPT ![channel] =
          Unpark(channel, MinOrderedIndex(ParkedIndices(channel)
                                            \cup {recvOrderedIndex[channel]}))]
    BY DEF DeliverLate
  <2> QED
    BY <1>3, <1>4, <2>1
<1> QED
  BY <1>1, <1>3, <1>5, <1>6, <1>7 DEF DeliverLate

\* A purge takes place 0 off the map, if anything.
LEMMA PurgeIsZero ==
  ASSUME TypeOK, Purge
  PROVE  /\ channel \in Channel
         /\ recvOrderedPackets' =
              [recvOrderedPackets EXCEPT ![channel] = Unpark(channel, 0)]
         /\ Accepted' = Accepted
         /\ UNCHANGED <<recvReliableIndex, recvSequencedIndex, recvOrderedIndex>>
<1>1. channel \in Channel
  BY DEF TypeOK, Purge
<1>2. MinOrderedIndex(ParkedIndices(channel)) = 0
  BY <1>1, ParkedIndicesNat, MinOrderedIndexIsZero
<1> QED
  BY <1>1, <1>2 DEF Purge, threadVars, Accepted

-----------------------------------------------------------------------------
(* No reliable packet twice *)

LEMMA OrderedIsReliable == \A p : IsOrdered(p) => IsReliable(p)
BY DEF IsOrdered, IsReliable

\* A parked packet is parked where it belongs, has been recorded, and has not
\* been accepted; an accepted reliable packet has been recorded.
ParkedInv ==
  \A c \in Channel : \A p \in recvOrderedPackets[c] :
    /\ p.orderChannel = c
    /\ p.messageIndex \in recvReliableIndex
    /\ \A i \in 1 .. Len(Accepted) : Accepted[i] # p

AcceptedRecorded ==
  \A i \in 1 .. Len(Accepted) :
    Accepted[i] # NullPacket /\ IsReliable(Accepted[i]) =>
      Accepted[i].messageIndex \in recvReliableIndex

OnceInv == ParkedInv /\ AcceptedRecorded /\ ReliableOnce

LEMMA InitOnce == Init => OnceInv
<1> SUFFICES ASSUME Init PROVE OnceInv
  OBVIOUS
<1>1. Len(Accepted) = 0
  BY DEF Init, Accepted
<1> QED
  BY <1>1 DEF Init, OnceInv, ParkedInv, AcceptedRecorded, ReliableOnce

\* Appending a packet that has not been recorded, and recording it.
LEMMA GrowOnce ==
  ASSUME TypeOK, OnceInv, NEW p \in Packet, ~IsDuplicate(p),
         recvReliableIndex' = Record(p), AcceptedGrows(p),
         UNCHANGED recvOrderedPackets
  PROVE  OnceInv'
<1>1. Accepted \in Seq(Packet \cup {NullPacket})
  BY AcceptedType
<1>2. recvReliableIndex \subseteq recvReliableIndex'
  BY DEF Record
<1>3. IsReliable(p) => \A i \in 1 .. Len(Accepted) : Accepted[i] # p
  BY NullPacketAssumption DEF OnceInv, AcceptedRecorded, IsDuplicate
<1>4. \A c \in Channel : \A q \in recvOrderedPackets[c] : q # p
  BY OrderedIsReliable DEF TypeOK, OnceInv, ParkedInv, IsDuplicate
<1>5. ParkedInv'
  BY <1>1, <1>2, <1>4 DEF OnceInv, ParkedInv, AcceptedGrows
<1>6. AcceptedRecorded'
  BY <1>1, <1>2 DEF OnceInv, AcceptedRecorded, AcceptedGrows, Record
<1>7. ReliableOnce'
  BY <1>1, <1>3 DEF OnceInv, ReliableOnce, AcceptedGrows
<1> QED
  BY <1>5, <1>6, <1>7 DEF OnceInv

LEMMA ParkOnce ==
  ASSUME TypeOK, OnceInv, NEW p \in Packet, ParkOrdered(p)
  PROVE  OnceInv'
<1>1. /\ Accepted' = Accepted
      /\ p.orderChannel \in Channel
      /\ recvReliableIndex' = recvReliableIndex \cup {p.messageIndex}
      /\ recvOrderedPackets' =
           [recvOrderedPackets EXCEPT ![p.orderChannel] = Park(p)]
  BY NextPacketType, OrderedIsReliable
     DEF ParkOrdered, NewPacket, NextPacket, Accepted, Record, IsSequencedOrOrdered
<1>2. \A i \in 1 .. Len(Accepted) : Accepted[i] # p
  BY NullPacketAssumption, OrderedIsReliable
     DEF OnceInv, AcceptedRecorded, ParkOrdered, NewPacket, IsDuplicate
<1>3. ParkedInv'
  <2> SUFFICES ASSUME NEW c \in Channel, NEW q \in recvOrderedPackets'[c]
               PROVE  /\ q.orderChannel = c
                      /\ q.messageIndex \in recvReliableIndex'
                      /\ \A i \in 1 .. Len(Accepted) : Accepted[i] # q
    BY <1>1 DEF ParkedInv
  <2>1. q \in recvOrderedPackets[c] \/ (q = p /\ c = p.orderChannel)
    BY <1>1 DEF TypeOK, Park
  <2> QED
    BY <1>1, <1>2, <2>1 DEF OnceInv, ParkedInv
<1>4. AcceptedRecorded' /\ ReliableOnce'
  BY <1>1 DEF OnceInv, AcceptedRecorded, ReliableOnce
<1> QED
  BY <1>3, <1>4 DEF OnceInv

LEMMA LateOnce ==
  ASSUME TypeOK, OnceInv, DeliverLate
  PROVE  OnceInv'
<1> DEFINE x == Parked(channel, 0)
<1>1. /\ channel \in Channel
      /\ recvOrderedPackets' =
           [recvOrderedPackets EXCEPT ![channel] = Unpark(channel, 0)]
      /\ AcceptedGrows(x)
      /\ UNCHANGED recvReliableIndex
  BY LateIsZero
<1>2. \/ x = NullPacket
      \/ x \in recvOrderedPackets[channel] /\ x.orderedIndex = 0 /\ x \in Packet
  BY <1>1, ParkedType
<1>3. Accepted \in Seq(Packet \cup {NullPacket})
  BY AcceptedType
<1> HIDE DEF x
<1>4. \A c \in Channel : recvOrderedPackets'[c] \subseteq recvOrderedPackets[c] \ {x}
  <2> SUFFICES ASSUME NEW c \in Channel, NEW q \in recvOrderedPackets'[c]
               PROVE  q \in recvOrderedPackets[c] /\ q # x
    OBVIOUS
  <2>1. q \in recvOrderedPackets[c] /\ (c = channel => q.orderedIndex # 0)
    BY <1>1 DEF TypeOK, Unpark
  <2>2. q # x
    BY <1>1, <1>2, <2>1, NullPacketAssumption DEF TypeOK, OnceInv, ParkedInv
  <2> QED
    BY <2>1, <2>2
<1>5. ParkedInv'
  <2> SUFFICES ASSUME NEW c \in Channel, NEW q \in recvOrderedPackets'[c],
                      NEW i \in 1 .. Len(Accepted')
               PROVE  /\ q.orderChannel = c
                      /\ q.messageIndex \in recvReliableIndex'
                      /\ Accepted'[i] # q
    BY <1>1, <1>3, <1>4 DEF ParkedInv, OnceInv
  <2> QED
    BY <1>1, <1>3, <1>4 DEF ParkedInv, OnceInv, AcceptedGrows
<1>6. AcceptedRecorded'
  BY <1>1, <1>2, <1>3 DEF OnceInv, ParkedInv, AcceptedRecorded, AcceptedGrows
<1>7. x # NullPacket => \A i \in 1 .. Len(Accepted) : Accepted[i] # x
  BY <1>1, <1>2 DEF OnceInv, ParkedInv
<1>8. ReliableOnce'
  BY <1>1, <1>3, <1>7 DEF OnceInv, ReliableOnce, AcceptedGrows
<1> QED
  BY <1>5, <1>6, <1>8 DEF OnceInv

LEMMA StepOnce == TypeOK /\ OnceInv /\ [Next]_vars => OnceInv'
<1> SUFFICES ASSUME TypeOK, OnceInv, [Next]_vars PROVE OnceInv'
  OBVIOUS
<1>1. ASSUME Accepted' = Accepted, recvReliableIndex \subseteq recvReliableIndex',
             \A c \in Channel : recvOrderedPackets'[c] \subseteq recvOrderedPackets[c]
      PROVE  OnceInv'
  BY <1>1 DEF OnceInv, ParkedInv, AcceptedRecorded, ReliableOnce
<1>2. CASE QuietStep
  BY <1>1, <1>2, QuietStepKeeps DEF indexVars
<1>3. ASSUME NEW p \in Packet, HandlePacket(p) PROVE OnceInv'
  <2>1. CASE ParkOrdered(p)
    BY <2>1, ParkOnce
  <2>2. CASE ~ParkOrdered(p)
    <3>1. UNCHANGED recvOrderedPackets
      BY <1>3, <2>2 DEF HandlePacket, DropDuplicate, DropBadChannel, DropOldSequenced,
         AcceptSequenced, AcceptOrdered, DropOldOrdered, AcceptPlain, Drop
    <3>2. CASE DropDuplicate(p)
      BY <1>1, <3>1, <3>2 DEF DropDuplicate, NextPacket, Drop, Accepted
    <3>3. CASE ~DropDuplicate(p)
      BY <1>1, <1>3, <3>1, <3>3, HandleKinds, GrowOnce DEF Record
    <3> QED
      BY <3>2, <3>3
  <2> QED
    BY <2>1, <2>2
<1>4. CASE Purge
  BY <1>1, <1>4, PurgeIsZero DEF Unpark, TypeOK
<1>5. CASE DeliverLate
  BY <1>5, LateOnce
<1> QED
  BY <1>2, <1>3, <1>4, <1>5, StepKinds

\* A reliable packet is handed to the thread pool at most once, however often
\* the peer sends it and whether or not it was parked (handleEncapsulated,
\* lines 36-48; receivePacket, lines 127-133).
THEOREM ReliableDeliveredOnce == Spec => []ReliableOnce
<1>1. Init => TypeOK /\ OnceInv
  BY InitType, InitOnce
<1>2. TypeOK /\ OnceInv /\ [Next]_vars => (TypeOK /\ OnceInv)'
  BY StepType, StepOnce
<1>3. OnceInv => ReliableOnce
  BY DEF OnceInv
<1> QED
  BY <1>1, <1>2, <1>3, PTL DEF Spec

-----------------------------------------------------------------------------
(* Ordered packets in order and without a gap *)

\* The index a channel waits for lies above every ordered index it accepted.
OrderedBelow ==
  \A c \in Channel : \A i \in 1 .. Len(Accepted) :
    IsOrderedOn(Accepted[i], c) => Accepted[i].orderedIndex < recvOrderedIndex[c]

OrderedInv == OrderedBelow /\ OrderedIncreasing /\ OrderedComplete

LEMMA InitOrdered == Init => OrderedInv
<1> SUFFICES ASSUME Init PROVE OrderedInv
  OBVIOUS
<1>1. Len(Accepted) = 0
  BY DEF Init, Accepted
<1> QED
  BY <1>1 DEF OrderedInv, OrderedBelow, OrderedIncreasing, OrderedComplete

\* x is the packet channel c waits for and c moves on by one; or x is none of
\* its packets, and c stays where it is or leaves 0, below which it has
\* accepted nothing.
Advances(x, c) ==
  \/ /\ IsOrderedOn(x, c)
     /\ x.orderedIndex = recvOrderedIndex[c]
     /\ recvOrderedIndex'[c] = recvOrderedIndex[c] + 1
  \/ /\ ~IsOrderedOn(x, c)
     /\ recvOrderedIndex'[c] = recvOrderedIndex[c] \/ recvOrderedIndex[c] = 0

LEMMA AcceptedIndexNat ==
  ASSUME TypeOK
  PROVE  \A c \in Channel : \A i \in 1 .. Len(Accepted) :
           /\ IsOrderedOn(Accepted[i], c) => Accepted[i].orderedIndex \in Nat
           /\ IsSequencedOn(Accepted[i], c) => Accepted[i].sequencedIndex \in Nat
<1>1. Accepted \in Seq(Packet \cup {NullPacket})
  BY AcceptedType
<1>2. \A i \in 1 .. Len(Accepted) : Accepted[i] \in Packet \cup {NullPacket}
  BY <1>1
<1>3. ASSUME NEW c \in Channel, NEW i \in 1 .. Len(Accepted)
      PROVE  /\ IsOrderedOn(Accepted[i], c) => Accepted[i].orderedIndex \in Nat
             /\ IsSequencedOn(Accepted[i], c) => Accepted[i].sequencedIndex \in Nat
  <2>1. Accepted[i] = NullPacket \/ Accepted[i] \in Packet
    BY <1>2
  <2> QED
    BY <2>1, PacketAssumption DEF IsOrderedOn, IsSequencedOn
<1> QED
  BY <1>3

LEMMA GrowOrdered ==
  ASSUME TypeOK, OrderedInv, TypeOK', NEW x, AcceptedGrows(x),
         \A c \in Channel : Advances(x, c)
  PROVE  OrderedInv'
<1>1. Accepted \in Seq(Packet \cup {NullPacket}) /\ Len(Accepted) \in Nat
  BY AcceptedType
<1>2. \A c \in Channel : \A i \in 1 .. Len(Accepted) :
        IsOrderedOn(Accepted[i], c) =>
          Accepted[i].orderedIndex \in Nat /\ recvOrderedIndex[c] # 0
  <2> SUFFICES ASSUME NEW c \in Channel, NEW i \in 1 .. Len(Accepted),
                      IsOrderedOn(Accepted[i], c)
               PROVE  Accepted[i].orderedIndex \in Nat /\ recvOrderedIndex[c] # 0
    OBVIOUS
  <2>1. Accepted[i].orderedIndex \in Nat
    BY AcceptedIndexNat
  <2>2. Accepted[i].orderedIndex < recvOrderedIndex[c]
    BY DEF OrderedInv, OrderedBelow
  <2> QED
    BY <2>1, <2>2
<1>3. recvOrderedIndex \in [Channel -> Nat] /\ recvOrderedIndex' \in [Channel -> Nat]
  BY DEF TypeOK
<1>4. OrderedBelow'
  <2> SUFFICES ASSUME NEW c \in Channel, NEW i \in 1 .. Len(Accepted'),
                      IsOrderedOn(Accepted'[i], c)
               PROVE  Accepted'[i].orderedIndex < recvOrderedIndex'[c]
    BY DEF OrderedBelow, IsOrderedOn
  <2>1. CASE i = Len(Accepted) + 1
    BY <1>3, <2>1 DEF Advances, AcceptedGrows
  <2>2. CASE i \in 1 .. Len(Accepted)
    <3>1. /\ IsOrderedOn(Accepted[i], c) /\ Accepted'[i] = Accepted[i]
          /\ Accepted[i].orderedIndex < recvOrderedIndex[c]
          /\ Accepted[i].orderedIndex \in Nat
      BY <1>2, <2>2 DEF AcceptedGrows, OrderedInv, OrderedBelow
    <3>2. recvOrderedIndex'[c] >= recvOrderedIndex[c]
      BY <1>3 DEF Advances
    <3> QED
      BY <1>3, <3>1, <3>2
  <2> QED
    BY <1>1, <2>1, <2>2 DEF AcceptedGrows
<1>5. OrderedIncreasing'
  <2> SUFFICES ASSUME NEW c \in Channel, NEW i \in 1 .. Len(Accepted'),
                      NEW j \in 1 .. Len(Accepted'), i < j,
                      IsOrderedOn(Accepted'[i], c), IsOrderedOn(Accepted'[j], c)
               PROVE  Accepted'[i].orderedIndex < Accepted'[j].orderedIndex
    BY DEF OrderedIncreasing, IsOrderedOn
  <2>1. i \in 1 .. Len(Accepted) /\ Accepted'[i] = Accepted[i]
    BY <1>1 DEF AcceptedGrows
  <2>2. CASE j = Len(Accepted) + 1
    BY <2>1, <2>2 DEF Advances, AcceptedGrows, OrderedInv, OrderedBelow
  <2>3. CASE j \in 1 .. Len(Accepted)
    BY <2>1, <2>3 DEF AcceptedGrows, OrderedInv, OrderedIncreasing
  <2> QED
    BY <1>1, <2>2, <2>3 DEF AcceptedGrows
<1>6. OrderedComplete'
  <2> SUFFICES ASSUME NEW c \in Channel, NEW i \in 1 .. Len(Accepted'),
                      IsOrderedOn(Accepted'[i], c),
                      NEW n \in Accepted'[i].orderedIndex .. recvOrderedIndex'[c] - 1
               PROVE  \E j \in i .. Len(Accepted') :
                        IsOrderedOn(Accepted'[j], c) /\ Accepted'[j].orderedIndex = n
    BY DEF OrderedComplete, IsOrderedOn
  <2>1. CASE i = Len(Accepted) + 1
    <3>1. Accepted'[i].orderedIndex = recvOrderedIndex'[c] - 1
      BY <1>3, <2>1 DEF Advances, AcceptedGrows
    <3>2. Accepted'[i].orderedIndex = n
      BY <1>3, <3>1
    <3>3. i \in i .. Len(Accepted')
      BY <1>1, <2>1 DEF AcceptedGrows
    <3> QED
      BY <3>2, <3>3
  <2>2. CASE i \in 1 .. Len(Accepted) /\ n <= recvOrderedIndex[c] - 1
    <3>1. Accepted'[i] = Accepted[i]
      BY <2>2 DEF AcceptedGrows
    <3>2. n \in Accepted[i].orderedIndex .. recvOrderedIndex[c] - 1
      BY <1>2, <1>3, <2>2, <3>1
    <3>3. PICK j \in i .. Len(Accepted) :
            IsOrderedOn(Accepted[j], c) /\ Accepted[j].orderedIndex = n
      BY <2>2, <3>1, <3>2 DEF OrderedInv, OrderedComplete
    <3>4. j \in i .. Len(Accepted') /\ Accepted'[j] = Accepted[j]
      BY <1>1, <2>2 DEF AcceptedGrows
    <3> QED
      BY <3>3, <3>4
  <2>3. CASE i \in 1 .. Len(Accepted) /\ ~(n <= recvOrderedIndex[c] - 1)
    <3>1. IsOrderedOn(Accepted[i], c) /\ recvOrderedIndex[c] # 0
      BY <1>2, <2>3 DEF AcceptedGrows
    <3>2. /\ IsOrderedOn(x, c)
          /\ x.orderedIndex = recvOrderedIndex[c]
          /\ n = recvOrderedIndex[c]
      <4>1. n \in Int /\ n <= recvOrderedIndex'[c] - 1
        BY <1>3
      <4> QED
        BY <1>3, <2>3, <3>1, <4>1 DEF Advances
    <3>3. Len(Accepted) + 1 \in i .. Len(Accepted')
      BY <1>1, <2>3 DEF AcceptedGrows
    <3> QED
      BY <3>2, <3>3 DEF AcceptedGrows
  <2> QED
    BY <1>1, <2>1, <2>2, <2>3 DEF AcceptedGrows
<1> QED
  BY <1>4, <1>5, <1>6 DEF OrderedInv

\* A kind of packet is not two: no packet is both sequenced and ordered.
LEMMA SequencedNotOrdered == \A p : ~(IsSequenced(p) /\ IsOrdered(p))
BY DEF IsSequenced, IsOrdered

LEMMA LateAdvances ==
  ASSUME TypeOK, OnceInv, DeliverLate
  PROVE  \A c \in Channel : Advances(Parked(channel, 0), c)
<1> DEFINE x == Parked(channel, 0)
<1> SUFFICES ASSUME NEW c \in Channel PROVE Advances(x, c)
  OBVIOUS
<1>1. /\ channel \in Channel
      /\ recvOrderedIndex[channel] = 0
      /\ recvOrderedIndex' = [recvOrderedIndex EXCEPT ![channel] = 1]
  BY LateIsZero
<1>2. \/ x = NullPacket
      \/ x \in recvOrderedPackets[channel] /\ x.orderedIndex = 0 /\ x \in Packet
  BY <1>1, ParkedType
<1> HIDE DEF x
<1>3. x \in recvOrderedPackets[channel] => x.orderChannel = channel /\ IsOrdered(x)
  BY <1>1 DEF OnceInv, ParkedInv, TypeOK
<1>4. recvOrderedIndex \in [Channel -> Nat]
  BY DEF TypeOK
<1>5. CASE c = channel
  <2>1. recvOrderedIndex'[c] = 1 /\ recvOrderedIndex[c] = 0
    BY <1>1, <1>4, <1>5
  <2>2. CASE x = NullPacket
    BY <2>1, <2>2 DEF Advances, IsOrderedOn
  <2>3. CASE x # NullPacket
    <3>1. IsOrderedOn(x, c) /\ x.orderedIndex = 0
      BY <1>2, <1>3, <1>5, <2>3 DEF IsOrderedOn
    <3> QED
      BY <2>1, <3>1 DEF Advances
  <2> QED
    BY <2>2, <2>3
<1>6. CASE c # channel
  <2>1. recvOrderedIndex'[c] = recvOrderedIndex[c]
    BY <1>1, <1>4, <1>6
  <2>2. ~IsOrderedOn(x, c)
    BY <1>2, <1>3, <1>6 DEF IsOrderedOn
  <2> QED
    BY <2>1, <2>2 DEF Advances
<1> QED
  BY <1>5, <1>6

LEMMA StepOrdered == TypeOK /\ OnceInv /\ OrderedInv /\ [Next]_vars => OrderedInv'
<1> SUFFICES ASSUME TypeOK, OnceInv, OrderedInv, [Next]_vars PROVE OrderedInv'
  OBVIOUS
<1>0. TypeOK'
  BY StepType
<1>1. ASSUME Accepted' = Accepted, recvOrderedIndex' = recvOrderedIndex
      PROVE  OrderedInv'
  BY <1>1 DEF OrderedInv, OrderedBelow, OrderedIncreasing, OrderedComplete, IsOrderedOn
<1>2. CASE QuietStep
  BY <1>1, <1>2, QuietStepKeeps DEF indexVars
<1>3. ASSUME NEW p \in Packet, HandlePacket(p) PROVE OrderedInv'
  <2>1. CASE AcceptOrdered(p)
    <3>1. /\ p.orderChannel \in Channel /\ AcceptedGrows(p)
          /\ p.orderedIndex = recvOrderedIndex[p.orderChannel]
          /\ recvOrderedIndex' =
               [recvOrderedIndex EXCEPT ![p.orderChannel] = p.orderedIndex + 1]
      BY <2>1, AppendGrows, NextPacketType
         DEF AcceptOrdered, NewPacket, NextPacket, IsNextOrdered, IsSequencedOrOrdered
    <3>2. \A c \in Channel : Advances(p, c)
      BY <2>1, <3>1, NullPacketAssumption DEF Advances, IsOrderedOn, AcceptOrdered, TypeOK
    <3> QED
      BY <1>0, <3>1, <3>2, GrowOrdered
  <2>2. CASE AcceptSequenced(p) \/ AcceptPlain(p)
    <3>1. AcceptedGrows(p) /\ ~IsOrdered(p) /\ recvOrderedIndex' = recvOrderedIndex
      BY <2>2, AppendGrows, SequencedNotOrdered
         DEF AcceptSequenced, AcceptPlain, NewPacket, NextPacket, IsSequencedOrOrdered
    <3>2. \A c \in Channel : Advances(p, c)
      BY <3>1 DEF Advances, IsOrderedOn
    <3> QED
      BY <1>0, <3>1, <3>2, GrowOrdered
  <2>3. CASE ~AcceptOrdered(p) /\ ~AcceptSequenced(p) /\ ~AcceptPlain(p)
    BY <1>1, <1>3, <2>3 DEF HandlePacket, NewPacket, NextPacket, DropDuplicate,
       DropBadChannel, DropOldSequenced, ParkOrdered, DropOldOrdered, Drop, Accepted
  <2> QED
    BY <2>1, <2>2, <2>3
<1>4. CASE Purge
  BY <1>1, <1>4, PurgeIsZero
<1>5. CASE DeliverLate
  BY <1>0, <1>5, LateAdvances, LateIsZero, GrowOrdered
<1> QED
  BY <1>2, <1>3, <1>4, <1>5, StepKinds

\* Every channel hands on its ordered packets in the order of their indices and
\* passes over none, whatever order they come in (handleEncapsulated, lines
\* 70-85; receivePacket, lines 118-134).
THEOREM OrderedDelivery == Spec => []OrderedContiguous
<1>1. Init => TypeOK /\ OnceInv /\ OrderedInv
  BY InitType, InitOnce, InitOrdered
<1>2. TypeOK /\ OnceInv /\ OrderedInv /\ [Next]_vars => (TypeOK /\ OnceInv /\ OrderedInv)'
  BY StepType, StepOnce, StepOrdered
<1>3. OrderedInv => OrderedContiguous
  BY DEF OrderedInv, OrderedContiguous
<1> QED
  BY <1>1, <1>2, <1>3, PTL DEF Spec

-----------------------------------------------------------------------------
(* Sequenced packets never backwards *)

\* The index of a channel lies above every sequenced index it accepted.
SequencedBelow ==
  \A c \in Channel : \A i \in 1 .. Len(Accepted) :
    IsSequencedOn(Accepted[i], c) => Accepted[i].sequencedIndex < recvSequencedIndex[c]

SequencedInv == SequencedBelow /\ SequencedIncreasing

LEMMA InitSequenced == Init => SequencedInv
<1> SUFFICES ASSUME Init PROVE SequencedInv
  OBVIOUS
<1>1. Len(Accepted) = 0
  BY DEF Init, Accepted
<1> QED
  BY <1>1 DEF SequencedInv, SequencedBelow, SequencedIncreasing

\* x is not older than the last packet of channel c and raises the channel's
\* index above its own; or x is none of its packets, and c stays where it is.
Renews(x, c) ==
  \/ /\ IsSequencedOn(x, c)
     /\ x.sequencedIndex \in Nat
     /\ x.sequencedIndex >= recvSequencedIndex[c]
     /\ recvSequencedIndex'[c] = x.sequencedIndex + 1
  \/ /\ ~IsSequencedOn(x, c)
     /\ recvSequencedIndex'[c] = recvSequencedIndex[c]

LEMMA GrowSequenced ==
  ASSUME TypeOK, SequencedInv, NEW x, AcceptedGrows(x),
         \A c \in Channel : Renews(x, c)
  PROVE  SequencedInv'
<1>1. Len(Accepted) \in Nat
  BY AcceptedType
<1>2. recvSequencedIndex \in [Channel -> Nat]
  BY DEF TypeOK
<1>3. SequencedBelow'
  <2> SUFFICES ASSUME NEW c \in Channel, NEW i \in 1 .. Len(Accepted'),
                      IsSequencedOn(Accepted'[i], c)
               PROVE  Accepted'[i].sequencedIndex < recvSequencedIndex'[c]
    BY DEF SequencedBelow, IsSequencedOn
  <2>1. CASE i = Len(Accepted) + 1
    BY <2>1 DEF Renews, AcceptedGrows
  <2>2. CASE i \in 1 .. Len(Accepted)
    <3>1. /\ IsSequencedOn(Accepted[i], c) /\ Accepted'[i] = Accepted[i]
          /\ Accepted[i].sequencedIndex < recvSequencedIndex[c]
      BY <2>2 DEF AcceptedGrows, SequencedInv, SequencedBelow
    <3>2. Accepted[i].sequencedIndex \in Nat
      BY <2>2, <3>1, AcceptedIndexNat
    <3> QED
      BY <1>2, <3>1, <3>2 DEF Renews
  <2> QED
    BY <1>1, <2>1, <2>2 DEF AcceptedGrows
<1>4. SequencedIncreasing'
  <2> SUFFICES ASSUME NEW c \in Channel, NEW i \in 1 .. Len(Accepted'),
                      NEW j \in 1 .. Len(Accepted'), i < j,
                      IsSequencedOn(Accepted'[i], c), IsSequencedOn(Accepted'[j], c)
               PROVE  Accepted'[i].sequencedIndex < Accepted'[j].sequencedIndex
    BY DEF SequencedIncreasing, IsSequencedOn
  <2>1. i \in 1 .. Len(Accepted) /\ Accepted'[i] = Accepted[i]
    BY <1>1 DEF AcceptedGrows
  <2>2. CASE j = Len(Accepted) + 1
    <3>1. Accepted[i].sequencedIndex < recvSequencedIndex[c]
      BY <2>1 DEF SequencedInv, SequencedBelow
    <3>2. Accepted[i].sequencedIndex \in Nat
      BY <2>1, AcceptedIndexNat
    <3>3. Accepted'[j] = x
      BY <2>2 DEF AcceptedGrows
    <3> QED
      BY <1>2, <2>1, <3>1, <3>2, <3>3 DEF Renews
  <2>3. CASE j \in 1 .. Len(Accepted)
    BY <2>1, <2>3 DEF AcceptedGrows, SequencedInv, SequencedIncreasing
  <2> QED
    BY <1>1, <2>2, <2>3 DEF AcceptedGrows
<1> QED
  BY <1>3, <1>4 DEF SequencedInv

LEMMA StepSequenced ==
  TypeOK /\ OnceInv /\ SequencedInv /\ [Next]_vars => SequencedInv'
<1> SUFFICES ASSUME TypeOK, OnceInv, SequencedInv, [Next]_vars PROVE SequencedInv'
  OBVIOUS
<1>1. ASSUME Accepted' = Accepted, recvSequencedIndex' = recvSequencedIndex
      PROVE  SequencedInv'
  BY <1>1 DEF SequencedInv, SequencedBelow, SequencedIncreasing, IsSequencedOn
<1>2. CASE QuietStep
  BY <1>1, <1>2, QuietStepKeeps DEF indexVars
<1>3. ASSUME NEW p \in Packet, HandlePacket(p) PROVE SequencedInv'
  <2>1. CASE AcceptSequenced(p)
    <3>1. /\ p.orderChannel \in Channel /\ AcceptedGrows(p) /\ p.sequencedIndex \in Nat
          /\ ~(p.sequencedIndex < recvSequencedIndex[p.orderChannel])
          /\ recvSequencedIndex' =
               [recvSequencedIndex EXCEPT ![p.orderChannel] = p.sequencedIndex + 1]
      BY <2>1, AppendGrows, NextPacketType, PacketAssumption
         DEF AcceptSequenced, NewPacket, NextPacket, IsOldSequenced, IsSequencedOrOrdered
    <3>2. \A c \in Channel : Renews(p, c)
      BY <2>1, <3>1, NullPacketAssumption DEF Renews, IsSequencedOn, AcceptSequenced, TypeOK
    <3> QED
      BY <3>1, <3>2, GrowSequenced
  <2>2. CASE AcceptOrdered(p) \/ AcceptPlain(p)
    <3>1. AcceptedGrows(p) /\ ~IsSequenced(p) /\ recvSequencedIndex' = recvSequencedIndex
      BY <2>2, AppendGrows, SequencedNotOrdered
         DEF AcceptOrdered, AcceptPlain, NewPacket, NextPacket, IsSequencedOrOrdered
    <3>2. \A c \in Channel : Renews(p, c)
      BY <3>1 DEF Renews, IsSequencedOn
    <3> QED
      BY <3>1, <3>2, GrowSequenced
  <2>3. CASE ~AcceptOrdered(p) /\ ~AcceptSequenced(p) /\ ~AcceptPlain(p)
    BY <1>1, <1>3, <2>3 DEF HandlePacket, NewPacket, NextPacket, DropDuplicate,
       DropBadChannel, DropOldSequenced, ParkOrdered, DropOldOrdered, Drop, Accepted
  <2> QED
    BY <2>1, <2>2, <2>3
<1>4. CASE Purge
  BY <1>1, <1>4, PurgeIsZero
<1>5. CASE DeliverLate
  <2> DEFINE x == Parked(channel, 0)
  <2>1. AcceptedGrows(x) /\ recvSequencedIndex' = recvSequencedIndex /\ channel \in Channel
    BY <1>5, LateIsZero
  <2>2. x = NullPacket \/ x \in recvOrderedPackets[channel]
    BY <2>1, ParkedType
  <2> HIDE DEF x
  <2>3. \A c \in Channel : Renews(x, c)
    BY <2>1, <2>2, SequencedNotOrdered DEF Renews, IsSequencedOn, TypeOK
  <2> QED
    BY <2>1, <2>3, GrowSequenced
<1> QED
  BY <1>2, <1>3, <1>4, <1>5, StepKinds

\* No channel hands on a sequenced packet older than one it handed on before
\* (handleEncapsulated, lines 62-69).
THEOREM SequencedDelivery == Spec => []SequencedIncreasing
<1>1. Init => TypeOK /\ OnceInv /\ SequencedInv
  BY InitType, InitOnce, InitSequenced
<1>2. TypeOK /\ OnceInv /\ SequencedInv /\ [Next]_vars =>
        (TypeOK /\ OnceInv /\ SequencedInv)'
  BY StepType, StepOnce, StepSequenced
<1>3. SequencedInv => SequencedIncreasing
  BY DEF SequencedInv
<1> QED
  BY <1>1, <1>2, <1>3, PTL DEF Spec

-----------------------------------------------------------------------------
(* No recorded packet lost *)

\* Channel 0 waits for MAX_ORDER_CHANNELS first, and accepts every place from
\* there up to the one it waits for.
ChannelZeroInv ==
  /\ recvOrderedIndex[0] >= MAX_ORDER_CHANNELS
  /\ \A n \in MAX_ORDER_CHANNELS .. recvOrderedIndex[0] - 1 : PlaceAccepted(0, n)

LossInv == ChannelZeroInv /\ RecordedNotLost

LEMMA ZeroIsChannel == 0 \in Channel
BY SizeAssumption DEF Channel

LEMMA InitLoss == Init => LossInv
<1> SUFFICES ASSUME Init PROVE LossInv
  OBVIOUS
<1>1. recvOrderedIndex[0] = MAX_ORDER_CHANNELS
  BY DEF Init, IndexVector
<1>2. recvReliableIndex = {}
  BY DEF Init
<1> QED
  BY <1>1, <1>2, SizeAssumption DEF LossInv, ChannelZeroInv, RecordedNotLost

\* What was accepted stays accepted.
LEMMA PlaceStays ==
  ASSUME TypeOK, Accepted' = Accepted \/ \E x : AcceptedGrows(x)
  PROVE  /\ \A n : PlaceAccepted(0, n) => PlaceAccepted(0, n)'
         /\ \A p : (\E i \in 1 .. Len(Accepted) : Accepted[i] = p) =>
                   (\E i \in 1 .. Len(Accepted') : Accepted'[i] = p)
<1>1. Len(Accepted) \in Nat
  BY AcceptedType
<1> QED
  BY <1>1 DEF PlaceAccepted, AcceptedGrows, IsOrderedOn

\* A step that records nothing keeps the invariant if channel 0 still waits for
\* the same index and still parks what it may wait for.
LEMMA KeepLoss ==
  ASSUME TypeOK, LossInv, Accepted' = Accepted \/ \E x : AcceptedGrows(x),
         recvReliableIndex' = recvReliableIndex,
         recvOrderedIndex'[0] = recvOrderedIndex[0],
         ParkedIndices(0) \ {0} \subseteq ParkedIndices(0)'
  PROVE  LossInv'
<1>1. ChannelZeroInv'
  BY PlaceStays DEF LossInv, ChannelZeroInv
<1>2. RecordedNotLost'
  <2> SUFFICES ASSUME NEW p \in Packet, IsReliable(p),
                      p.messageIndex \in recvReliableIndex
               PROVE  /\ ~IsSequencedOrOrdered(p) =>
                           \E i \in 1 .. Len(Accepted') : Accepted'[i] = p
                      /\ IsOrderedOn(p, 0) /\ p.orderedIndex >= MAX_ORDER_CHANNELS =>
                           \/ p.orderedIndex \in ParkedIndices(0)'
                           \/ PlaceAccepted(0, p.orderedIndex)'
    BY DEF RecordedNotLost, IsReliable, IsSequencedOrOrdered, IsOrderedOn
  <2>1. ~IsSequencedOrOrdered(p) => \E i \in 1 .. Len(Accepted) : Accepted[i] = p
    BY DEF LossInv, RecordedNotLost
  <2>2. IsOrderedOn(p, 0) /\ p.orderedIndex >= MAX_ORDER_CHANNELS =>
          p.orderedIndex \in ParkedIndices(0) \/ PlaceAccepted(0, p.orderedIndex)
    BY DEF LossInv, RecordedNotLost
  <2>3. p.orderedIndex >= MAX_ORDER_CHANNELS => p.orderedIndex # 0
    BY SizeAssumption
  <2> QED
    BY <2>1, <2>2, <2>3, PlaceStays
<1> QED
  BY <1>1, <1>2 DEF LossInv

\* A packet that is recorded in a step does not get lost in it.
Kept(p) ==
  /\ ~IsSequencedOrOrdered(p) => \E i \in 1 .. Len(Accepted') : Accepted'[i] = p
  /\ IsOrderedOn(p, 0) /\ p.orderedIndex >= MAX_ORDER_CHANNELS =>
       p.orderedIndex \in ParkedIndices(0)' \/ PlaceAccepted(0, p.orderedIndex)'

LEMMA RecordLoss ==
  ASSUME TypeOK, LossInv, NEW p \in Packet, recvReliableIndex' = Record(p), Kept(p),
         Accepted' = Accepted \/ \E x : AcceptedGrows(x), ChannelZeroInv',
         ParkedIndices(0) \subseteq ParkedIndices(0)'
  PROVE  LossInv'
<1> SUFFICES ASSUME NEW q \in Packet, IsReliable(q), q.messageIndex \in recvReliableIndex'
             PROVE  Kept(q)
  BY DEF LossInv, RecordedNotLost, Kept, IsReliable, IsSequencedOrOrdered, IsOrderedOn
<1>1. CASE q.messageIndex \in recvReliableIndex
  <2>1. ~IsSequencedOrOrdered(q) => \E i \in 1 .. Len(Accepted) : Accepted[i] = q
    BY <1>1 DEF LossInv, RecordedNotLost
  <2>2. IsOrderedOn(q, 0) /\ q.orderedIndex >= MAX_ORDER_CHANNELS =>
          q.orderedIndex \in ParkedIndices(0) \/ PlaceAccepted(0, q.orderedIndex)
    BY <1>1 DEF LossInv, RecordedNotLost
  <2> QED
    BY <2>1, <2>2, PlaceStays DEF Kept
<1>2. CASE q.messageIndex \notin recvReliableIndex
  <2>1. IsReliable(p) /\ q.messageIndex = p.messageIndex
    BY <1>2 DEF Record
  <2>2. q = p
    BY <2>1, PacketAssumption
  <2> QED
    BY <2>2
<1> QED
  BY <1>1, <1>2

LEMMA HandleLoss ==
  ASSUME TypeOK, LossInv, NEW p \in Packet, HandlePacket(p)
  PROVE  LossInv'
<1>1. 0 \in Channel /\ recvOrderedIndex \in [Channel -> Nat] /\ Len(Accepted) \in Nat
  BY ZeroIsChannel, AcceptedType DEF TypeOK
<1>2. CASE DropDuplicate(p)
  BY <1>2, KeepLoss DEF DropDuplicate, NextPacket, Drop, Accepted, ParkedIndices
<1>3. ASSUME ~IsDuplicate(p), recvReliableIndex' = Record(p), Kept(p),
             UNCHANGED <<recvOrderedPackets>>, recvOrderedIndex'[0] = recvOrderedIndex[0],
             Accepted' = Accepted \/ AcceptedGrows(p)
      PROVE  LossInv'
  <2>1. ChannelZeroInv'
    BY <1>3, PlaceStays DEF LossInv, ChannelZeroInv
  <2> QED
    BY <1>3, <2>1, RecordLoss DEF ParkedIndices
<1>4. CASE DropBadChannel(p)
  <2>1. Kept(p)
    BY <1>4, SizeAssumption DEF DropBadChannel, HasBadChannel, Kept, IsOrderedOn
  <2> QED
    BY <1>3, <1>4, <2>1 DEF DropBadChannel, NewPacket, NextPacket, Drop, Accepted
<1>5. CASE DropOldSequenced(p)
  <2>1. Kept(p)
    BY <1>5, SequencedNotOrdered
       DEF DropOldSequenced, IsSequencedOrOrdered, Kept, IsOrderedOn
  <2> QED
    BY <1>3, <1>5, <2>1 DEF DropOldSequenced, NewPacket, NextPacket, Drop, Accepted
<1>6. CASE AcceptSequenced(p)
  <2>1. Kept(p)
    BY <1>6, SequencedNotOrdered
       DEF AcceptSequenced, IsSequencedOrOrdered, Kept, IsOrderedOn
  <2> QED
    BY <1>3, <1>6, <2>1, AppendGrows DEF AcceptSequenced, NewPacket, NextPacket
<1>7. CASE AcceptPlain(p)
  <2>1. AcceptedGrows(p)
    BY <1>7, AppendGrows DEF AcceptPlain, NewPacket, NextPacket
  <2>2. Kept(p)
    BY <1>1, <1>7, <2>1
       DEF AcceptPlain, IsSequencedOrOrdered, Kept, IsOrderedOn, AcceptedGrows
  <2> QED
    BY <1>3, <1>7, <2>1, <2>2 DEF AcceptPlain, NewPacket
<1>8. CASE DropOldOrdered(p)
  <2>1. IsOrderedOn(p, 0) /\ p.orderedIndex >= MAX_ORDER_CHANNELS =>
          PlaceAccepted(0, p.orderedIndex)
    <3> SUFFICES ASSUME IsOrderedOn(p, 0), p.orderedIndex >= MAX_ORDER_CHANNELS
                 PROVE  PlaceAccepted(0, p.orderedIndex)
      OBVIOUS
    <3>1. p.orderedIndex \in Nat /\ p.orderedIndex < recvOrderedIndex[0]
      BY <1>1, <1>8, PacketAssumption
         DEF DropOldOrdered, IsNextOrdered, IsEarlyOrdered, IsOrderedOn
    <3>2. p.orderedIndex \in MAX_ORDER_CHANNELS .. recvOrderedIndex[0] - 1
      BY <1>1, <3>1, SizeAssumption
    <3> QED
      BY <3>2 DEF LossInv, ChannelZeroInv
  <2>2. Accepted' = Accepted
    BY <1>8 DEF DropOldOrdered, NewPacket, NextPacket, Drop, Accepted
  <2>3. Kept(p)
    BY <1>8, <2>1, <2>2, PlaceStays DEF DropOldOrdered, IsSequencedOrOrdered, Kept
  <2> QED
    BY <1>3, <1>8, <2>2, <2>3 DEF DropOldOrdered, NewPacket, NextPacket, Drop
<1>9. CASE ParkOrdered(p)
  <2>1. /\ Accepted' = Accepted
        /\ recvReliableIndex' = Record(p)
        /\ recvOrderedIndex' = recvOrderedIndex
        /\ recvOrderedPackets' =
             [recvOrderedPackets EXCEPT ![p.orderChannel] = Park(p)]
        /\ IsSequencedOrOrdered(p) /\ p.orderChannel \in Channel
    BY <1>9, NextPacketType
       DEF ParkOrdered, NewPacket, NextPacket, Accepted, IsSequencedOrOrdered
  <2>2. ParkedIndices(0) \subseteq ParkedIndices(0)'
    BY <1>1, <2>1 DEF ParkedIndices, Park, TypeOK
  <2>3. p.orderChannel = 0 => p.orderedIndex \in ParkedIndices(0)'
    BY <1>1, <2>1 DEF ParkedIndices, Park, TypeOK
  <2>4. Kept(p)
    BY <2>1, <2>3 DEF Kept, IsOrderedOn
  <2>5. ChannelZeroInv'
    BY <2>1, PlaceStays DEF LossInv, ChannelZeroInv
  <2> QED
    BY <2>1, <2>2, <2>4, <2>5, RecordLoss
<1>10. CASE AcceptOrdered(p)
  <2>1. /\ AcceptedGrows(p)
        /\ recvReliableIndex' = Record(p)
        /\ recvOrderedIndex' =
             [recvOrderedIndex EXCEPT ![p.orderChannel] = p.orderedIndex + 1]
        /\ recvOrderedPackets' = recvOrderedPackets
        /\ IsOrdered(p) /\ p.orderChannel \in Channel
        /\ p.orderedIndex = recvOrderedIndex[p.orderChannel]
    BY <1>10, NextPacketType, AppendGrows
       DEF AcceptOrdered, NewPacket, NextPacket, IsNextOrdered, IsSequencedOrOrdered
  <2>2. p.orderChannel = 0 => PlaceAccepted(0, p.orderedIndex)'
    BY <1>1, <2>1, NullPacketAssumption DEF PlaceAccepted, AcceptedGrows, IsOrderedOn
  <2>3. Kept(p)
    BY <2>1, <2>2 DEF Kept, IsSequencedOrOrdered, IsOrderedOn
  <2>4. ChannelZeroInv'
    <3>1. CASE p.orderChannel = 0
      <4>1. recvOrderedIndex'[0] = recvOrderedIndex[0] + 1
        BY <1>1, <2>1, <3>1
      <4>2. \A n \in MAX_ORDER_CHANNELS .. recvOrderedIndex[0] - 1 : PlaceAccepted(0, n)'
        BY <2>1, PlaceStays DEF LossInv, ChannelZeroInv
      <4>3. \A n : n = recvOrderedIndex[0] => PlaceAccepted(0, n)'
        BY <2>1, <2>2, <3>1
      <4>4. \A n \in MAX_ORDER_CHANNELS .. recvOrderedIndex'[0] - 1 :
              \/ n \in MAX_ORDER_CHANNELS .. recvOrderedIndex[0] - 1
              \/ n = recvOrderedIndex[0]
        BY <1>1, <4>1, SizeAssumption
      <4>5. recvOrderedIndex'[0] >= MAX_ORDER_CHANNELS
        BY <1>1, <4>1, SizeAssumption DEF LossInv, ChannelZeroInv
      <4> QED
        BY <4>2, <4>3, <4>4, <4>5 DEF ChannelZeroInv
    <3>2. CASE p.orderChannel # 0
      <4>1. recvOrderedIndex'[0] = recvOrderedIndex[0]
        BY <1>1, <2>1, <3>2
      <4> QED
        BY <2>1, <4>1, PlaceStays DEF LossInv, ChannelZeroInv
    <3> QED
      BY <3>1, <3>2
  <2> QED
    BY <2>1, <2>3, <2>4, RecordLoss DEF ParkedIndices
<1> QED
  BY <1>2, <1>4, <1>5, <1>6, <1>7, <1>8, <1>9, <1>10 DEF HandlePacket

\* Taking place 0 off the map of a channel leaves the other places of channel 0.
LEMMA UnparkZero ==
  ASSUME TypeOK, NEW c \in Channel,
         recvOrderedPackets' = [recvOrderedPackets EXCEPT ![c] = Unpark(c, 0)]
  PROVE  ParkedIndices(0) \ {0} \subseteq ParkedIndices(0)'
BY ZeroIsChannel DEF ParkedIndices, Unpark, TypeOK

LEMMA StepLoss == TypeOK /\ LossInv /\ [Next]_vars => LossInv'
<1> SUFFICES ASSUME TypeOK, LossInv, [Next]_vars PROVE LossInv'
  OBVIOUS
<1>1. CASE QuietStep
  BY <1>1, QuietStepKeeps, KeepLoss DEF indexVars, ParkedIndices
<1>2. ASSUME NEW p \in Packet, HandlePacket(p) PROVE LossInv'
  BY <1>2, HandleLoss
<1>3. CASE Purge
  BY <1>3, PurgeIsZero, UnparkZero, KeepLoss
<1>4. CASE DeliverLate
  <2>1. /\ channel \in Channel
        /\ recvOrderedIndex[channel] = 0
        /\ recvOrderedIndex' = [recvOrderedIndex EXCEPT ![channel] = 1]
        /\ recvOrderedPackets' =
             [recvOrderedPackets EXCEPT ![channel] = Unpark(channel, 0)]
        /\ AcceptedGrows(Parked(channel, 0))
        /\ recvReliableIndex' = recvReliableIndex
    BY <1>4, LateIsZero
  <2>2. recvOrderedIndex'[0] = recvOrderedIndex[0]
    <3>1. recvOrderedIndex[0] # 0
      BY SizeAssumption DEF LossInv, ChannelZeroInv
    <3> QED
      BY <2>1, <3>1, ZeroIsChannel DEF TypeOK
  <2> QED
    BY <2>1, <2>2, UnparkZero, KeepLoss
<1> QED
  BY <1>1, <1>2, <1>3, <1>4, StepKinds

\* A reliable packet whose index is recorded, so that no retransmission of it
\* will be taken, is not lost (handleEncapsulated, lines 36-85; receivePacket,
\* lines 118-134): on channel 0 for ordered packets, from the first index on.
THEOREM NoRecordedLoss == Spec => []RecordedNotLost
<1>1. Init => TypeOK /\ LossInv
  BY InitType, InitLoss
<1>2. TypeOK /\ LossInv /\ [Next]_vars => (TypeOK /\ LossInv)'
  BY StepType, StepLoss
<1>3. LossInv => RecordedNotLost
  BY DEF LossInv
<1> QED
  BY <1>1, <1>2, <1>3, PTL DEF Spec
=============================================================================
