------------------------ MODULE ReliabilitySendProofs ------------------------
(***************************************************************************)
(* Proofs about ReliabilitySend: the types, which way a packet goes, the   *)
(* parts of a split packet, the recovery queue, and what is given up, for  *)
(* every set of calls, every MTU and any ACKs and NACKs of the peer.       *)
(***************************************************************************)
EXTENDS ReliabilitySend, FiniteSetTheorems, WellFoundedInduction, TLAPS

-----------------------------------------------------------------------------
(* How many packets a datagram takes *)

\* A set of naturals has a least element, and with a bound a greatest one.
LEMMA LeastNatural ==
  ASSUME NEW T \in SUBSET Nat, T # {}
  PROVE  \E m \in T : \A y \in T : m <= y
<1>1. PICK m \in T : \A y \in T : ~(<<y, m>> \in OpToRel(<, Nat))
  <2>1. T \subseteq Nat /\ T # {}
    OBVIOUS
  <2> QED
    BY <2>1, NatLessThanWellFounded, WFMin
<1>2. \A y \in T : ~(y < m)
  BY <1>1 DEF OpToRel
<1>3. \A y \in T : m <= y
  BY <1>2
<1> QED
  BY <1>3

LEMMA MaxOfBounded ==
  ASSUME NEW n \in Nat, NEW S \in SUBSET (0 .. n), S # {}
  PROVE  Max(S) \in S /\ \A y \in S : Max(S) >= y
<1> DEFINE T == {m \in Nat : \A x \in S : x <= m}
<1>1. n \in T
  OBVIOUS
<1>2. PICK m \in T : \A y \in T : m <= y
  <2>1. T \subseteq Nat /\ T # {}
    BY <1>1
  <2> HIDE DEF T
  <2> QED
    BY <2>1, LeastNatural
<1>3. \A y \in T : ~(y < m)
  BY <1>2
<1>4. m \in S
  <2> SUFFICES ASSUME m \notin S PROVE FALSE
    OBVIOUS
  <2>1. m # 0
    <3>1. PICK x \in S : TRUE
      OBVIOUS
    <3>2. x <= m /\ x \in Nat /\ x # m
      OBVIOUS
    <3> QED
      BY <3>2
  <2>2. m - 1 \in T
    BY <2>1
  <2> QED
    BY <1>3, <2>2
<1>5. \E x \in S : \A y \in S : x >= y
  BY <1>4
<1> QED
  BY <1>5 DEF Max

LEMMA TakenType ==
  ASSUME NEW q, q \in Seq(PacketType)
  PROVE  Taken(q) \in 0 .. Len(q)
<1> DEFINE S == {0} \cup {k \in 1 .. Len(q) : \A j \in 1 .. k : Fits(SubSeq(q, 1, j))}
<1>1. Len(q) \in Nat /\ S \in SUBSET (0 .. Len(q)) /\ S # {}
  OBVIOUS
<1>2. Max(S) \in S
  <2> HIDE DEF S
  <2> QED
    BY <1>1, MaxOfBounded
<1> QED
  BY <1>1, <1>2 DEF Taken

-----------------------------------------------------------------------------
(* Types *)

LEMMA RangeType ==
  ASSUME NEW S, NEW s \in Seq(S)
  PROVE  Range(s) \subseteq S
<1>1. \A k \in DOMAIN s : s[k] \in S
  OBVIOUS
<1> QED
  BY <1>1 DEF Range

LEMMA NewPacketType ==
  ASSUME TypeOK, NEW c \in Call, ~IsBadChannel(c)
  PROVE  NewPacket(c) \in PacketType
<1>1. c \in CallType /\ c.orderChannel \in Channel
  BY SendAssumption DEF IsBadChannel, CallType, Channel
<1>2. /\ sendSequencedIndex[c.orderChannel] \in Int
      /\ sendOrderedIndex[c.orderChannel] \in Int
  BY <1>1 DEF TypeOK
<1>3. calls \in Nat /\ NoSplit \in [compoundSize : Nat, compoundID : Nat, compoundIndex : Nat]
  BY DEF TypeOK, NoSplit
<1>4. NoIndex \in Int
  BY DEF NoIndex
<1> QED
  BY <1>1, <1>2, <1>3, <1>4 DEF NewPacket, PacketType, CallType

LEMMA MaxSizeType == MaxSize \in Nat /\ MaxSize > 0
BY SendAssumption DEF MaxSize

LEMMA PartCountType ==
  ASSUME NEW n \in Nat
  PROVE  n \div MaxSize + (IF n % MaxSize > 0 THEN 1 ELSE 0) \in Nat
<1>1. n \div MaxSize \in Nat
  BY MaxSizeType
<1> QED
  BY <1>1

LEMMA PartType ==
  ASSUME TypeOK, pc = "split"
  PROVE  Part \in PacketType
<1>1. packet \in PacketType /\ i \in Nat /\ partIndex \in Nat /\ splitID \in Nat
      /\ sendReliableIndex \in Nat
  BY SendAssumption DEF TypeOK
<1>2. PartLength \in Nat
  BY <1>1, MaxSizeType DEF PartLength
<1>3. packet.length \in Nat
  BY <1>1 DEF PacketType
<1>4. PartCount \in Nat
  BY <1>3, PartCountType DEF PartCount
<1>5. (IF IsReliable(packet) THEN sendReliableIndex ELSE NoIndex) \in Int
  BY <1>1 DEF NoIndex
<1>6. [compoundSize |-> PartCount, compoundID |-> splitID, compoundIndex |-> partIndex]
        \in [compoundSize : Nat, compoundID : Nat, compoundIndex : Nat]
  BY <1>1, <1>4
<1> HIDE DEF PartCount, PartLength
<1> QED
  BY <1>1, <1>2, <1>5, <1>6 DEF Part, PacketType

\* The types of what sendDatagram changes, and of the rest.
DatagramTypeOK ==
  /\ sendSequenceNumber \in Nat
  /\ \A n \in DOMAIN recoveryQueue :
       /\ n \in Nat
       /\ recoveryQueue[n] \in (Seq(PacketType) \ {<<>>}) \cup {NullDatagram}
  /\ lost \subseteq PacketType
  /\ \A d \in wire : d.number \in Nat /\ d.packets \in Seq(PacketType) \ {<<>>}

RestTypeOK ==
  /\ sendReliableIndex \in Nat /\ splitID \in Nat
  /\ sendSequencedIndex \in [Channel -> Nat]
  /\ sendOrderedIndex \in [Channel -> Nat]
  /\ normalQueue \in Seq(PacketType) /\ updateQueue \in Seq(PacketType)
  /\ pc \in {"idle", "split"} /\ i \in 0 .. Word - 1 /\ partIndex \in Nat
  /\ pc = "split" => packet \in PacketType
  /\ calls \in Nat /\ acked \cup early \subseteq Nat
  /\ \A d \in resent : d.number \in Nat /\ d.packets \in Seq(PacketType) \ {<<>>}

LEMMA TypesTogether == DatagramTypeOK' /\ RestTypeOK' => TypeOK'
<1> SUFFICES ASSUME DatagramTypeOK', RestTypeOK' PROVE TypeOK'
  OBVIOUS
<1>1. \A d \in wire' \cup resent' :
        d.number \in Nat /\ d.packets \in Seq(PacketType) \ {<<>>}
  BY DEF DatagramTypeOK, RestTypeOK
<1> QED
  BY <1>1 DEF TypeOK, DatagramTypeOK, RestTypeOK

LEMMA SendDatagramType ==
  ASSUME TypeOK, NEW q, q \in Seq(PacketType), SendDatagram(q)
  PROVE  DatagramTypeOK'
<1> DEFINE sent == SubSeq(q, 1, Taken(q))
<1>1. Taken(q) \in 0 .. Len(q) /\ Len(q) \in Nat
  BY TakenType
<1>2. sent \in Seq(PacketType) /\ SubSeq(q, Taken(q) + 1, Len(q)) \in Seq(PacketType)
  BY <1>1
<1>3. lost' \subseteq PacketType
  <2>1. Range(SubSeq(q, Taken(q) + 1, Len(q))) \subseteq PacketType
    BY <1>2, RangeType
  <2> QED
    BY <2>1 DEF SendDatagram, TypeOK
<1>4. sendSequenceNumber' \in Nat
  BY DEF SendDatagram, TypeOK, NextNumber
<1>5. CASE q = <<>> \/ IsEmpty(sent)
  BY <1>3, <1>4, <1>5 DEF SendDatagram, TypeOK, DatagramTypeOK
<1>6. CASE ~(q = <<>> \/ IsEmpty(sent))
  <2>1. /\ wire' = wire \cup {[number |-> sendSequenceNumber, packets |-> sent]}
        /\ recoveryQueue' = Insert(sendSequenceNumber, sent)
        /\ sent # <<>>
    BY <1>6 DEF SendDatagram, IsEmpty
  <2> HIDE DEF sent
  <2>2. \A d \in wire' : d.number \in Nat /\ d.packets \in Seq(PacketType) \ {<<>>}
    BY <1>2, <2>1 DEF TypeOK
  <2>3. \A n \in DOMAIN recoveryQueue' :
          /\ n \in Nat
          /\ recoveryQueue'[n] \in (Seq(PacketType) \ {<<>>}) \cup {NullDatagram}
    BY <1>2, <2>1 DEF TypeOK, Insert
  <2> QED
    BY <1>3, <1>4, <2>2, <2>3 DEF DatagramTypeOK
<1> QED
  BY <1>5, <1>6

LEMMA CallTypes ==
  ASSUME TypeOK, NEW c \in Call, TakeCall(c)
  PROVE  /\ NewPacket(c) \in PacketType
         /\ sendReliableIndex' \in Nat /\ calls' \in Nat
         /\ sendSequencedIndex' \in [Channel -> Nat]
         /\ sendOrderedIndex' \in [Channel -> Nat]
         /\ UNCHANGED peerVars
<1>1. c.orderChannel \in Channel
  BY SendAssumption DEF TakeCall, IsBadChannel, CallType, Channel
<1>2. NewPacket(c) \in PacketType
  BY NewPacketType DEF TakeCall
<1>3. /\ sendSequencedIndex' \in [Channel -> Nat]
      /\ sendOrderedIndex' \in [Channel -> Nat]
  <2>1. /\ sendSequencedIndex \in [Channel -> Nat]
        /\ sendOrderedIndex \in [Channel -> Nat]
    BY DEF TypeOK
  <2>2. UseIndices(c)
    BY DEF TakeCall
  <2>3. sendSequencedIndex' \in [Channel -> Nat]
    BY <1>1, <2>1, <2>2 DEF UseIndices
  <2>4. sendOrderedIndex' \in [Channel -> Nat]
    BY <1>1, <2>1, <2>2 DEF UseIndices
  <2> QED
    BY <2>3, <2>4
<1> QED
  BY <1>2, <1>3 DEF TakeCall, UseIndices, BeginCall, TypeOK

\* Of the steps that can disturb a type, the ones that begin with a call.
LEMMA SendEncapsulatedType ==
  ASSUME TypeOK, NEW c \in Call, SendEncapsulated(c)
  PROVE  TypeOK'
<1> USE DEF indexVars, datagramVars, queueVars, loopVars, peerVars
<1>1. CASE RefuseCall(c)
  BY <1>1 DEF RefuseCall, BeginCall, TypeOK
<1>2. ASSUME TakeCall(c)
      PROVE  /\ NewPacket(c) \in PacketType
             /\ <<NewPacket(c)>> \in Seq(PacketType)
             /\ sendReliableIndex' \in Nat /\ calls' \in Nat
             /\ sendSequencedIndex' \in [Channel -> Nat]
             /\ sendOrderedIndex' \in [Channel -> Nat]
             /\ resent' = resent /\ acked' = acked /\ early' = early
  BY <1>2, CallTypes
<1>3. CASE SendImmediate(c)
  <2>1. /\ TakeCall(c) /\ SendDatagram(<<NewPacket(c)>>)
        /\ UNCHANGED <<splitID, queueVars, loopVars>>
    BY <1>3 DEF SendImmediate, SendWhole
  <2>2. DatagramTypeOK'
    BY <1>2, <2>1, SendDatagramType
  <2>3. RestTypeOK'
    BY <1>2, <2>1 DEF TypeOK, RestTypeOK
  <2> QED
    BY <2>2, <2>3, TypesTogether
<1>4. CASE QueueForUpdate(c)
  <2>1. /\ TakeCall(c) /\ updateQueue' = Append(updateQueue, NewPacket(c))
        /\ UNCHANGED <<splitID, normalQueue, datagramVars, loopVars>>
    BY <1>4 DEF QueueForUpdate, SendWhole
  <2>2. updateQueue' \in Seq(PacketType)
    BY <1>2, <2>1 DEF TypeOK
  <2> QED
    BY <1>2, <2>1, <2>2 DEF TypeOK
<1>5. CASE QueueUntilFull(c)
  <2>1. TakeCall(c) /\ UNCHANGED <<splitID, updateQueue, loopVars>>
    BY <1>5 DEF QueueUntilFull, SendWhole
  <2>2. CASE IsFull(c)
    <3>1. SendDatagram(normalQueue) /\ normalQueue' = <<NewPacket(c)>>
      BY <1>5, <2>2 DEF QueueUntilFull
    <3>2. normalQueue \in Seq(PacketType)
      BY DEF TypeOK
    <3>3. DatagramTypeOK'
      BY <3>1, <3>2, SendDatagramType
    <3>4. RestTypeOK'
      <4>1. normalQueue' \in Seq(PacketType)
        BY <1>2, <2>1, <3>1
      <4> QED
        BY <1>2, <2>1, <4>1 DEF TypeOK, RestTypeOK
    <3> QED
      BY <3>3, <3>4, TypesTogether
  <2>3. CASE ~IsFull(c)
    <3>1. UNCHANGED datagramVars /\ normalQueue' = Append(normalQueue, NewPacket(c))
      BY <1>5, <2>3 DEF QueueUntilFull
    <3>2. normalQueue' \in Seq(PacketType)
      BY <1>2, <2>1, <3>1 DEF TypeOK
    <3> QED
      BY <1>2, <2>1, <3>1, <3>2 DEF TypeOK
  <2> QED
    BY <2>2, <2>3
<1>6. CASE BeginSplit(c)
  <2>1. /\ TakeCall(c) /\ UNCHANGED <<datagramVars, queueVars>>
        /\ splitID' = (splitID + 1) % SplitWord /\ packet' = NewPacket(c)
        /\ pc' = "split" /\ i' = c.length /\ partIndex' = 0
    BY <1>6 DEF BeginSplit
  <2>2. c.length \in 0 .. Word - 1
    BY SendAssumption DEF CallType
  <2>3. splitID' \in Nat
    BY <2>1, SendAssumption DEF TypeOK
  <2> QED
    BY <1>2, <2>1, <2>2, <2>3 DEF TypeOK
<1> QED
  BY <1>1, <1>3, <1>4, <1>5, <1>6 DEF SendEncapsulated

LEMMA InitType == Init => TypeOK
<1> SUFFICES ASSUME Init PROVE TypeOK
  OBVIOUS
<1>1. /\ sendSequencedIndex \in [Channel -> Nat]
      /\ sendOrderedIndex \in [Channel -> Nat]
  BY SendAssumption DEF Init, IndexVector
<1>2. 0 \in 0 .. Word - 1
  BY SendAssumption
<1> QED
  BY <1>1, <1>2 DEF Init, TypeOK

LEMMA NextType == TypeOK /\ [Next]_vars => TypeOK'
<1> SUFFICES ASSUME TypeOK, [Next]_vars PROVE TypeOK'
  OBVIOUS
<1> USE DEF indexVars, datagramVars, queueVars, loopVars, peerVars
<1>1. ASSUME NEW c \in Call, SendEncapsulated(c)
      PROVE  TypeOK'
  BY <1>1, SendEncapsulatedType
<1>2. CASE SendPart
  <2>1. /\ SendDatagram(<<Part>>) /\ partIndex' = partIndex + 1
        /\ i' = (i - MaxSize) % Word
        /\ sendReliableIndex' = IF IsReliable(packet) THEN NextReliableIndex
                                                      ELSE sendReliableIndex
        /\ UNCHANGED <<splitID, sendSequencedIndex, sendOrderedIndex, queueVars,
                       pc, packet, peerVars, calls>>
    BY <1>2 DEF SendPart
  <2>2. <<Part>> \in Seq(PacketType)
    <3>1. Part \in PacketType
      BY <1>2, PartType DEF SendPart
    <3> HIDE DEF Part
    <3> QED
      BY <3>1
  <2>3. i' \in 0 .. Word - 1
    <3>1. i - MaxSize \in Int /\ Word \in Nat /\ Word > 0
      BY MaxSizeType, SendAssumption DEF TypeOK
    <3> QED
      BY <2>1, <3>1
  <2>4. sendReliableIndex' \in Nat /\ partIndex' \in Nat
    BY <2>1 DEF TypeOK, NextReliableIndex
  <2> HIDE DEF Part
  <2>5. DatagramTypeOK'
    BY <2>1, <2>2, SendDatagramType
  <2>6. RestTypeOK'
    BY <2>1, <2>3, <2>4 DEF TypeOK, RestTypeOK
  <2> QED
    BY <2>5, <2>6, TypesTogether
<1>3. CASE SplitThrows
  BY <1>3 DEF SplitThrows, TypeOK
<1>4. CASE EndSplit
  BY <1>4 DEF EndSplit, TypeOK
<1>5. CASE Update
  <2>1. /\ SendDatagram(updateQueue) /\ updateQueue' = <<>>
        /\ UNCHANGED <<indexVars, normalQueue, loopVars, peerVars, calls>>
    BY <1>5 DEF Update, UpdatedQueue
  <2>2. updateQueue \in Seq(PacketType)
    BY DEF TypeOK
  <2>3. DatagramTypeOK'
    BY <2>1, <2>2, SendDatagramType
  <2>4. RestTypeOK'
    BY <2>1 DEF TypeOK, RestTypeOK
  <2> QED
    BY <2>3, <2>4, TypesTogether
<1>6. ASSUME NEW S \in Naming, Names(S)
      PROVE  /\ S \subseteq Nat /\ early' \subseteq Nat
             /\ UNCHANGED <<indexVars, sendSequenceNumber, wire, lost, queueVars, loopVars,
                            calls>>
  <2>1. S \subseteq Nat
    BY SendAssumption DEF Naming
  <2> QED
    BY <1>6, <2>1 DEF Names, TypeOK
<1>7. ASSUME NEW S \in Naming, HandleACK(S)
      PROVE  TypeOK'
  <2>1. Names(S) /\ acked' = acked \cup S /\ resent' = resent
    BY <1>7 DEF HandleACK
  <2>2. \A n \in DOMAIN recoveryQueue' :
          /\ n \in Nat
          /\ recoveryQueue'[n] \in (Seq(PacketType) \ {<<>>}) \cup {NullDatagram}
    BY <1>6, <1>7, <2>1 DEF HandleACK, LookedUp, TypeOK
  <2> QED
    BY <1>6, <2>1, <2>2 DEF TypeOK
<1>8. ASSUME NEW S \in Naming, HandleNACK(S)
      PROVE  TypeOK'
  <2>1. /\ Names(S) /\ acked' = acked /\ recoveryQueue' = LookedUp(S)
        /\ resent' = resent \cup
             {[number |-> n, packets |-> recoveryQueue[n]] : n \in Recoverable(S)}
    BY <1>8 DEF HandleNACK
  <2>2. \A n \in DOMAIN recoveryQueue' :
          /\ n \in Nat
          /\ recoveryQueue'[n] \in (Seq(PacketType) \ {<<>>}) \cup {NullDatagram}
    BY <1>6, <2>1 DEF LookedUp, TypeOK
  <2>3. \A d \in wire' \cup resent' :
          d.number \in Nat /\ d.packets \in Seq(PacketType) \ {<<>>}
    <3>1. \A n \in Recoverable(S) :
            n \in Nat /\ recoveryQueue[n] \in Seq(PacketType) \ {<<>>}
      BY DEF Recoverable, TypeOK
    <3> QED
      BY <1>6, <2>1, <3>1 DEF TypeOK
  <2> QED
    BY <1>6, <2>1, <2>2, <2>3 DEF TypeOK
<1>9. CASE UNCHANGED vars
  BY <1>9 DEF vars, TypeOK
<1> QED
  BY <1>1, <1>2, <1>3, <1>4, <1>5, <1>7, <1>8, <1>9 DEF Next

-----------------------------------------------------------------------------
(* The recovery queue *)

Datagram(n, packets) == [number |-> n, packets |-> packets]

\* What the recovery queue, the wire and the numbers that the peer named have to do
\* with each other.  The numbers below sendSequenceNumber are used up, by a datagram
\* or by one that turned out empty.  An entry of a number that is not used up is
\* null and stands there because the peer has named the number, and insert will not
\* replace it.
RecoveryInv ==
  /\ \A d \in wire : d = Datagram(d.number, d.packets) /\ d.number < sendSequenceNumber
  /\ \A d, e \in wire : d.number = e.number => d = e
  /\ resent \subseteq wire
  /\ \A n \in DOMAIN recoveryQueue :
       recoveryQueue[n] # NullDatagram =>
         Datagram(n, recoveryQueue[n]) \in wire /\ n \notin acked \cup early
  /\ \A d \in wire :
       d.number \notin acked \cup early =>
         d.number \in DOMAIN recoveryQueue /\ recoveryQueue[d.number] = d.packets
  /\ \A n \in Nat :
       n >= sendSequenceNumber => (n \in DOMAIN recoveryQueue <=> n \in acked \cup early)

\* A step that leaves the queue, the wire and the peer's messages alone.
LEMMA RecoveryUnchanged ==
  ASSUME RecoveryInv, UNCHANGED <<datagramVars, peerVars>>
  PROVE  RecoveryInv'
BY DEF datagramVars, peerVars, RecoveryInv

\* sendDatagram uses the next number, which is in the queue only if the peer has
\* named it.
LEMMA SendDatagramRecovery ==
  ASSUME TypeOK, RecoveryInv, NEW q, SendDatagram(q), UNCHANGED peerVars
  PROVE  RecoveryInv'
<1> DEFINE sent == SubSeq(q, 1, Taken(q))
           new == Datagram(sendSequenceNumber, sent)
<1>1. /\ sendSequenceNumber \in Nat
      /\ \A n \in DOMAIN recoveryQueue : n \in Nat
      /\ \A d \in wire : d.number \in Nat
      /\ \A d \in wire : d.packets \in Seq(PacketType)
  BY DEF TypeOK
<1>2. resent' = resent /\ acked' = acked /\ early' = early
  BY DEF peerVars
<1>3. CASE q = <<>> \/ IsEmpty(sent)
  <2>1. wire' = wire /\ recoveryQueue' = recoveryQueue
    BY <1>3 DEF SendDatagram
  <2>2. sendSequenceNumber' = sendSequenceNumber \/ sendSequenceNumber' = sendSequenceNumber + 1
    BY DEF SendDatagram, NextNumber
  <2>3. /\ \A n \in Nat : n < sendSequenceNumber => n < sendSequenceNumber'
        /\ \A n \in Nat : n >= sendSequenceNumber' => n >= sendSequenceNumber
    BY <1>1, <2>2
  <2>4. \A d \in wire' : d.number < sendSequenceNumber'
    BY <1>1, <2>1, <2>3 DEF RecoveryInv
  <2> QED
    BY <1>2, <2>1, <2>3, <2>4 DEF RecoveryInv
<1>4. CASE ~(q = <<>> \/ IsEmpty(sent))
  <2>1. /\ wire' = wire \cup {new}
        /\ recoveryQueue' = Insert(sendSequenceNumber, sent)
        /\ sendSequenceNumber' = sendSequenceNumber + 1
    BY <1>4 DEF SendDatagram, NextNumber, Datagram
  <2> HIDE DEF sent
  <2>2. new = Datagram(new.number, new.packets) /\ new.number = sendSequenceNumber
        /\ new.packets = sent
    BY DEF Datagram
  <2>3. \A d \in wire : d.number # sendSequenceNumber
    BY <1>1 DEF RecoveryInv
  <2>4. sendSequenceNumber \in DOMAIN recoveryQueue <=> sendSequenceNumber \in acked \cup early
    BY <1>1 DEF RecoveryInv
  <2>5. sendSequenceNumber \in DOMAIN recoveryQueue =>
          recoveryQueue[sendSequenceNumber] = NullDatagram
    <3>1. Datagram(sendSequenceNumber, recoveryQueue[sendSequenceNumber]) \notin wire
      BY <2>3 DEF Datagram
    <3> QED
      BY <3>1 DEF RecoveryInv
  <2>6. /\ DOMAIN recoveryQueue' = DOMAIN recoveryQueue \cup {sendSequenceNumber}
        /\ \A n \in DOMAIN recoveryQueue : recoveryQueue'[n] = recoveryQueue[n]
        /\ sendSequenceNumber \notin DOMAIN recoveryQueue =>
             recoveryQueue'[sendSequenceNumber] = sent
    BY <2>1 DEF Insert
  <2> HIDE DEF new
  <2>7. \A d \in wire' : /\ d = Datagram(d.number, d.packets)
                         /\ d.number < sendSequenceNumber'
    BY <1>1, <2>1, <2>2 DEF RecoveryInv
  <2>8. \A d, e \in wire' : d.number = e.number => d = e
    BY <2>1, <2>2, <2>3 DEF RecoveryInv
  <2>9. resent' \subseteq wire'
    BY <1>2, <2>1 DEF RecoveryInv
  <2>10. \A n \in DOMAIN recoveryQueue' :
           recoveryQueue'[n] # NullDatagram =>
             Datagram(n, recoveryQueue'[n]) \in wire' /\ n \notin acked' \cup early'
    <3> SUFFICES ASSUME NEW n \in DOMAIN recoveryQueue', recoveryQueue'[n] # NullDatagram
                 PROVE  Datagram(n, recoveryQueue'[n]) \in wire' /\ n \notin acked' \cup early'
      OBVIOUS
    <3>1. CASE n \in DOMAIN recoveryQueue
      BY <1>2, <2>1, <2>6, <3>1 DEF RecoveryInv
    <3>2. CASE n \notin DOMAIN recoveryQueue
      <4>1. n = sendSequenceNumber /\ recoveryQueue'[n] = sent
        BY <2>6, <3>2
      <4>2. Datagram(n, recoveryQueue'[n]) = new
        BY <4>1 DEF new
      <4> QED
        BY <1>2, <2>1, <2>4, <3>2, <4>1, <4>2
    <3> QED
      BY <3>1, <3>2
  <2>11. \A d \in wire' :
           d.number \notin acked' \cup early' =>
             d.number \in DOMAIN recoveryQueue' /\ recoveryQueue'[d.number] = d.packets
    <3> SUFFICES ASSUME NEW d \in wire', d.number \notin acked' \cup early'
                 PROVE  /\ d.number \in DOMAIN recoveryQueue'
                        /\ recoveryQueue'[d.number] = d.packets
      OBVIOUS
    <3>1. CASE d = new
      BY <1>2, <2>2, <2>4, <2>6, <3>1
    <3>2. CASE d \in wire
      BY <1>2, <2>6, <3>2 DEF RecoveryInv
    <3> QED
      BY <2>1, <3>1, <3>2
  <2>12. \A n \in Nat : n >= sendSequenceNumber' =>
           (n \in DOMAIN recoveryQueue' <=> n \in acked' \cup early')
    <3>1. \A n \in Nat : n >= sendSequenceNumber' =>
            n >= sendSequenceNumber /\ n # sendSequenceNumber
      BY <1>1, <2>1
    <3> QED
      BY <1>2, <2>6, <3>1 DEF RecoveryInv
  <2> QED
    BY <2>7, <2>8, <2>9, <2>10, <2>11, <2>12 DEF RecoveryInv
<1> QED
  BY <1>3, <1>4

\* What an ACK or a NACK names that is not used up has not been sent.
LEMMA NamesUnsent ==
  ASSUME TypeOK, RecoveryInv, NEW S \in Naming, Names(S)
  PROVE  /\ S \subseteq Nat
         /\ wire' = wire /\ sendSequenceNumber' = sendSequenceNumber
         /\ early' = early \cup (S \ SentNumbers)
         /\ \A n \in SentNumbers : n \in Nat /\ n < sendSequenceNumber
         /\ \A n \in S : n >= sendSequenceNumber => n \in early'
<1>1. S \subseteq Nat
  BY SendAssumption DEF Naming
<1>2. sendSequenceNumber \in Nat /\ \A d \in wire : d.number \in Nat
  BY DEF TypeOK
<1>3. \A n \in SentNumbers : n \in Nat /\ n < sendSequenceNumber
  BY <1>2 DEF SentNumbers, RecoveryInv
<1>4. early' = early \cup (S \ SentNumbers)
  BY DEF Names
<1>5. \A n \in S : n >= sendSequenceNumber => n \notin SentNumbers
  BY <1>1, <1>2, <1>3
<1> QED
  BY <1>1, <1>3, <1>4, <1>5 DEF Names

LEMMA HandleACKRecovery ==
  ASSUME TypeOK, RecoveryInv, NEW S \in Naming, HandleACK(S)
  PROVE  RecoveryInv'
<1>1. /\ S \subseteq Nat
      /\ wire' = wire /\ sendSequenceNumber' = sendSequenceNumber
      /\ early' = early \cup (S \ SentNumbers)
      /\ \A n \in SentNumbers : n \in Nat /\ n < sendSequenceNumber
      /\ \A n \in S : n >= sendSequenceNumber => n \in early'
  BY NamesUnsent DEF HandleACK
<1>2. /\ resent' = resent /\ acked' = acked \cup S
      /\ recoveryQueue' = [n \in DOMAIN LookedUp(S) \ Released(S) |-> LookedUp(S)[n]]
  BY DEF HandleACK
<1>3. /\ DOMAIN recoveryQueue' = (DOMAIN recoveryQueue \cup S) \ Recoverable(S)
      /\ \A n \in DOMAIN recoveryQueue' :
           recoveryQueue'[n] = IF n \in DOMAIN recoveryQueue THEN recoveryQueue[n]
                                                             ELSE NullDatagram
  BY <1>2 DEF LookedUp, Released
<1>4. \A n \in DOMAIN recoveryQueue :
        recoveryQueue[n] # NullDatagram => n \in SentNumbers
  BY DEF RecoveryInv, SentNumbers, Datagram
<1>5. \A n \in DOMAIN recoveryQueue' :
        recoveryQueue'[n] # NullDatagram =>
          Datagram(n, recoveryQueue'[n]) \in wire' /\ n \notin acked' \cup early'
  BY <1>1, <1>2, <1>3 DEF RecoveryInv, Recoverable
<1>6. \A d \in wire' :
        d.number \notin acked' \cup early' =>
          d.number \in DOMAIN recoveryQueue' /\ recoveryQueue'[d.number] = d.packets
  <2> SUFFICES ASSUME NEW d \in wire', d.number \notin acked' \cup early'
               PROVE  /\ d.number \in DOMAIN recoveryQueue'
                      /\ recoveryQueue'[d.number] = d.packets
    OBVIOUS
  <2>1. /\ d.number \in DOMAIN recoveryQueue
        /\ recoveryQueue[d.number] = d.packets
        /\ d.number \notin S
    BY <1>1, <1>2 DEF RecoveryInv
  <2> QED
    BY <1>3, <2>1 DEF Recoverable
<1>7. \A n \in Nat : n >= sendSequenceNumber' =>
        (n \in DOMAIN recoveryQueue' <=> n \in acked' \cup early')
  <2> SUFFICES ASSUME NEW n \in Nat, n >= sendSequenceNumber
               PROVE  n \in DOMAIN recoveryQueue' <=> n \in acked' \cup early'
    BY <1>1
  <2>1. n \in DOMAIN recoveryQueue <=> n \in acked \cup early
    BY DEF RecoveryInv
  <2>2. n \notin Recoverable(S)
    <3>1. n \notin SentNumbers
      BY <1>1, TypeOK DEF TypeOK
    <3> QED
      BY <1>4, <3>1 DEF Recoverable
  <2> QED
    BY <1>1, <1>2, <1>3, <2>1, <2>2
<1> QED
  BY <1>1, <1>2, <1>5, <1>6, <1>7 DEF RecoveryInv

LEMMA HandleNACKRecovery ==
  ASSUME TypeOK, RecoveryInv, NEW S \in Naming, HandleNACK(S)
  PROVE  RecoveryInv'
<1>1. /\ S \subseteq Nat
      /\ wire' = wire /\ sendSequenceNumber' = sendSequenceNumber
      /\ early' = early \cup (S \ SentNumbers)
      /\ \A n \in SentNumbers : n \in Nat /\ n < sendSequenceNumber
      /\ \A n \in S : n >= sendSequenceNumber => n \in early'
  BY NamesUnsent DEF HandleNACK
<1>2. /\ acked' = acked /\ recoveryQueue' = LookedUp(S)
      /\ resent' = resent \cup
           {[number |-> n, packets |-> recoveryQueue[n]] : n \in Recoverable(S)}
  BY DEF HandleNACK
<1>3. /\ DOMAIN recoveryQueue' = DOMAIN recoveryQueue \cup S
      /\ \A n \in DOMAIN recoveryQueue' :
           recoveryQueue'[n] = IF n \in DOMAIN recoveryQueue THEN recoveryQueue[n]
                                                             ELSE NullDatagram
  BY <1>2 DEF LookedUp
<1>4. \A n \in DOMAIN recoveryQueue :
        recoveryQueue[n] # NullDatagram => n \in SentNumbers
  BY DEF RecoveryInv, SentNumbers, Datagram
<1>5. \A n \in DOMAIN recoveryQueue' :
        recoveryQueue'[n] # NullDatagram =>
          Datagram(n, recoveryQueue'[n]) \in wire' /\ n \notin acked' \cup early'
  BY <1>1, <1>2, <1>3, <1>4 DEF RecoveryInv
<1>6. \A d \in wire' :
        d.number \notin acked' \cup early' =>
          d.number \in DOMAIN recoveryQueue' /\ recoveryQueue'[d.number] = d.packets
  BY <1>1, <1>2, <1>3 DEF RecoveryInv
<1>7. \A n \in Nat : n >= sendSequenceNumber' =>
        (n \in DOMAIN recoveryQueue' <=> n \in acked' \cup early')
  BY <1>1, <1>2, <1>3 DEF RecoveryInv
<1>8. resent' \subseteq wire'
  <2>1. \A n \in Recoverable(S) : Datagram(n, recoveryQueue[n]) \in wire
    BY DEF Recoverable, RecoveryInv
  <2> QED
    BY <1>1, <1>2, <2>1 DEF Datagram, RecoveryInv
<1> QED
  BY <1>1, <1>5, <1>6, <1>7, <1>8 DEF RecoveryInv

LEMMA InitRecovery == Init => RecoveryInv
BY DEF Init, RecoveryInv

LEMMA NextRecovery == TypeOK /\ RecoveryInv /\ [Next]_vars => RecoveryInv'
<1> SUFFICES ASSUME TypeOK, RecoveryInv, [Next]_vars PROVE RecoveryInv'
  OBVIOUS
<1>1. ASSUME NEW c \in Call, SendEncapsulated(c)
      PROVE  RecoveryInv'
  <2>1. UNCHANGED peerVars
    BY <1>1 DEF SendEncapsulated, RefuseCall, SendImmediate, QueueForUpdate,
                QueueUntilFull, BeginSplit, SendWhole, TakeCall, BeginCall
  <2>2. \/ UNCHANGED datagramVars
        \/ SendDatagram(<<NewPacket(c)>>)
        \/ SendDatagram(normalQueue)
    BY <1>1 DEF SendEncapsulated, RefuseCall, SendImmediate, QueueForUpdate,
                QueueUntilFull, BeginSplit
  <2> QED
    BY <2>1, <2>2, RecoveryUnchanged, SendDatagramRecovery
<1>2. CASE SendPart
  BY <1>2, SendDatagramRecovery DEF SendPart
<1>3. CASE SplitThrows \/ EndSplit
  BY <1>3, RecoveryUnchanged DEF SplitThrows, EndSplit
<1>4. CASE Update
  BY <1>4, SendDatagramRecovery DEF Update
<1>5. ASSUME NEW S \in Naming, HandleACK(S)
      PROVE  RecoveryInv'
  BY <1>5, HandleACKRecovery
<1>6. ASSUME NEW S \in Naming, HandleNACK(S)
      PROVE  RecoveryInv'
  BY <1>6, HandleNACKRecovery
<1>7. CASE UNCHANGED vars
  BY <1>7, RecoveryUnchanged DEF vars
<1> QED
  BY <1>1, <1>2, <1>3, <1>4, <1>5, <1>6, <1>7 DEF Next

-----------------------------------------------------------------------------
(* The theorems *)

LEMMA RecoveryAlways == Spec => [](TypeOK /\ RecoveryInv)
<1>1. Init => TypeOK /\ RecoveryInv
  BY InitType, InitRecovery
<1>2. TypeOK /\ RecoveryInv /\ [Next]_vars => (TypeOK /\ RecoveryInv)'
  BY NextType, NextRecovery
<1> QED
  BY <1>1, <1>2, PTL DEF Spec

\* Types: no datagram goes out empty and no index leaves its range, whatever the
\* calls (sendDatagram, lines 236-239; sendEncapsulated).
THEOREM TypeCorrect == Spec => []TypeOK
BY RecoveryAlways, PTL

\* A datagram number names one datagram for ever (sendDatagram, lines 229-247;
\* receivePacket, lines 86-95).
THEOREM NumbersUnique == Spec => []NumberNamesDatagram
<1>1. RecoveryInv => NumberNamesDatagram
  BY DEF RecoveryInv, NumberNamesDatagram
<1> QED
  BY <1>1, RecoveryAlways, PTL

\* What a NACK can bring back, after any ACKs and NACKs of any numbers, is what the
\* peer has not acknowledged and had not named before it was sent, neither less nor
\* more (sendDatagram, lines 244-245; receivePacket, lines 80-95).
THEOREM RecoveryKept == Spec => []RecoveryExact
<1>1. TypeOK /\ RecoveryInv => RecoveryExact
  <2> SUFFICES ASSUME TypeOK, RecoveryInv PROVE RecoveryExact
    OBVIOUS
  <2> DEFINE Kept == {d \in wire : d.number \notin acked \cup early}
  <2>1. ASSUME NEW n \in Recoverable(DOMAIN recoveryQueue)
        PROVE  [number |-> n, packets |-> recoveryQueue[n]] \in Kept
    BY DEF Recoverable, RecoveryInv, Datagram
  <2>2. ASSUME NEW d \in Kept
        PROVE  \E n \in Recoverable(DOMAIN recoveryQueue) :
                 d = [number |-> n, packets |-> recoveryQueue[n]]
    <3>1. /\ d = Datagram(d.number, recoveryQueue[d.number])
          /\ d.number \in DOMAIN recoveryQueue /\ recoveryQueue[d.number] = d.packets
      BY DEF RecoveryInv
    <3>2. recoveryQueue[d.number] # NullDatagram
      BY <3>1, NullAssumption DEF TypeOK
    <3> QED
      BY <3>1, <3>2 DEF Datagram, Recoverable
  <2> HIDE DEF Kept
  <2>3. InRecovery = Kept
    BY <2>1, <2>2 DEF InRecovery
  <2> QED
    BY <2>3 DEF RecoveryExact, Kept
<1> QED
  BY <1>1, RecoveryAlways, PTL

-----------------------------------------------------------------------------
(* Every packet goes one way *)

NoRepeats(q) == \A a, b \in DOMAIN q : q[a] = q[b] => a = b

\* No packet is in two datagrams, or in a datagram and given up.
Apart ==
  /\ \A d, e \in wire : Range(d.packets) \cap Range(e.packets) # {} => d = e
  /\ \A d \in wire : Range(d.packets) \cap lost = {}

\* A packet that could not be made by a later step.
Old(p) ==
  /\ p.id < calls
  /\ pc = "split" /\ p.hasSplit /\ p.id = packet.id =>
       p.splitInfo.compoundIndex < partIndex

OnceInv ==
  /\ Apart
  /\ \A p \in Gone : Old(p)
  /\ \A p \in Waiting : p.id < calls /\ ~p.hasSplit
  /\ NoRepeats(normalQueue) /\ NoRepeats(updateQueue)
  /\ Range(normalQueue) \cap Range(updateQueue) = {}
  /\ Gone \cap Waiting = {}
  /\ pc = "split" => packet.id < calls

\* What is cut off behind the first m elements of a sequence is the rest of it.
LEMMA CutRange ==
  ASSUME NEW S, NEW q \in Seq(S), NEW m \in 0 .. Len(q)
  PROVE  /\ Range(q) = Range(SubSeq(q, 1, m)) \cup Range(SubSeq(q, m + 1, Len(q)))
         /\ NoRepeats(q) =>
              Range(SubSeq(q, 1, m)) \cap Range(SubSeq(q, m + 1, Len(q))) = {}
<1> DEFINE s == SubSeq(q, 1, m)
           r == SubSeq(q, m + 1, Len(q))
<1>1. /\ DOMAIN q = 1 .. Len(q) /\ Len(q) \in Nat /\ m \in Nat /\ m <= Len(q)
      /\ DOMAIN s = 1 .. m /\ \A k \in 1 .. m : s[k] = q[k]
  OBVIOUS
<1>2. DOMAIN r = 1 .. Len(q) - m /\ \A k \in 1 .. Len(q) - m : r[k] = q[m + k]
  OBVIOUS
<1> HIDE DEF s, r
<1>3. Range(s) \subseteq Range(q) /\ Range(r) \subseteq Range(q)
  <2>1. \A k \in DOMAIN s : s[k] \in Range(q)
    BY <1>1 DEF Range
  <2>2. \A k \in DOMAIN r : r[k] \in Range(q)
    BY <1>1, <1>2, SMTT(30) DEF Range
  <2> QED
    BY <2>1, <2>2 DEF Range
<1>4. Range(q) \subseteq Range(s) \cup Range(r)
  <2> SUFFICES ASSUME NEW k \in 1 .. Len(q) PROVE q[k] \in Range(s) \cup Range(r)
    BY <1>1 DEF Range
  <2>1. CASE k <= m
    BY <1>1, <2>1 DEF Range
  <2>2. CASE k > m
    <3>1. k - m \in 1 .. Len(q) - m /\ m + (k - m) = k
      BY <1>1, <2>2
    <3>2. r[k - m] = q[k] /\ k - m \in DOMAIN r
      BY <1>2, <3>1
    <3> QED
      BY <3>2 DEF Range
  <2> QED
    BY <1>1, <2>1, <2>2
<1>5. ASSUME NoRepeats(q), NEW a \in DOMAIN s, NEW b \in DOMAIN r, s[a] = r[b]
      PROVE  FALSE
  <2>1. a \in 1 .. Len(q) /\ m + b \in 1 .. Len(q) /\ q[a] = q[m + b] /\ a # m + b
    BY <1>1, <1>2, <1>5
  <2> QED
    BY <1>1, <1>5, <2>1 DEF NoRepeats
<1>6. NoRepeats(q) => Range(s) \cap Range(r) = {}
  BY <1>5 DEF Range
<1> QED
  BY <1>3, <1>4, <1>6 DEF s, r

\* sendDatagram does with every packet one thing or the other.
LEMMA SendDatagramGone ==
  ASSUME TypeOK, NEW q, q \in Seq(PacketType), SendDatagram(q)
  PROVE  /\ Gone' = Gone \cup Range(q)
         /\ Apart /\ NoRepeats(q) /\ Range(q) \cap Gone = {} => Apart'
<1> DEFINE sent == SubSeq(q, 1, Taken(q))
           rest == SubSeq(q, Taken(q) + 1, Len(q))
<1>1. /\ Range(q) = Range(sent) \cup Range(rest)
      /\ NoRepeats(q) => Range(sent) \cap Range(rest) = {}
  BY TakenType, CutRange
<1>2. lost' = lost \cup Range(rest)
  BY DEF SendDatagram
<1>3. CASE q = <<>> \/ IsEmpty(sent)
  <2>1. wire' = wire
    BY <1>3 DEF SendDatagram
  <2>2. Range(sent) = {}
    <3>1. DOMAIN sent = {}
      <4>1. sent = <<>>
        BY <1>3, TakenType DEF IsEmpty
      <4> HIDE DEF sent
      <4> QED
        BY <4>1
    <3> HIDE DEF sent
    <3> QED
      BY <3>1 DEF Range
  <2> HIDE DEF sent, rest
  <2>3. Gone' = Gone \cup Range(q)
    BY <1>1, <1>2, <2>1, <2>2 DEF Gone
  <2>4. ASSUME Apart, Range(q) \cap Gone = {}
        PROVE  Apart'
    <3>1. \A d \in wire : Range(d.packets) \cap Range(rest) = {}
      BY <1>1, <2>4 DEF Gone
    <3> QED
      BY <1>2, <2>1, <2>4, <3>1 DEF Apart
  <2> QED
    BY <2>3, <2>4
<1>4. CASE ~(q = <<>> \/ IsEmpty(sent))
  <2> DEFINE new == [number |-> sendSequenceNumber, packets |-> sent]
  <2>1. wire' = wire \cup {new} /\ new.packets = sent
    BY <1>4 DEF SendDatagram
  <2> HIDE DEF sent, rest, new
  <2>2. Gone' = Gone \cup Range(q)
    BY <1>1, <1>2, <2>1 DEF Gone
  <2>3. ASSUME Apart, NoRepeats(q), Range(q) \cap Gone = {}
        PROVE  Apart'
    <3>1. /\ \A d \in wire : /\ Range(d.packets) \cap Range(rest) = {}
                             /\ Range(d.packets) \cap Range(sent) = {}
          /\ Range(sent) \cap lost = {} /\ Range(sent) \cap Range(rest) = {}
      BY <1>1, <2>3 DEF Gone
    <3>2. \A d \in wire' : Range(d.packets) \cap lost' = {}
      BY <1>2, <2>1, <2>3, <3>1 DEF Apart
    <3>3. \A d, e \in wire' : Range(d.packets) \cap Range(e.packets) # {} => d = e
      BY <2>1, <2>3, <3>1 DEF Apart
    <3> QED
      BY <3>2, <3>3 DEF Apart
  <2> QED
    BY <2>2, <2>3
<1> QED
  BY <1>3, <1>4

LEMMA RangeAlone ==
  ASSUME NEW x, NEW r, r = <<x>>
  PROVE  Range(r) = {x} /\ NoRepeats(r)
<1>1. DOMAIN r = {1} /\ r[1] = x
  OBVIOUS
<1> QED
  BY <1>1 DEF Range, NoRepeats

LEMMA RangeQueued ==
  ASSUME NEW q, q \in Seq(PacketType), NEW x \in PacketType, NEW r, r = Append(q, x),
         NoRepeats(q), x \notin Range(q)
  PROVE  Range(r) = Range(q) \cup {x} /\ NoRepeats(r)
<1>1. /\ DOMAIN q = 1 .. Len(q) /\ DOMAIN r = 1 .. Len(q) + 1 /\ Len(q) \in Nat
      /\ r[Len(q) + 1] = x /\ \A k \in 1 .. Len(q) : r[k] = q[k]
  OBVIOUS
<1>2. Range(r) = Range(q) \cup {x}
  <2>1. \A k \in DOMAIN r : r[k] \in Range(q) \cup {x}
    <3> SUFFICES ASSUME NEW k \in DOMAIN r PROVE r[k] \in Range(q) \cup {x}
      OBVIOUS
    <3>1. k \in 1 .. Len(q) \/ k = Len(q) + 1
      BY <1>1
    <3> QED
      BY <1>1, <3>1 DEF Range
  <2>2. \A k \in DOMAIN q : q[k] \in Range(r)
    BY <1>1 DEF Range
  <2>3. x \in Range(r)
    BY <1>1 DEF Range
  <2> QED
    BY <2>1, <2>2, <2>3 DEF Range
<1>3. NoRepeats(r)
  <2>1. \A k \in 1 .. Len(q) : r[k] # x
    BY <1>1 DEF Range
  <2> QED
    BY <1>1, <2>1 DEF NoRepeats
<1> QED
  BY <1>2, <1>3

LEMMA EmptyRange == Range(<<>>) = {} /\ NoRepeats(<<>>)
<1>1. DOMAIN <<>> = {}
  OBVIOUS
<1> QED
  BY <1>1 DEF Range, NoRepeats

LEMMA PacketsTyped ==
  ASSUME TypeOK
  PROVE  /\ \A p \in Gone \cup Waiting : p \in PacketType
         /\ \A p \in PacketType : p.id \in Nat /\ p.splitInfo.compoundIndex \in Nat
         /\ calls \in Nat /\ partIndex \in Nat
<1>1. \A d \in wire : Range(d.packets) \subseteq PacketType
  BY RangeType DEF TypeOK
<1>2. Range(normalQueue) \subseteq PacketType /\ Range(updateQueue) \subseteq PacketType
  BY RangeType DEF TypeOK
<1>3. lost \subseteq PacketType /\ calls \in Nat /\ partIndex \in Nat
  BY DEF TypeOK
<1>4. \A p \in PacketType : p.id \in Nat /\ p.splitInfo.compoundIndex \in Nat
  BY DEF PacketType
<1> QED
  BY <1>1, <1>2, <1>3, <1>4 DEF Gone, Waiting

\* A step outside the loop, after which the packets there are were there before
\* or are whole packets of this call.
LEMMA OnceIdle ==
  ASSUME TypeOK, OnceInv, calls' \in {calls, calls + 1}, pc' = "idle",
         NEW N, \A p \in N : p.id < calls' /\ ~p.hasSplit,
         Gone' \subseteq Gone \cup Waiting \cup N, Waiting' \subseteq Waiting \cup N,
         Apart', NoRepeats(normalQueue)', NoRepeats(updateQueue)',
         (Range(normalQueue) \cap Range(updateQueue))' = {},
         Gone' \cap Waiting' = {}
  PROVE  OnceInv'
<1>1. \A p \in Gone \cup Waiting : p.id \in Nat /\ p.id < calls
  BY PacketsTyped DEF OnceInv, Old
<1>2. \A p \in Gone \cup Waiting : p.id < calls'
  BY <1>1, PacketsTyped
<1>3. \A p \in Waiting' : p.id < calls' /\ ~p.hasSplit
  BY <1>2 DEF OnceInv
<1>4. \A p \in Gone' : Old(p)'
  BY <1>2 DEF Old
<1> QED
  BY <1>3, <1>4 DEF OnceInv

LEMMA NewIsNew ==
  ASSUME TypeOK, OnceInv, NEW c \in Call, TakeCall(c)
  PROVE  /\ NewPacket(c).id < calls' /\ ~NewPacket(c).hasSplit
         /\ NewPacket(c) \notin Gone \cup Waiting
         /\ calls' = calls + 1 /\ pc = "idle"
<1>1. NewPacket(c).id = calls /\ NewPacket(c).hasSplit = FALSE
  BY DEF NewPacket
<1>2. calls' = calls + 1 /\ pc = "idle" /\ calls \in Nat
  BY DEF TakeCall, BeginCall, TypeOK
<1>3. \A p \in Gone \cup Waiting : p.id < calls
  BY DEF OnceInv, Old
<1> QED
  BY <1>1, <1>2, <1>3

LEMMA CallOnce ==
  ASSUME TypeOK, OnceInv, NEW c \in Call, SendEncapsulated(c)
  PROVE  OnceInv'
<1> USE DEF indexVars, datagramVars, queueVars, loopVars
<1>1. CASE RefuseCall(c)
  <2>1. /\ UNCHANGED <<wire, lost, normalQueue, updateQueue>>
        /\ pc' = "idle" /\ calls' = calls + 1
    BY <1>1 DEF RefuseCall, BeginCall
  <2>2. /\ Gone' = Gone /\ Waiting' = Waiting /\ Apart'
        /\ NoRepeats(normalQueue)' /\ NoRepeats(updateQueue)'
        /\ (Range(normalQueue) \cap Range(updateQueue))' = {}
    BY <2>1 DEF Gone, Waiting, Apart, OnceInv
  <2> QED
    BY <2>1, <2>2, OnceIdle, \A p \in {} : p.id < calls' /\ ~p.hasSplit DEF OnceInv
<1>2. ASSUME TakeCall(c)
      PROVE  /\ NewPacket(c) \in PacketType
             /\ NewPacket(c).id < calls' /\ ~NewPacket(c).hasSplit
             /\ NewPacket(c) \notin Gone \cup Waiting
             /\ calls' = calls + 1 /\ pc = "idle"
  BY <1>2, CallTypes, NewIsNew
<1>3. PICK x : x = NewPacket(c)
  OBVIOUS
<1>4. CASE SendImmediate(c)
  <2>1. /\ TakeCall(c) /\ SendDatagram(<<x>>) /\ UNCHANGED queueVars /\ pc' = pc
    BY <1>3, <1>4 DEF SendImmediate, SendWhole
  <2>2. /\ x \in PacketType /\ <<x>> \in Seq(PacketType) /\ x \notin Gone \cup Waiting
        /\ \A p \in {x} : p.id < calls' /\ ~p.hasSplit
        /\ calls' = calls + 1 /\ pc = "idle"
    BY <1>2, <1>3, <2>1
  <2>3. Range(<<x>>) = {x} /\ NoRepeats(<<x>>)
    BY <2>2, RangeAlone
  <2>4. Gone' = Gone \cup {x} /\ Apart'
    BY <2>1, <2>2, <2>3, SendDatagramGone DEF OnceInv
  <2>5. /\ Waiting' = Waiting
        /\ NoRepeats(normalQueue)' /\ NoRepeats(updateQueue)'
        /\ (Range(normalQueue) \cap Range(updateQueue))' = {}
    BY <2>1 DEF Waiting, OnceInv
  <2>6. Gone' \cap Waiting' = {}
    BY <2>2, <2>4, <2>5 DEF OnceInv
  <2> QED
    BY <2>1, <2>2, <2>4, <2>5, <2>6, OnceIdle
<1>5. CASE QueueForUpdate(c)
  <2>1. /\ TakeCall(c) /\ updateQueue' = Append(updateQueue, x)
        /\ UNCHANGED <<normalQueue, wire, lost, pc>>
    BY <1>3, <1>5 DEF QueueForUpdate, SendWhole
  <2>2. /\ x \in PacketType /\ x \notin Gone \cup Waiting
        /\ \A p \in {x} : p.id < calls' /\ ~p.hasSplit
        /\ calls' = calls + 1 /\ pc = "idle"
    BY <1>2, <1>3, <2>1
  <2>3. Range(updateQueue') = Range(updateQueue) \cup {x} /\ NoRepeats(updateQueue')
    <3>1. updateQueue \in Seq(PacketType) /\ NoRepeats(updateQueue) /\ x \notin Range(updateQueue)
      BY <2>2 DEF TypeOK, OnceInv, Waiting
    <3> QED
      BY <2>1, <2>2, <3>1, RangeQueued
  <2>4. Gone' = Gone /\ Apart'
    BY <2>1 DEF Gone, Apart, OnceInv
  <2>5. /\ Waiting' = Waiting \cup {x} /\ NoRepeats(normalQueue)'
        /\ (Range(normalQueue) \cap Range(updateQueue))' = {}
    BY <2>1, <2>2, <2>3 DEF Waiting, OnceInv
  <2>6. Gone' \cap Waiting' = {}
    BY <2>2, <2>4, <2>5 DEF OnceInv
  <2> QED
    BY <2>1, <2>2, <2>3, <2>4, <2>5, <2>6, OnceIdle
<1>6. CASE QueueUntilFull(c)
  <2>1. TakeCall(c) /\ UNCHANGED <<updateQueue, pc>>
    BY <1>6 DEF QueueUntilFull, SendWhole
  <2>2. /\ x \in PacketType /\ x \notin Gone \cup Waiting
        /\ \A p \in {x} : p.id < calls' /\ ~p.hasSplit
        /\ calls' = calls + 1 /\ pc = "idle"
    BY <1>2, <1>3, <2>1
  <2>3. CASE IsFull(c)
    <3>1. SendDatagram(normalQueue) /\ normalQueue' = <<x>>
      BY <1>3, <1>6, <2>3 DEF QueueUntilFull
    <3>2. /\ normalQueue \in Seq(PacketType) /\ NoRepeats(normalQueue)
          /\ Range(normalQueue) \cap Gone = {} /\ Apart
      BY DEF TypeOK, OnceInv, Waiting
    <3>3. Gone' = Gone \cup Range(normalQueue) /\ Apart'
      BY <3>1, <3>2, SendDatagramGone
    <3>4. Range(normalQueue') = {x} /\ NoRepeats(normalQueue')
      BY <2>2, <3>1, RangeAlone
    <3>5. /\ Waiting' = {x} \cup Range(updateQueue) /\ NoRepeats(updateQueue)'
          /\ (Range(normalQueue) \cap Range(updateQueue))' = {}
      BY <2>1, <2>2, <3>4 DEF Waiting, OnceInv
    <3>6. Gone' \cap Waiting' = {}
      BY <2>2, <3>3, <3>5 DEF OnceInv, Waiting
    <3>7. Gone' \subseteq Gone \cup Waiting \cup {x} /\ Waiting' \subseteq Waiting \cup {x}
      BY <3>3, <3>5 DEF Waiting
    <3> QED
      BY <2>1, <2>2, <3>3, <3>4, <3>5, <3>6, <3>7, OnceIdle
  <2>4. CASE ~IsFull(c)
    <3>1. UNCHANGED <<wire, lost>> /\ normalQueue' = Append(normalQueue, x)
      BY <1>3, <1>6, <2>4 DEF QueueUntilFull
    <3>2. Range(normalQueue') = Range(normalQueue) \cup {x} /\ NoRepeats(normalQueue')
      <4>1. normalQueue \in Seq(PacketType) /\ NoRepeats(normalQueue) /\ x \notin Range(normalQueue)
        BY <2>2 DEF TypeOK, OnceInv, Waiting
      <4> QED
        BY <2>2, <3>1, <4>1, RangeQueued
    <3>3. Gone' = Gone /\ Apart'
      BY <3>1 DEF Gone, Apart, OnceInv
    <3>4. /\ Waiting' = Waiting \cup {x} /\ NoRepeats(updateQueue)'
          /\ (Range(normalQueue) \cap Range(updateQueue))' = {}
      BY <2>1, <2>2, <3>2 DEF Waiting, OnceInv
    <3>5. Gone' \cap Waiting' = {}
      BY <2>2, <3>3, <3>4 DEF OnceInv
    <3> QED
      BY <2>1, <2>2, <3>2, <3>3, <3>4, <3>5, OnceIdle
  <2> QED
    BY <2>3, <2>4
<1>7. CASE BeginSplit(c)
  <2>1. /\ TakeCall(c) /\ UNCHANGED <<wire, lost, normalQueue, updateQueue>>
        /\ packet' = NewPacket(c) /\ pc' = "split"
    BY <1>7 DEF BeginSplit
  <2>2. packet'.id = calls /\ calls' = calls + 1 /\ calls \in Nat
    BY <2>1, <1>2 DEF NewPacket, TypeOK
  <2>3. /\ Gone' = Gone /\ Waiting' = Waiting /\ Apart'
    BY <2>1 DEF Gone, Waiting, Apart, OnceInv
  <2>4. \A p \in Gone \cup Waiting : p.id \in Nat /\ p.id < calls
    BY PacketsTyped DEF OnceInv, Old
  <2>5. \A p \in Gone' \cup Waiting' : p.id < calls' /\ p.id # packet'.id
    BY <2>2, <2>3, <2>4
  <2> QED
    BY <2>1, <2>2, <2>3, <2>5 DEF OnceInv, Old
<1> QED
  BY <1>1, <1>4, <1>5, <1>6, <1>7 DEF SendEncapsulated

LEMMA PartIs ==
  ASSUME pc = "split", TypeOK
  PROVE  /\ Part.id = packet.id /\ Part.hasSplit /\ Part.reliability = packet.reliability
         /\ Part.length = PartLength
         /\ Part.splitInfo.compoundIndex = partIndex
         /\ Part.splitInfo.compoundID = splitID
         /\ Part.splitInfo.compoundSize = PartCount
         /\ Part.messageIndex = IF IsReliable(packet) THEN sendReliableIndex ELSE NoIndex
<1>1. packet \in PacketType
  BY DEF TypeOK
<1> HIDE DEF PartCount, PartLength
<1> QED
  BY <1>1 DEF Part, PacketType

LEMMA SendPartOnce ==
  ASSUME TypeOK, OnceInv, SendPart
  PROVE  /\ Gone' = Gone \cup {Part} /\ Part \notin Gone /\ OnceInv'
<1>1. /\ pc = "split" /\ SendDatagram(<<Part>>) /\ partIndex' = partIndex + 1
      /\ UNCHANGED <<normalQueue, updateQueue, pc, packet, calls>>
  BY DEF SendPart, queueVars
<1>2. PICK x : x = Part
  OBVIOUS
<1>3. x \in PacketType /\ <<x>> \in Seq(PacketType)
  BY <1>1, <1>2, PartType
<1>4. x.id = packet.id /\ x.hasSplit /\ x.splitInfo.compoundIndex = partIndex
  BY <1>1, <1>2, PartIs
<1>5. partIndex \in Nat /\ calls \in Nat
  BY DEF TypeOK
<1>6. x \notin Gone
  <2> SUFFICES ASSUME x \in Gone PROVE FALSE
    OBVIOUS
  <2>1. Old(x)
    BY DEF OnceInv
  <2> QED
    BY <1>1, <1>4, <1>5, <2>1 DEF Old
<1>7. x \notin Waiting
  BY <1>4 DEF OnceInv
<1>8. Gone' = Gone \cup {x} /\ Apart'
  <2>1. Range(<<x>>) = {x} /\ NoRepeats(<<x>>)
    BY RangeAlone
  <2>2. SendDatagram(<<x>>)
    BY <1>1, <1>2
  <2> QED
    BY <1>3, <1>6, <2>1, <2>2, SendDatagramGone DEF OnceInv
<1>9. Waiting' = Waiting
  BY <1>1 DEF Waiting
<1>10. \A p \in Gone' : Old(p)'
  <2>1. \A p \in Gone : Old(p)'
    BY <1>1, <1>5, PacketsTyped DEF OnceInv, Old
  <2>2. Old(x)'
    BY <1>1, <1>4, <1>5 DEF OnceInv, Old
  <2> QED
    BY <1>8, <2>1, <2>2
<1>11. Gone' \cap Waiting' = {}
  BY <1>7, <1>8, <1>9 DEF OnceInv
<1>12. /\ NoRepeats(normalQueue)' /\ NoRepeats(updateQueue)'
       /\ (Range(normalQueue) \cap Range(updateQueue))' = {}
       /\ pc' = "split" => packet'.id < calls'
       /\ \A p \in Waiting' : p.id < calls' /\ ~p.hasSplit
  BY <1>1, <1>9 DEF OnceInv
<1> QED
  BY <1>2, <1>6, <1>8, <1>10, <1>11, <1>12 DEF OnceInv

LEMMA UpdateOnce ==
  ASSUME TypeOK, OnceInv, Update
  PROVE  Gone' = Gone \cup Range(updateQueue) /\ OnceInv'
<1>1. /\ SendDatagram(updateQueue) /\ updateQueue' = <<>>
      /\ UNCHANGED <<normalQueue, pc, calls>> /\ pc = "idle"
  BY DEF Update, UpdatedQueue, loopVars
<1>2. /\ updateQueue \in Seq(PacketType) /\ NoRepeats(updateQueue)
      /\ Range(updateQueue) \cap Gone = {} /\ Apart
  BY DEF TypeOK, OnceInv, Waiting
<1>3. Gone' = Gone \cup Range(updateQueue) /\ Apart'
  BY <1>1, <1>2, SendDatagramGone
<1>4. Range(updateQueue') = {} /\ NoRepeats(updateQueue)'
  BY <1>1, EmptyRange
<1>5. /\ Waiting' = Range(normalQueue) /\ NoRepeats(normalQueue)'
      /\ (Range(normalQueue) \cap Range(updateQueue))' = {}
  BY <1>1, <1>4 DEF Waiting, OnceInv
<1>6. Gone' \cap Waiting' = {}
  BY <1>3, <1>5 DEF OnceInv, Waiting
<1>7. Gone' \subseteq Gone \cup Waiting \cup {} /\ Waiting' \subseteq Waiting \cup {}
  BY <1>3, <1>5 DEF Waiting
<1>8. \A p \in {} : p.id < calls' /\ ~p.hasSplit
  OBVIOUS
<1> QED
  BY <1>1, <1>3, <1>4, <1>5, <1>6, <1>7, <1>8, OnceIdle

LEMMA PeerOnce ==
  ASSUME TypeOK, OnceInv, UNCHANGED <<wire, lost, queueVars, calls>>,
         \/ UNCHANGED <<pc, packet, partIndex>>
         \/ pc' = "idle"
  PROVE  Gone' = Gone /\ OnceInv'
<1>1. /\ Gone' = Gone /\ Waiting' = Waiting /\ Apart'
      /\ NoRepeats(normalQueue)' /\ NoRepeats(updateQueue)'
      /\ (Range(normalQueue) \cap Range(updateQueue))' = {}
  BY DEF Gone, Waiting, Apart, OnceInv, queueVars
<1>2. \A p \in Gone' : Old(p)'
  BY <1>1 DEF OnceInv, Old
<1> QED
  BY <1>1, <1>2 DEF OnceInv

LEMMA InitOnce == Init => OnceInv
<1> SUFFICES ASSUME Init PROVE OnceInv
  OBVIOUS
<1>1. Gone = {} /\ Waiting = {} /\ Apart
  BY EmptyRange DEF Init, Gone, Waiting, Apart
<1>2. /\ NoRepeats(normalQueue) /\ NoRepeats(updateQueue)
      /\ Range(normalQueue) \cap Range(updateQueue) = {}
      /\ pc = "idle"
  BY EmptyRange DEF Init
<1> QED
  BY <1>1, <1>2 DEF OnceInv

LEMMA NextOnce == TypeOK /\ OnceInv /\ [Next]_vars => OnceInv'
<1> SUFFICES ASSUME TypeOK, OnceInv, [Next]_vars PROVE OnceInv'
  OBVIOUS
<1>1. ASSUME NEW c \in Call, SendEncapsulated(c)
      PROVE  OnceInv'
  BY <1>1, CallOnce
<1>2. CASE SendPart
  BY <1>2, SendPartOnce
<1>3. CASE SplitThrows \/ EndSplit
  BY <1>3, PeerOnce DEF SplitThrows, EndSplit, datagramVars
<1>4. CASE Update
  BY <1>4, UpdateOnce
<1>5. ASSUME NEW S, HandleACK(S) \/ HandleNACK(S)
      PROVE  OnceInv'
  BY <1>5, PeerOnce DEF HandleACK, HandleNACK, Names, loopVars
<1>6. CASE UNCHANGED vars
  BY <1>6, PeerOnce DEF vars, loopVars, datagramVars
<1> QED
  BY <1>1, <1>2, <1>3, <1>4, <1>5, <1>6 DEF Next

\* Nothing is sent twice but in answer to a NACK, and nothing that was sent still
\* waits or was given up: whatever mix of priorities the calls use and however
\* update cuts its queue (sendEncapsulated, lines 173-216; sendDatagram, lines
\* 229-247; Session::update, lines 57-61).
THEOREM NothingSentTwice == Spec => []SentOnce
<1>1. Init => TypeOK /\ OnceInv
  BY InitType, InitOnce
<1>2. TypeOK /\ OnceInv /\ [Next]_vars => (TypeOK /\ OnceInv)'
  BY NextType, NextOnce
<1>3. OnceInv => SentOnce
  <2> SUFFICES ASSUME OnceInv PROVE SentOnce
    OBVIOUS
  <2>1. \A d \in wire : Range(d.packets) \subseteq Gone
    BY DEF Gone
  <2> QED
    BY <2>1 DEF OnceInv, Apart, SentOnce
<1> QED
  BY <1>1, <1>2, <1>3, PTL DEF Spec

-----------------------------------------------------------------------------
(* Division, for the number of parts *)

LEMMA DivMod ==
  ASSUME NEW m \in Nat \ {0}, NEW n \in Nat
  PROVE  /\ n = (n \div m) * m + (n % m)
         /\ n % m \in 0 .. m - 1 /\ n \div m \in Nat
<1>1. PICK d, r : d = n \div m /\ r = n % m
  OBVIOUS
<1>2. n = d * m + r
  BY <1>1
<1>3. r \in 0 .. m - 1 /\ d \in Nat
  BY <1>1
<1> QED
  BY <1>1, <1>2, <1>3

LEMMA MultiplesGrow ==
  ASSUME NEW m \in Nat \ {0}, NEW a \in Int, NEW b \in Int, a < b
  PROVE  a * m + m <= b * m
<1>1. PICK d \in Nat : b = a + d /\ d >= 1
  <2>1. b - a \in Nat /\ b = a + (b - a)
    OBVIOUS
  <2> QED
    BY <2>1
<1>2. b * m = a * m + d * m
  BY <1>1
<1>3. d * m >= m
  BY <1>1
<1> QED
  BY <1>2, <1>3

\* So many pieces of m bytes hold n bytes, and no fewer.
LEMMA PieceCount ==
  ASSUME NEW m \in Nat \ {0}, NEW n \in Nat, NEW k \in Nat,
         k * m - m < n, n <= k * m
  PROVE  n \div m + (IF n % m > 0 THEN 1 ELSE 0) = k
<1> DEFINE d == n \div m
           r == n % m
<1>1. n = d * m + r /\ r \in 0 .. m - 1 /\ d \in Nat
  BY DivMod
<1> HIDE DEF d, r
<1>2. CASE r = 0
  <2>1. d * m <= k * m /\ k * m - m < d * m
    BY <1>1, <1>2
  <2>2. ~(k < d)
    BY <1>1, <2>1, MultiplesGrow
  <2>3. ~(d < k)
    BY <1>1, <2>1, MultiplesGrow
  <2> QED
    BY <1>1, <1>2, <2>2, <2>3 DEF d, r
<1>3. CASE r # 0
  <2>1. ~(k - 1 < d)
    <3>1. SUFFICES ASSUME k - 1 < d PROVE FALSE
      OBVIOUS
    <3>2. k * m <= d * m
      <4>1. k < d \/ k = d
        BY <1>1, <3>1
      <4> QED
        BY <1>1, <4>1, MultiplesGrow
    <3> QED
      BY <1>1, <1>3, <3>2
  <2>2. ~(d < k - 1)
    <3>1. SUFFICES ASSUME d < k - 1 PROVE FALSE
      OBVIOUS
    <3>2. d * m + m <= (k - 1) * m /\ (k - 1) * m = k * m - m
      BY <1>1, <3>1, MultiplesGrow
    <3> QED
      BY <1>1, <3>2
  <2> QED
    BY <1>1, <1>3, <2>1, <2>2 DEF d, r
<1> QED
  BY <1>2, <1>3

LEMMA ModUnique ==
  ASSUME NEW m \in Nat \ {0}, NEW d \in Nat, NEW r \in 0 .. m - 1
  PROVE  (d * m + r) % m = r
<1>1. PICK n \in Nat : n = d * m + r
  BY DivMod
<1> DEFINE e == n \div m
           x == n % m
<1>2. n = e * m + x /\ x \in 0 .. m - 1 /\ e \in Nat
  BY DivMod
<1> HIDE DEF e, x
<1>3. ~(d < e)
  <2> SUFFICES ASSUME d < e PROVE FALSE
    OBVIOUS
  <2>1. d * m + m <= e * m
    BY <1>2, MultiplesGrow
  <2> QED
    BY <1>1, <1>2, <2>1
<1>4. ~(e < d)
  <2> SUFFICES ASSUME e < d PROVE FALSE
    OBVIOUS
  <2>1. e * m + m <= d * m
    BY <1>2, MultiplesGrow
  <2> QED
    BY <1>1, <1>2, <2>1
<1>5. e = d
  BY <1>2, <1>3, <1>4
<1>6. x = r
  BY <1>1, <1>2, <1>5
<1> QED
  BY <1>1, <1>6 DEF x

LEMMA ModStep ==
  ASSUME NEW m \in Nat \ {0}, NEW n \in Nat
  PROVE  ((n % m) + 1) % m = (n + 1) % m
<1> DEFINE d == n \div m
           r == n % m
<1>1. n = d * m + r /\ r \in 0 .. m - 1 /\ d \in Nat
  BY DivMod
<1> HIDE DEF d, r
<1>2. CASE r + 1 < m
  <2>1. PICK x \in 0 .. m - 1 : x = r + 1
    BY <1>1, <1>2
  <2>2. (d * m + x) % m = x /\ (0 * m + x) % m = x
    BY <1>1, <2>1, ModUnique
  <2>3. n + 1 = d * m + x /\ 0 * m + x = r + 1
    BY <1>1, <2>1
  <2> QED
    BY <2>1, <2>2, <2>3 DEF r
<1>3. CASE r + 1 = m
  <2>1. PICK e \in Nat : e = d + 1
    BY <1>1
  <2>2. 0 \in 0 .. m - 1 /\ 1 \in Nat
    OBVIOUS
  <2>3. (e * m + 0) % m = 0 /\ (1 * m + 0) % m = 0
    BY <2>2, ModUnique
  <2>4. e * m = d * m + m
    BY <1>1, <2>1
  <2>5. n + 1 = e * m + 0 /\ 1 * m + 0 = r + 1
    BY <1>1, <1>3, <2>4
  <2> QED
    BY <2>3, <2>5 DEF r
<1> QED
  BY <1>1, <1>2, <1>3

-----------------------------------------------------------------------------
(* The parts of a packet *)

\* b is what a counter of width SplitWord shows at least m and at most n steps
\* after it showed a.
Lapsed(a, b, m, n) == \E t \in m .. n : b = (a + t) % SplitWord

LEMMA LapsedNone ==
  ASSUME NEW a \in 0 .. SplitWord - 1, NEW n \in Nat
  PROVE  Lapsed(a, a, 0, n)
<1>1. SplitWord \in Nat \ {0} /\ 0 \in 0 .. n
  BY SendAssumption
<1>2. (0 * SplitWord + a) % SplitWord = a
  BY <1>1, ModUnique
<1>3. 0 * SplitWord + a = a + 0
  BY <1>1
<1> QED
  BY <1>1, <1>2, <1>3 DEF Lapsed

LEMMA LapsedMore ==
  ASSUME NEW a, NEW b, NEW m \in Nat, NEW n \in Int, NEW k \in Int,
         n <= k, Lapsed(a, b, m, n)
  PROVE  Lapsed(a, b, m, k)
BY DEF Lapsed

LEMMA LapsedStep ==
  ASSUME NEW a \in Nat, NEW b, NEW m \in Nat, NEW n \in Int, Lapsed(a, b, m, n)
  PROVE  Lapsed(a, (b + 1) % SplitWord, m + 1, n + 1)
<1>1. PICK t \in m .. n : b = (a + t) % SplitWord
  BY DEF Lapsed
<1>2. PICK u \in Nat : u = a + t
  BY <1>1
<1>3. ((u % SplitWord) + 1) % SplitWord = (u + 1) % SplitWord
  BY SendAssumption, ModStep
<1>4. t + 1 \in (m + 1) .. (n + 1) /\ u + 1 = a + (t + 1)
  BY <1>1, <1>2
<1> QED
  BY <1>1, <1>2, <1>3, <1>4 DEF Lapsed

\* It shows something else until it has gone round.
LEMMA LapsedDiffer ==
  ASSUME NEW a \in 0 .. SplitWord - 1, NEW b, NEW n \in Nat, n < SplitWord,
         Lapsed(a, b, 1, n)
  PROVE  a # b
<1>1. PICK t \in 1 .. n : b = (a + t) % SplitWord
  BY DEF Lapsed
<1>2. SplitWord \in Nat \ {0} /\ t \in Nat /\ t >= 1 /\ t < SplitWord
  BY <1>1, SendAssumption
<1>3. CASE a + t < SplitWord
  <2>1. PICK x \in 0 .. SplitWord - 1 : x = a + t
    BY <1>2, <1>3
  <2>2. (0 * SplitWord + x) % SplitWord = x
    BY <1>2, ModUnique
  <2>3. 0 * SplitWord + x = a + t
    BY <1>2, <2>1
  <2> QED
    BY <1>1, <1>2, <2>1, <2>2, <2>3
<1>4. CASE a + t >= SplitWord
  <2>1. PICK x \in 0 .. SplitWord - 1 : x = a + t - SplitWord
    BY <1>2, <1>4
  <2>2. (1 * SplitWord + x) % SplitWord = x
    BY <1>2, ModUnique
  <2>3. 1 * SplitWord + x = a + t
    BY <1>2, <2>1
  <2> QED
    BY <1>1, <1>2, <2>1, <2>2, <2>3
<1> QED
  BY <1>2, <1>3, <1>4

AllParts == {p \in Gone : p.hasSplit}

PartNo(p) == p.splitInfo.compoundIndex
PartsOf(p) == p.splitInfo.compoundSize
SplitOf(p) == p.splitInfo.compoundID

\* Each part by itself.
PartNumbers ==
  \A p \in AllParts :
    /\ p.id < calls /\ PartNo(p) < PartsOf(p)
    /\ PartNo(p) < PartsOf(p) - 1 => p.length = MaxSize
    /\ IsReliable(p) => p.messageIndex \in 0 .. sendReliableIndex - 1
    /\ ~IsReliable(p) => p.messageIndex = NoIndex

\* The IDs: splitID has taken as many steps at most as there were calls.
PartIDs ==
  /\ splitID \in 0 .. SplitWord - 1
  /\ \A p \in AllParts :
       /\ SplitOf(p) \in 0 .. SplitWord - 1
       /\ Lapsed(SplitOf(p), splitID, 0, calls - 1 - p.id)
  /\ \A p, q \in AllParts :
       p.id < q.id => Lapsed(SplitOf(p), SplitOf(q), 1, q.id - p.id)

\* Two parts.
PartsApart ==
  \A p, q \in AllParts :
    /\ p.id = q.id => PartsOf(p) = PartsOf(q)
    /\ p.id = q.id /\ PartNo(p) = PartNo(q) => p = q
    /\ IsReliable(p) /\ p.messageIndex = q.messageIndex => p = q

\* The first n parts of packet k were made.
HasParts(k, n) ==
  \A x \in 0 .. n - 1 : \E q \in AllParts : q.id = k /\ PartNo(q) = x

\* The parts of a packet the loop is done with.
PartsWhole ==
  \A p \in AllParts : ~(pc = "split" /\ packet.id = p.id) => HasParts(p.id, PartsOf(p))

\* The loop: the counter is what is left of the payload, until it wraps round.
InSplit ==
  pc = "split" =>
    /\ packet.id < calls
    /\ \A p \in AllParts :
         /\ p.id = packet.id =>
              PartNo(p) < partIndex /\ PartsOf(p) = PartCount /\ SplitOf(p) = splitID
         /\ p.id # packet.id =>
              p.id < packet.id /\ Lapsed(SplitOf(p), splitID, 1, packet.id - p.id)
    /\ HasParts(packet.id, partIndex)
    /\ \/ i = packet.length - partIndex * MaxSize
       \/ /\ i > 0
          /\ partIndex * MaxSize - MaxSize < packet.length
          /\ packet.length < partIndex * MaxSize

PartsInv == PartNumbers /\ PartIDs /\ PartsApart /\ PartsWhole /\ InSplit

LEMMA PartsTyped ==
  ASSUME TypeOK
  PROVE  /\ \A p \in AllParts : /\ p \in PacketType /\ p.hasSplit
                                /\ p.id \in Nat /\ p.messageIndex \in Int
                                /\ PartNo(p) \in Nat /\ PartsOf(p) \in Nat
                                /\ SplitOf(p) \in Nat
         /\ calls \in Nat /\ splitID \in Nat /\ partIndex \in Nat
         /\ sendReliableIndex \in Nat /\ i \in Nat
         /\ pc = "split" => packet.id \in Nat /\ packet.length \in Nat
<1>1. \A p \in AllParts : p \in PacketType /\ p.hasSplit
  BY PacketsTyped DEF AllParts
<1>2. \A p \in PacketType : /\ p.id \in Nat /\ p.messageIndex \in Int
                            /\ PartNo(p) \in Nat /\ PartsOf(p) \in Nat
                            /\ SplitOf(p) \in Nat /\ p.length \in Nat
  BY DEF PacketType, PartNo, PartsOf, SplitOf
<1>3. /\ calls \in Nat /\ splitID \in Nat /\ partIndex \in Nat
      /\ sendReliableIndex \in Nat /\ i \in Nat
      /\ pc = "split" => packet \in PacketType
  BY SendAssumption DEF TypeOK
<1> QED
  BY <1>1, <1>2, <1>3

\* Another call leaves the IDs as they are.
LEMMA CallsGoOn ==
  ASSUME TypeOK, PartsInv, calls' \in {calls, calls + 1}
  PROVE  \A p \in AllParts : Lapsed(SplitOf(p), splitID, 0, calls' - 1 - p.id)
<1> SUFFICES ASSUME NEW p \in AllParts
             PROVE  Lapsed(SplitOf(p), splitID, 0, calls' - 1 - p.id)
  OBVIOUS
<1>1. p.id \in Nat /\ calls \in Nat
  BY PartsTyped
<1>2. PICK n \in Int : n = calls - 1 - p.id
  BY <1>1
<1>3. PICK k \in Int : k = calls' - 1 - p.id
  BY <1>1
<1>4. Lapsed(SplitOf(p), splitID, 0, n) /\ n <= k
  BY <1>1, <1>2, <1>3 DEF PartsInv, PartIDs
<1> QED
  BY <1>3, <1>4, LapsedMore

\* Steps outside the loop make no parts.
LEMMA PartsStay ==
  ASSUME TypeOK, PartsInv, pc = "idle", pc' = "idle", AllParts' = AllParts,
         sendReliableIndex' = sendReliableIndex, splitID' = splitID,
         calls' \in {calls, calls + 1}
  PROVE  PartsInv'
<1>1. \A p \in AllParts : p.id < calls'
  BY PartsTyped DEF PartsInv, PartNumbers
<1>2. PartNumbers'
  BY <1>1 DEF PartsInv, PartNumbers
<1>3. PartsApart'
  BY DEF PartsInv, PartsApart
<1>4. PartsWhole'
  BY DEF PartsInv, PartsWhole, HasParts
<1>5. InSplit'
  BY DEF InSplit
<1>6. PartIDs'
  BY CallsGoOn DEF PartsInv, PartIDs
<1> QED
  BY <1>2, <1>3, <1>4, <1>5, <1>6 DEF PartsInv

LEMMA CallParts ==
  ASSUME TypeOK, OnceInv, PartsInv, NEW c \in Call, SendEncapsulated(c)
  PROVE  PartsInv'
<1> USE DEF indexVars, datagramVars, queueVars, loopVars
<1>1. /\ pc = "idle" /\ calls' = calls + 1 /\ sendReliableIndex' = sendReliableIndex
  BY DEF SendEncapsulated, RefuseCall, SendImmediate, QueueForUpdate, QueueUntilFull,
         BeginSplit, SendWhole, TakeCall, BeginCall, UseIndices
<1>2. \/ BeginSplit(c)
      \/ UNCHANGED <<wire, lost, splitID, pc>>
      \/ SendDatagram(<<NewPacket(c)>>) /\ TakeCall(c) /\ UNCHANGED <<splitID, pc>>
      \/ SendDatagram(normalQueue) /\ UNCHANGED <<splitID, pc>>
  BY DEF SendEncapsulated, RefuseCall, SendImmediate, QueueForUpdate, QueueUntilFull,
         SendWhole
<1>3. CASE UNCHANGED <<wire, lost, splitID, pc>>
  <2>1. AllParts' = AllParts
    BY <1>3 DEF AllParts, Gone
  <2> QED
    BY <1>1, <1>3, <2>1, PartsStay
<1>4. CASE SendDatagram(<<NewPacket(c)>>) /\ TakeCall(c) /\ UNCHANGED <<splitID, pc>>
  <2>1. PICK x : x = NewPacket(c)
    OBVIOUS
  <2>2. x \in PacketType /\ ~x.hasSplit /\ <<x>> \in Seq(PacketType)
    BY <1>4, <2>1, NewIsNew, CallTypes
  <2>3. Gone' = Gone \cup {x}
    <3>1. Range(<<x>>) = {x}
      BY RangeAlone
    <3>2. SendDatagram(<<x>>)
      BY <1>4, <2>1
    <3> QED
      BY <2>2, <3>1, <3>2, SendDatagramGone
  <2>4. AllParts' = AllParts
    BY <2>2, <2>3 DEF AllParts
  <2> QED
    BY <1>1, <1>4, <2>4, PartsStay
<1>5. CASE SendDatagram(normalQueue) /\ UNCHANGED <<splitID, pc>>
  <2>1. Gone' = Gone \cup Range(normalQueue)
    BY <1>5, SendDatagramGone DEF TypeOK
  <2>2. AllParts' = AllParts
    BY <2>1 DEF AllParts, OnceInv, Waiting
  <2> QED
    BY <1>1, <1>5, <2>2, PartsStay
<1>6. CASE BeginSplit(c)
  <2>1. /\ TakeCall(c) /\ UNCHANGED <<wire, lost>> /\ splitID' = (splitID + 1) % SplitWord
        /\ packet' = NewPacket(c) /\ i' = c.length /\ partIndex' = 0 /\ pc' = "split"
    BY <1>6 DEF BeginSplit
  <2>2. packet'.id = calls /\ packet'.length = c.length
    BY <2>1 DEF NewPacket
  <2>3. AllParts' = AllParts
    BY <2>1 DEF AllParts, Gone
  <2>4. \A p \in AllParts : p.id < calls' /\ p.id < calls
    BY <1>1, <2>1, PartsTyped DEF PartsInv, PartNumbers
  <2>5. PartNumbers'
    BY <1>1, <2>1, <2>3, <2>4, PartsTyped DEF PartsInv, PartNumbers
  <2>11. \A p \in AllParts :
           /\ Lapsed(SplitOf(p), splitID', 1, calls - p.id)
           /\ Lapsed(SplitOf(p), splitID', 0, calls' - 1 - p.id)
    <3> SUFFICES ASSUME NEW p \in AllParts
                 PROVE  /\ Lapsed(SplitOf(p), splitID', 1, calls - p.id)
                        /\ Lapsed(SplitOf(p), splitID', 0, calls - p.id)
      BY <1>1, PartsTyped
    <3>1. /\ SplitOf(p) \in Nat /\ p.id \in Nat /\ calls \in Nat
          /\ Lapsed(SplitOf(p), splitID, 0, calls - 1 - p.id)
      BY PartsTyped DEF PartsInv, PartIDs
    <3>2. PICK n \in Int : n = calls - 1 - p.id
      BY <3>1
    <3>3. n + 1 = calls - p.id /\ 0 + 1 = 1
      BY <3>1, <3>2
    <3>4. Lapsed(SplitOf(p), splitID', 0 + 1, n + 1)
      BY <2>1, <3>1, <3>2, LapsedStep
    <3> QED
      BY <3>3, <3>4 DEF Lapsed
  <2>12. PartIDs'
    <3>1. splitID' \in 0 .. SplitWord - 1
      BY <2>1, SendAssumption, PartsTyped
    <3> QED
      BY <2>3, <2>11, <3>1 DEF PartsInv, PartIDs
  <2>6. PartsApart'
    BY <2>3 DEF PartsInv, PartsApart
  <2>7. PartsWhole'
    BY <1>1, <2>3 DEF PartsInv, PartsWhole, HasParts
  <2>8. HasParts(packet.id, partIndex)'
    BY <2>1 DEF HasParts
  <2>9. i' = packet'.length - partIndex' * MaxSize
    BY <2>1, <2>2, MaxSizeType, SendAssumption DEF CallType
  <2>10. InSplit'
    <3> HIDE DEF PartCount
    <3>1. packet'.id < calls'
      BY <1>1, <2>2, PartsTyped
    <3> QED
      BY <2>2, <2>3, <2>4, <2>8, <2>9, <2>11, <3>1, PartsTyped DEF InSplit
  <2> QED
    BY <2>5, <2>6, <2>7, <2>10, <2>12 DEF PartsInv
<1> QED
  BY <1>2, <1>3, <1>4, <1>5, <1>6

\* A round of the loop finds the counter where it should be: once it has wrapped
\* round, nothing is left to read.
LEMMA RoundCounts ==
  ASSUME TypeOK, InSplit, SendPart
  PROVE  /\ i = packet.length - partIndex * MaxSize
         /\ partIndex < PartCount
         /\ partIndex < PartCount - 1 => PartLength = MaxSize
         /\ \/ i' = packet.length - (partIndex + 1) * MaxSize
            \/ /\ i' > 0
               /\ (partIndex + 1) * MaxSize - MaxSize < packet.length
               /\ packet.length < (partIndex + 1) * MaxSize
<1>1. /\ pc = "split" /\ i > 0 /\ PartLength <= Unread /\ i' = (i - MaxSize) % Word
      /\ i \in Nat /\ i < Word /\ partIndex \in Nat /\ packet.length \in Nat
  <2>1. pc = "split" /\ i > 0 /\ PartLength <= Unread /\ i' = (i - MaxSize) % Word
    BY DEF SendPart
  <2>2. i \in Nat /\ i < Word
    BY SendAssumption DEF TypeOK
  <2> QED
    BY <2>1, <2>2, PartsTyped
<1>2. PICK m : m = MaxSize
  OBVIOUS
<1>3. m \in Nat \ {0} /\ Word \in Nat /\ m < Word
  BY <1>2, MaxSizeType, SendAssumption DEF MaxSize
<1>4. PICK b \in Nat : b = partIndex * m
  BY <1>1, <1>3
<1>5. (partIndex + 1) * m = b + m
  BY <1>1, <1>3, <1>4
<1>6. PICK u : u = packet.length - partIndex * MaxSize
  OBVIOUS
<1>7. u = packet.length - b
  BY <1>2, <1>4, <1>6
<1>8. i = packet.length - b
  <2> SUFFICES ASSUME packet.length < b PROVE FALSE
    BY <1>1, <1>2, <1>4 DEF InSplit
  <2>1. Unread = 0
    <3>1. Unread = Max({0, u})
      BY <1>6 DEF Unread
    <3>2. {0, u} \subseteq Int /\ u < 0
      BY <1>1, <1>7
    <3>3. \E x \in {0, u} : \A y \in {0, u} : x >= y
      BY <3>2
    <3>4. Max({0, u}) \in {0, u} /\ \A y \in {0, u} : Max({0, u}) >= y
      BY <3>3 DEF Max
    <3> QED
      BY <3>1, <3>2, <3>4
  <2>2. PartLength > 0
    BY <1>1, <1>2, <1>3 DEF PartLength
  <2> QED
    BY <1>1, <1>2, <1>3, <2>1, <2>2 DEF PartLength
<1>9. CASE i >= m
  <2>1. i' = i - m
    BY <1>1, <1>3, <1>9, <1>2
  <2>2. PartLength = m
    BY <1>2, <1>9 DEF PartLength
  <2>3. partIndex < PartCount
    <3>1. PICK d, r : d = packet.length \div m /\ r = packet.length % m
      OBVIOUS
    <3>2. packet.length = d * m + r /\ r \in 0 .. m - 1 /\ d \in Nat
      BY <1>1, <1>3, <3>1, DivMod
    <3>3. ~(d < partIndex + 1)
      <4> SUFFICES ASSUME d < partIndex + 1 PROVE FALSE
        OBVIOUS
      <4>1. d * m + m <= (partIndex + 1) * m
        BY <1>1, <1>3, <3>2, MultiplesGrow
      <4> QED
        BY <1>1, <1>3, <1>5, <1>8, <1>9, <3>2, <4>1
    <3>4. PartCount >= d
      BY <1>2, <3>1, <3>2 DEF PartCount
    <3> QED
      BY <1>1, <1>2, <3>1, <3>2, <3>3, <3>4 DEF PartCount
  <2> QED
    BY <1>1, <1>2, <1>3, <1>4, <1>5, <1>8, <2>1, <2>2, <2>3
<1>10. CASE i < m
  <2>1. i' = i - m + Word
    <3>1. i - m + Word \in 0 .. Word - 1
      BY <1>1, <1>3, <1>10
    <3> QED
      BY <1>1, <1>2, <1>3, <1>10, <3>1
  <2>2. i' > 0
    BY <1>1, <1>3, <1>10, <2>1
  <2>3. (partIndex + 1) * m - m < packet.length /\ packet.length < (partIndex + 1) * m
    BY <1>1, <1>3, <1>5, <1>8, <1>10
  <2>4. PartCount = partIndex + 1
    <3>1. packet.length \div m + (IF packet.length % m > 0 THEN 1 ELSE 0) = partIndex + 1
      <4>1. PICK k \in Nat : k = partIndex + 1
        BY <1>1
      <4>2. PICK n \in Nat : n = packet.length
        BY <1>1
      <4>3. k * m - m < n /\ n <= k * m
        BY <1>3, <2>3, <4>1, <4>2
      <4>4. n \div m + (IF n % m > 0 THEN 1 ELSE 0) = k
        BY <1>3, <4>3, PieceCount
      <4> QED
        BY <4>1, <4>2, <4>4
    <3> QED
      BY <1>2, <3>1 DEF PartCount
  <2> QED
    BY <1>1, <1>2, <1>3, <1>4, <1>8, <2>2, <2>3, <2>4
<1> QED
  BY <1>1, <1>3, <1>9, <1>10

\* The loop ends with all the parts there should be.
LEMMA LoopEnds ==
  ASSUME TypeOK, InSplit, EndSplit \/ SplitThrows
  PROVE  PartCount = partIndex
<1>1. /\ pc = "split" /\ i \in Nat /\ partIndex \in Nat /\ packet.length \in Nat
  BY PartsTyped DEF EndSplit, SplitThrows
<1>2. PICK m : m = MaxSize
  OBVIOUS
<1>3. m \in Nat \ {0}
  BY <1>2, MaxSizeType
<1>4. PICK b \in Nat : b = partIndex * m
  BY <1>1, <1>3
<1>5. PICK u : u = packet.length - partIndex * MaxSize
  OBVIOUS
<1>6. packet.length <= b /\ b - m < packet.length
  <2>1. CASE EndSplit
    BY <1>1, <1>2, <1>3, <1>4, <2>1 DEF EndSplit, InSplit
  <2>2. CASE SplitThrows
    <3>1. i > 0 /\ PartLength > Unread
      BY <2>2 DEF SplitThrows
    <3>2. i # packet.length - b
      <4> SUFFICES ASSUME i = packet.length - b PROVE FALSE
        OBVIOUS
      <4>1. u = i
        BY <1>2, <1>4, <1>5
      <4>2. Unread = Max({0, u})
        BY <1>5 DEF Unread
      <4>3. {0, u} \subseteq Int /\ \E x \in {0, u} : \A y \in {0, u} : x >= y
        BY <1>1, <4>1
      <4>4. Max({0, u}) \in {0, u} /\ \A y \in {0, u} : Max({0, u}) >= y
        BY <4>3 DEF Max
      <4>5. Unread = i
        BY <1>1, <3>1, <4>1, <4>2, <4>4
      <4> QED
        BY <1>1, <1>2, <1>3, <3>1, <4>5 DEF PartLength
    <3> QED
      BY <1>1, <1>2, <1>4, <3>2 DEF InSplit
  <2> QED
    BY <2>1, <2>2
<1>7. packet.length \div m + (IF packet.length % m > 0 THEN 1 ELSE 0) = partIndex
  BY <1>1, <1>3, <1>4, <1>6, PieceCount
<1> QED
  BY <1>2, <1>7 DEF PartCount

LEMMA SendPartParts ==
  ASSUME TypeOK, OnceInv, PartsInv, SendPart
  PROVE  PartsInv'
<1>1. PICK x : x = Part
  OBVIOUS
<1>2. PICK n : n = PartCount
  OBVIOUS
<1>3. /\ pc = "split" /\ partIndex' = partIndex + 1
      /\ UNCHANGED <<pc, packet, calls, splitID>>
      /\ sendReliableIndex' = IF IsReliable(packet) THEN sendReliableIndex + 1
                                                    ELSE sendReliableIndex
  BY DEF SendPart, NextReliableIndex
<1>4. PartCount' = n
  BY <1>2, <1>3 DEF PartCount
<1>5. /\ x.id = packet.id /\ x.hasSplit /\ x.length = PartLength
      /\ PartNo(x) = partIndex /\ SplitOf(x) = splitID /\ PartsOf(x) = n
      /\ x.messageIndex = IF IsReliable(packet) THEN sendReliableIndex ELSE NoIndex
      /\ IsReliable(x) <=> IsReliable(packet)
  BY <1>1, <1>2, <1>3, PartIs DEF PartNo, SplitOf, PartsOf, IsReliable
<1>6. AllParts' = AllParts \cup {x}
  BY <1>1, <1>5, SendPartOnce DEF AllParts
<1>7. /\ packet.id \in Nat /\ packet.id < calls /\ calls \in Nat /\ splitID \in Nat
      /\ partIndex \in Nat /\ sendReliableIndex \in Nat
      /\ packet.length \in Nat
  BY <1>3, PartsTyped DEF PartsInv, InSplit
<1>8. /\ partIndex < n
      /\ partIndex < n - 1 => PartLength = MaxSize
      /\ \/ i' = packet.length - (partIndex + 1) * MaxSize
         \/ /\ i' > 0
            /\ (partIndex + 1) * MaxSize - MaxSize < packet.length
            /\ packet.length < (partIndex + 1) * MaxSize
  BY <1>2, RoundCounts DEF PartsInv
<1>9. \A p \in AllParts :
        /\ p.id = packet.id => PartNo(p) < partIndex /\ PartsOf(p) = n /\ SplitOf(p) = splitID
        /\ p.id # packet.id =>
             p.id < packet.id /\ Lapsed(SplitOf(p), splitID, 1, packet.id - p.id)
        /\ p.id \in Nat /\ PartNo(p) \in Nat /\ SplitOf(p) \in Nat /\ PartsOf(p) \in Nat /\ p.messageIndex \in Int
  BY <1>2, <1>3, PartsTyped DEF PartsInv, InSplit
<1>10. NoIndex \in Int /\ NoIndex < 0
  BY DEF NoIndex
<1> HIDE DEF Part, PartCount, PartLength, NoIndex, AllParts
<1>11. PartNumbers'
  <2>1. \A p \in AllParts :
          /\ p.id < calls /\ PartNo(p) < PartsOf(p)
          /\ PartNo(p) < PartsOf(p) - 1 => p.length = MaxSize
          /\ IsReliable(p) => p.messageIndex \in 0 .. sendReliableIndex' - 1
          /\ ~IsReliable(p) => p.messageIndex = NoIndex
    BY <1>3, <1>7, <1>9 DEF PartsInv, PartNumbers
  <2>2. /\ x.id < calls /\ PartNo(x) < PartsOf(x)
        /\ PartNo(x) < PartsOf(x) - 1 => x.length = MaxSize
        /\ IsReliable(x) => x.messageIndex \in 0 .. sendReliableIndex' - 1
        /\ ~IsReliable(x) => x.messageIndex = NoIndex
    BY <1>3, <1>5, <1>7, <1>8
  <2> QED
    BY <1>3, <1>6, <2>1, <2>2 DEF PartNumbers
<1>16. PartIDs'
  <2>1. splitID \in 0 .. SplitWord - 1 /\ SplitOf(x) \in 0 .. SplitWord - 1
    BY <1>5 DEF PartsInv, PartIDs
  <2>2. Lapsed(SplitOf(x), splitID, 0, calls - 1 - x.id)
    <3>1. PICK k \in Nat : k = calls - 1 - x.id
      BY <1>5, <1>7
    <3> QED
      BY <1>5, <2>1, <3>1, LapsedNone
  <2>3. \A p \in AllParts : ~(x.id < p.id) /\
          (p.id < x.id => Lapsed(SplitOf(p), SplitOf(x), 1, x.id - p.id))
    BY <1>5, <1>7, <1>9
  <2> QED
    BY <1>3, <1>5, <1>6, <1>7, <2>1, <2>2, <2>3 DEF PartsInv, PartIDs
<1>12. PartsApart'
  <2>1. \A p \in AllParts :
          p.id = x.id => PartsOf(p) = PartsOf(x) /\ PartNo(p) # PartNo(x)
    BY <1>5, <1>7, <1>9
  <2>2. \A p \in AllParts : IsReliable(p) \/ IsReliable(x) => p.messageIndex # x.messageIndex
    <3> SUFFICES ASSUME NEW p \in AllParts, p.messageIndex = x.messageIndex,
                        IsReliable(p) \/ IsReliable(x)
                 PROVE  FALSE
      OBVIOUS
    <3>1. /\ IsReliable(p) => p.messageIndex \in 0 .. sendReliableIndex - 1
          /\ ~IsReliable(p) => p.messageIndex = NoIndex
      BY DEF PartsInv, PartNumbers
    <3> QED
      BY <1>5, <1>7, <1>10, <3>1
  <2>3. \A p, q \in AllParts :
          /\ p.id = q.id => PartsOf(p) = PartsOf(q)
          /\ p.id = q.id /\ PartNo(p) = PartNo(q) => p = q
          /\ IsReliable(p) /\ p.messageIndex = q.messageIndex => p = q
    BY DEF PartsInv, PartsApart
  <2> QED
    BY <1>6, <2>1, <2>2, <2>3 DEF PartsApart
<1>13. PartsWhole'
  <2> SUFFICES ASSUME NEW p \in AllParts', packet.id # p.id
               PROVE  HasParts(p.id, PartsOf(p))'
    BY <1>3 DEF PartsWhole
  <2>1. p \in AllParts /\ HasParts(p.id, PartsOf(p))
    BY <1>5, <1>6 DEF PartsInv, PartsWhole
  <2> QED
    BY <1>6, <2>1 DEF HasParts
<1>14. HasParts(packet.id, partIndex)'
  <2> SUFFICES ASSUME NEW y \in 0 .. partIndex
               PROVE  \E q \in AllParts' : q.id = packet.id /\ PartNo(q) = y
    BY <1>3, <1>7 DEF HasParts
  <2>1. CASE y = partIndex
    BY <1>5, <1>6, <2>1
  <2>2. CASE y # partIndex
    <3>1. y \in 0 .. partIndex - 1 /\ HasParts(packet.id, partIndex)
      BY <1>3, <1>7, <2>2 DEF PartsInv, InSplit
    <3> QED
      BY <1>6, <3>1 DEF HasParts
  <2> QED
    BY <2>1, <2>2
<1>15. InSplit'
  <2>1. \A p \in AllParts' :
          /\ p.id = packet.id =>
               PartNo(p) < partIndex + 1 /\ PartsOf(p) = n /\ SplitOf(p) = splitID
          /\ p.id # packet.id =>
               p.id < packet.id /\ Lapsed(SplitOf(p), splitID, 1, packet.id - p.id)
    BY <1>5, <1>6, <1>7, <1>9
  <2>2. MaxSize' = MaxSize
    BY DEF MaxSize
  <2> HIDE DEF MaxSize
  <2> QED
    BY <1>3, <1>4, <1>7, <1>8, <1>14, <2>1, <2>2 DEF InSplit
<1> QED
  BY <1>11, <1>12, <1>13, <1>15, <1>16 DEF PartsInv

LEMMA LoopEndParts ==
  ASSUME TypeOK, PartsInv, EndSplit \/ SplitThrows
  PROVE  PartsInv'
<1>1. /\ pc = "split" /\ pc' = "idle"
      /\ UNCHANGED <<wire, lost, splitID, sendReliableIndex, calls>>
  BY DEF EndSplit, SplitThrows, indexVars, datagramVars
<1>2. AllParts' = AllParts
  BY <1>1 DEF AllParts, Gone
<1>3. PartCount = partIndex
  BY LoopEnds DEF PartsInv
<1> HIDE DEF AllParts, PartCount
<1>4. PartsWhole'
  <2> SUFFICES ASSUME NEW p \in AllParts PROVE HasParts(p.id, PartsOf(p))
    BY <1>2 DEF PartsWhole, HasParts
  <2>1. CASE p.id = packet.id
    <3>1. PartsOf(p) = partIndex /\ HasParts(packet.id, partIndex)
      BY <1>1, <1>3, <2>1 DEF PartsInv, InSplit
    <3> QED
      BY <2>1, <3>1
  <2>2. CASE p.id # packet.id
    BY <2>2 DEF PartsInv, PartsWhole
  <2> QED
    BY <2>1, <2>2
<1>5. PartNumbers' /\ PartIDs' /\ PartsApart'
  BY <1>1, <1>2 DEF PartsInv, PartNumbers, PartIDs, PartsApart
<1>6. InSplit'
  BY <1>1 DEF InSplit
<1> QED
  BY <1>4, <1>5, <1>6 DEF PartsInv

LEMMA SameParts ==
  ASSUME PartsInv, UNCHANGED <<indexVars, wire, lost, loopVars, calls>>
  PROVE  PartsInv'
<1>1. AllParts' = AllParts
  BY DEF AllParts, Gone
<1>2. PartCount' = PartCount
  BY DEF PartCount, loopVars
<1> HIDE DEF AllParts, PartCount
<1> QED
  BY <1>1, <1>2 DEF PartsInv, PartNumbers, PartIDs, PartsApart, PartsWhole, InSplit,
                    HasParts, indexVars, loopVars

LEMMA InitParts == Init => PartsInv
<1> SUFFICES ASSUME Init PROVE PartsInv
  OBVIOUS
<1>1. AllParts = {} /\ pc = "idle" /\ splitID \in 0 .. SplitWord - 1
  BY SendAssumption DEF Init, AllParts, Gone
<1> QED
  BY <1>1 DEF PartsInv, PartNumbers, PartIDs, PartsApart, PartsWhole, InSplit

LEMMA NextParts == TypeOK /\ OnceInv /\ PartsInv /\ [Next]_vars => PartsInv'
<1> SUFFICES ASSUME TypeOK, OnceInv, PartsInv, [Next]_vars PROVE PartsInv'
  OBVIOUS
<1>1. ASSUME NEW c \in Call, SendEncapsulated(c)
      PROVE  PartsInv'
  BY <1>1, CallParts
<1>2. CASE SendPart
  BY <1>2, SendPartParts
<1>3. CASE SplitThrows \/ EndSplit
  BY <1>3, LoopEndParts
<1>4. CASE Update
  <2>1. /\ pc = "idle" /\ UNCHANGED <<pc, splitID, sendReliableIndex, calls>>
        /\ Gone' = Gone \cup Range(updateQueue)
    BY <1>4, UpdateOnce DEF Update, indexVars, loopVars
  <2>2. AllParts' = AllParts
    BY <2>1 DEF AllParts, OnceInv, Waiting
  <2> QED
    BY <2>1, <2>2, PartsStay
<1>5. ASSUME NEW S, HandleACK(S) \/ HandleNACK(S)
      PROVE  PartsInv'
  BY <1>5, SameParts DEF HandleACK, HandleNACK, Names
<1>6. CASE UNCHANGED vars
  BY <1>6, SameParts DEF vars, datagramVars
<1> QED
  BY <1>1, <1>2, <1>3, <1>4, <1>5, <1>6 DEF Next

\* As many parts as numbers.
LEMMA PartsCounted ==
  ASSUME TypeOK, PartsInv, NEW k \in Nat, NEW n \in Nat,
         \A p \in Parts(k) : PartNo(p) \in 0 .. n - 1,
         \A x \in 0 .. n - 1 : \E p \in Parts(k) : PartNo(p) = x
  PROVE  Cardinality(Parts(k)) = n
<1> DEFINE P == Parts(k)
           f == [p \in P |-> PartNo(p)]
<1>1. \A p, q \in P : PartNo(p) = PartNo(q) => p = q
  BY DEF PartsInv, PartsApart, AllParts, Parts
<1> HIDE DEF P
<1>2. f \in [P -> 0 .. n - 1]
  BY DEF P
<1>3. f \in Injection(P, 0 .. n - 1)
  BY <1>1, <1>2 DEF Injection, IsInjective
<1>4. f \in Surjection(P, 0 .. n - 1)
  BY <1>2 DEF Surjection, P
<1>5. IsFiniteSet(0 .. n - 1) /\ Cardinality(0 .. n - 1) = n
  BY FS_Interval
<1> HIDE DEF f
<1>6. Cardinality(P) = Cardinality(0 .. n - 1)
  BY <1>3, <1>4, <1>5, FS_Injection
<1> QED
  BY <1>5, <1>6 DEF P

\* When the loop is done with a packet, its parts are all there and are what they
\* say they are, for every length and MTU, whether the loop ends or its counter
\* wraps round and the read throws; their ID is theirs alone until the IDs have gone
\* round; no two parts share a message index
\* (sendEncapsulated, lines 168-199).
THEOREM PartsAreComplete == Spec => []PartsComplete
<1>1. Init => TypeOK /\ OnceInv /\ PartsInv
  BY InitType, InitOnce, InitParts
<1>2. TypeOK /\ OnceInv /\ PartsInv /\ [Next]_vars => (TypeOK /\ OnceInv /\ PartsInv)'
  BY NextType, NextOnce, NextParts
<1>3. TypeOK /\ PartsInv => SplitComplete
  <2> SUFFICES ASSUME TypeOK, PartsInv, NEW k \in 0 .. calls - 1,
                      Parts(k) # {}, ~(pc = "split" /\ packet.id = k)
               PROVE
      /\ \A p \in Parts(k) : p.splitInfo.compoundSize = Cardinality(Parts(k))
      /\ {p.splitInfo.compoundIndex : p \in Parts(k)} = 0 .. Cardinality(Parts(k)) - 1
      /\ \A p \in Parts(k) :
           p.splitInfo.compoundIndex < p.splitInfo.compoundSize - 1 => p.length = MaxSize
      /\ \A j \in 0 .. calls - 1 : \A p \in Parts(k), q \in Parts(j) :
           j < k /\ k - j < SplitWord =>
             p.splitInfo.compoundID # q.splitInfo.compoundID
    BY DEF SplitComplete
  <2>1. /\ \A j : \A p \in Parts(j) : p \in AllParts /\ p.id = j
        /\ \A p \in AllParts : p.id = k => p \in Parts(k)
    BY DEF Parts, AllParts
  <2>2. PICK r \in Parts(k) : TRUE
    OBVIOUS
  <2>3. PICK n \in Nat : n = PartsOf(r)
    BY <2>1, PartsTyped
  <2>4. \A p \in Parts(k) : PartsOf(p) = n /\ PartNo(p) \in 0 .. n - 1
    BY <2>1, <2>3, PartsTyped DEF PartsInv, PartsApart, PartNumbers
  <2>5. \A x \in 0 .. n - 1 : \E p \in Parts(k) : PartNo(p) = x
    BY <2>1, <2>3 DEF PartsInv, PartsWhole, HasParts
  <2>6. Cardinality(Parts(k)) = n
    BY <2>4, <2>5, PartsCounted
  <2>7. {p.splitInfo.compoundIndex : p \in Parts(k)} = 0 .. n - 1
    BY <2>4, <2>5 DEF PartNo
  <2>8. \A p \in Parts(k) :
           p.splitInfo.compoundIndex < p.splitInfo.compoundSize - 1 => p.length = MaxSize
    BY <2>1 DEF PartsInv, PartNumbers, PartNo, PartsOf
  <2>9. \A j \in 0 .. calls - 1 : \A p \in Parts(k), q \in Parts(j) :
           j < k /\ k - j < SplitWord =>
             p.splitInfo.compoundID # q.splitInfo.compoundID
    <3> SUFFICES ASSUME NEW j \in 0 .. calls - 1, NEW p \in Parts(k), NEW q \in Parts(j),
                        j < k, k - j < SplitWord
                 PROVE  SplitOf(q) # SplitOf(p)
      BY DEF SplitOf
    <3>1. /\ SplitOf(q) \in 0 .. SplitWord - 1
          /\ Lapsed(SplitOf(q), SplitOf(p), 1, k - j)
      BY <2>1 DEF PartsInv, PartIDs
    <3>2. PICK m \in Nat : m = k - j
      BY PartsTyped
    <3> QED
      BY <3>1, <3>2, LapsedDiffer
  <2> QED
    BY <2>4, <2>6, <2>7, <2>8, <2>9 DEF PartsOf
<1>4. PartsInv => PartsDistinct
  BY DEF PartsInv, PartsApart, PartsDistinct, Parts, AllParts
<1>5. TypeOK /\ PartsInv => PartsComplete
  BY <1>3, <1>4 DEF PartsComplete
<1> QED
  BY <1>1, <1>2, <1>5, PTL DEF Spec

-----------------------------------------------------------------------------
(* The length of a queue *)

LEMMA SumsExist ==
  ASSUME NEW n \in Nat, NEW g
  PROVE  \E f : f = [k \in 0 .. n |-> IF k = 0 THEN 0 ELSE f[k - 1] + g[k]]
<1> DEFINE Good(m) == \E f : f = [k \in 0 .. m |-> IF k = 0 THEN 0 ELSE f[k - 1] + g[k]]
           T == {m \in Nat : ~Good(m)}
<1>1. SUFFICES ASSUME T # {} PROVE FALSE
  BY <1>1
<1>2. PICK m \in T : \A y \in T : m <= y
  <2>1. T \in SUBSET Nat
    OBVIOUS
  <2> HIDE DEF T
  <2> QED
    BY <1>1, <2>1, LeastNatural
<1>3. CASE m = 0
  <2> DEFINE f == [k \in 0 .. 0 |-> 0]
  <2>1. f = [k \in 0 .. 0 |-> IF k = 0 THEN 0 ELSE f[k - 1] + g[k]]
    OBVIOUS
  <2> QED
    BY <1>3, <2>1
<1>4. CASE m # 0
  <2>1. m - 1 \in Nat /\ ~(m <= m - 1)
    BY <1>4
  <2>2. Good(m - 1)
    BY <1>2, <2>1
  <2>3. PICK f : f = [k \in 0 .. m - 1 |-> IF k = 0 THEN 0 ELSE f[k - 1] + g[k]]
    BY <2>2
  <2> DEFINE h == [k \in 0 .. m |-> IF k = m THEN f[m - 1] + g[m] ELSE f[k]]
  <2>4. \A k \in 0 .. m : h[k] = IF k = 0 THEN 0 ELSE h[k - 1] + g[k]
    <3> SUFFICES ASSUME NEW k \in 0 .. m
                 PROVE  h[k] = IF k = 0 THEN 0 ELSE h[k - 1] + g[k]
      OBVIOUS
    <3>1. CASE k = m
      BY <1>4, <2>1, <3>1
    <3>2. CASE k # m /\ k # 0
      <4>1. k \in 0 .. m - 1 /\ k - 1 \in 0 .. m - 1 /\ k - 1 # m /\ k - 1 \in 0 .. m
        BY <2>1, <3>2
      <4>2. f[k] = f[k - 1] + g[k]
        BY <2>3, <3>2, <4>1
      <4> QED
        BY <3>2, <4>1, <4>2
    <3>3. CASE k = 0
      <4>1. 0 \in 0 .. m - 1
        BY <2>1
      <4>2. f[0] = 0
        BY <2>3, <4>1
      <4> QED
        BY <1>4, <3>3, <4>2
    <3> QED
      BY <3>1, <3>2, <3>3
  <2>5. h = [k \in 0 .. m |-> IF k = 0 THEN 0 ELSE h[k - 1] + g[k]]
    BY <2>4
  <2> QED
    BY <2>5
<1> QED
  BY <1>3, <1>4

\* What the sums of getTotalLength's loop are: the loop's own equations.
IsSum(f, q) ==
  f = [k \in 0 .. Len(q) |-> IF k = 0 THEN 0 ELSE f[k - 1] + GetLength(q[k])]

LEMMA LengthIs ==
  ASSUME NEW q, q \in Seq(PacketType)
  PROVE  \E f : IsSum(f, q) /\ PacketsLength(q) = f[Len(q)]
<1> DEFINE s == CHOOSE f : f = [k \in 0 .. Len(q) |-> IF k = 0 THEN 0 ELSE f[k - 1] + GetLength(q[k])]
           g == [k \in 1 .. Len(q) |-> GetLength(q[k])]
<1>1. PacketsLength(q) = s[Len(q)]
  BY DEF PacketsLength
<1>2. \E f : IsSum(f, q)
  <2>1. Len(q) \in Nat
    OBVIOUS
  <2>2. PICK f : f = [k \in 0 .. Len(q) |-> IF k = 0 THEN 0 ELSE f[k - 1] + g[k]]
    <3> HIDE DEF g
    <3> QED
      BY <2>1, SumsExist
  <2>3. \A k \in 0 .. Len(q) : k # 0 => g[k] = GetLength(q[k])
    BY <2>1
  <2> HIDE DEF g
  <2>4. [k \in 0 .. Len(q) |-> IF k = 0 THEN 0 ELSE f[k - 1] + g[k]]
          = [k \in 0 .. Len(q) |-> IF k = 0 THEN 0 ELSE f[k - 1] + GetLength(q[k])]
    BY <2>3
  <2> QED
    BY <2>2, <2>4 DEF IsSum
<1>3. IsSum(s, q)
  BY <1>2 DEF IsSum
<1> QED
  BY <1>1, <1>3

LEMMA PacketLength ==
  ASSUME NEW p \in PacketType
  PROVE  /\ GetLength(p) \in Nat /\ GetLength(p) >= p.length + 3
         /\ ~p.hasSplit => GetLength(p) <= p.length + 13
<1>1. p.length \in Nat
  BY DEF PacketType
<1>2. HeaderLength(p) \in Nat /\ HeaderLength(p) >= 3
  BY DEF HeaderLength
<1>3. ~p.hasSplit => HeaderLength(p) <= 13
  BY DEF HeaderLength, IsSequenced, IsOrdered
<1> QED
  BY <1>1, <1>2, <1>3 DEF GetLength

\* Two of these sums agree as far as their packets do.
LEMMA SumsAgree ==
  ASSUME NEW q, q \in Seq(PacketType), NEW r, r \in Seq(PacketType), NEW f, NEW h,
         IsSum(f, q), IsSum(h, r), Len(q) <= Len(r),
         \A k \in 1 .. Len(q) : q[k] = r[k]
  PROVE  \A k \in 0 .. Len(q) : f[k] = h[k] /\ f[k] \in Nat
<1>1. Len(q) \in Nat /\ Len(r) \in Nat
  OBVIOUS
<1>2. /\ \A k \in 0 .. Len(q) : f[k] = IF k = 0 THEN 0 ELSE f[k - 1] + GetLength(q[k])
      /\ \A k \in 0 .. Len(r) : h[k] = IF k = 0 THEN 0 ELSE h[k - 1] + GetLength(r[k])
  BY DEF IsSum
<1>3. \A k \in 1 .. Len(q) : GetLength(q[k]) \in Nat
  <2>1. \A k \in 1 .. Len(q) : q[k] \in PacketType
    OBVIOUS
  <2> QED
    BY <2>1, PacketLength
<1> DEFINE T == {k \in 0 .. Len(q) : ~(f[k] = h[k] /\ f[k] \in Nat)}
<1>4. SUFFICES ASSUME T # {} PROVE FALSE
  BY <1>4
<1>5. PICK m \in T : \A y \in T : m <= y
  <2>1. T \subseteq Nat
    BY <1>1
  <2> HIDE DEF T
  <2> QED
    BY <1>4, <2>1, LeastNatural
<1>6. m # 0
  BY <1>1, <1>2
<1>7. m \in 1 .. Len(q) /\ m \in 0 .. Len(q) /\ m \in 0 .. Len(r) /\ m - 1 \in 0 .. Len(q) /\ ~(m <= m - 1)
  BY <1>1, <1>6
<1>8. f[m - 1] = h[m - 1] /\ f[m - 1] \in Nat
  BY <1>5, <1>7
<1>9. /\ f[m] = f[m - 1] + GetLength(q[m])
      /\ h[m] = h[m - 1] + GetLength(r[m])
      /\ q[m] = r[m] /\ GetLength(q[m]) \in Nat
  BY <1>2, <1>3, <1>6, <1>7
<1> QED
  BY <1>8, <1>9

LEMMA LengthAppend ==
  ASSUME NEW q, q \in Seq(PacketType), NEW x \in PacketType, NEW r, r = Append(q, x)
  PROVE  /\ PacketsLength(q) \in Nat
         /\ PacketsLength(r) = PacketsLength(q) + GetLength(x)
<1>1. /\ Len(q) \in Nat /\ r \in Seq(PacketType) /\ Len(r) = Len(q) + 1
      /\ r[Len(q) + 1] = x /\ \A k \in 1 .. Len(q) : q[k] = r[k]
  OBVIOUS
<1>2. PICK f : IsSum(f, q) /\ PacketsLength(q) = f[Len(q)]
  BY LengthIs
<1>3. PICK h : IsSum(h, r) /\ PacketsLength(r) = h[Len(r)]
  BY <1>1, LengthIs
<1>4. f[Len(q)] = h[Len(q)] /\ f[Len(q)] \in Nat
  <2>1. Len(q) <= Len(r) /\ r \in Seq(PacketType) /\ \A k \in 1 .. Len(q) : q[k] = r[k]
    BY <1>1
  <2>2. \A k \in 0 .. Len(q) : f[k] = h[k] /\ f[k] \in Nat
    BY <1>2, <1>3, <2>1, SumsAgree, Zenon
  <2> QED
    BY <1>1, <2>2
<1>5. h[Len(q) + 1] = h[Len(q)] + GetLength(x)
  <2>1. \A k \in 0 .. Len(r) : h[k] = IF k = 0 THEN 0 ELSE h[k - 1] + GetLength(r[k])
    BY <1>3 DEF IsSum
  <2>2. Len(q) + 1 \in 0 .. Len(r) /\ Len(q) + 1 # 0 /\ (Len(q) + 1) - 1 = Len(q)
    BY <1>1
  <2> QED
    BY <1>1, <2>1, <2>2
<1> QED
  BY <1>1, <1>2, <1>3, <1>4, <1>5

LEMMA LengthOfOne ==
  ASSUME NEW x \in PacketType
  PROVE  PacketsLength(<<>>) = 0 /\ PacketsLength(<<x>>) = GetLength(x)
<1>1. <<>> \in Seq(PacketType) /\ <<x>> = Append(<<>>, x) /\ Len(<<>>) = 0
  OBVIOUS
<1>2. PacketsLength(<<>>) = 0
  <2>1. PICK f : IsSum(f, <<>>) /\ PacketsLength(<<>>) = f[0]
    BY <1>1, LengthIs
  <2>2. 0 \in 0 .. Len(<<>>)
    BY <1>1
  <2> QED
    BY <2>1, <2>2 DEF IsSum
<1>3. PacketsLength(<<x>>) = PacketsLength(<<>>) + GetLength(x)
  BY <1>1, LengthAppend
<1> QED
  BY <1>2, <1>3, PacketLength

-----------------------------------------------------------------------------
(* What is given up *)

LEMMA PrefixShorter ==
  ASSUME NEW q, q \in Seq(PacketType), NEW j \in 1 .. Len(q)
  PROVE  /\ PacketsLength(SubSeq(q, 1, j)) \in Nat /\ PacketsLength(q) \in Nat
         /\ PacketsLength(SubSeq(q, 1, j)) <= PacketsLength(q)
<1>1. PICK s : s = SubSeq(q, 1, j)
  OBVIOUS
<1>2. /\ Len(q) \in Nat /\ j \in Nat /\ j <= Len(q) /\ Len(s) = j
      /\ s \in Seq(PacketType) /\ \A k \in 1 .. Len(s) : s[k] = q[k]
  BY <1>1
<1>3. PICK f : IsSum(f, s) /\ PacketsLength(s) = f[Len(s)]
  BY <1>2, LengthIs
<1>4. PICK h : IsSum(h, q) /\ PacketsLength(q) = h[Len(q)]
  BY LengthIs
<1>5. \A k \in 0 .. Len(s) : f[k] = h[k] /\ f[k] \in Nat
  <2>1. Len(s) <= Len(q) /\ \A k \in 1 .. Len(s) : s[k] = q[k]
    BY <1>2
  <2> QED
    BY <1>2, <1>3, <1>4, <2>1, SumsAgree, Zenon
<1>6. \A k \in 0 .. Len(q) : h[k] \in Nat
  <2>1. Len(q) <= Len(q) /\ \A k \in 1 .. Len(q) : q[k] = q[k]
    BY <1>2
  <2> QED
    BY <1>4, <2>1, SumsAgree, Zenon
<1>7. h[j] <= h[Len(q)]
  <2> DEFINE T == {k \in j .. Len(q) : ~(h[j] <= h[k])}
  <2>1. SUFFICES ASSUME T # {} PROVE FALSE
    BY <1>2, <2>1
  <2>2. PICK m \in T : \A y \in T : m <= y
    <3>1. T \subseteq Nat
      BY <1>2
    <3> HIDE DEF T
    <3> QED
      BY <2>1, <3>1, LeastNatural
  <2>3. m \in Nat /\ m # j /\ j < m /\ m <= Len(q)
    BY <1>2, <1>6
  <2>4. m - 1 \in j .. Len(q) /\ ~(m <= m - 1) /\ m - 1 \in 0 .. Len(q) /\ j \in 0 .. Len(q)
    BY <1>2, <2>3
  <2>5. h[j] <= h[m - 1]
    BY <2>2, <2>4
  <2>6. h[m] = h[m - 1] + GetLength(q[m])
    <3>1. \A k \in 0 .. Len(q) : h[k] = IF k = 0 THEN 0 ELSE h[k - 1] + GetLength(q[k])
      BY <1>4 DEF IsSum
    <3> QED
      BY <1>2, <2>3, <3>1
  <2>7. GetLength(q[m]) \in Nat
    <3>1. q[m] \in PacketType
      BY <1>2, <2>3
    <3> QED
      BY <3>1, PacketLength
  <2> QED
    BY <1>6, <2>4, <2>5, <2>6, <2>7
<1> QED
  BY <1>1, <1>2, <1>3, <1>4, <1>5, <1>6, <1>7

\* Packets that fit into one datagram are all taken into it.
LEMMA FitsTaken ==
  ASSUME NEW q, q \in Seq(PacketType), Fits(q)
  PROVE  Taken(q) = Len(q)
<1> DEFINE S == {0} \cup {k \in 1 .. Len(q) : \A j \in 1 .. k : Fits(SubSeq(q, 1, j))}
<1>1. Len(q) \in Nat /\ S \in SUBSET (0 .. Len(q)) /\ S # {}
  OBVIOUS
<1>2. \A j \in 1 .. Len(q) : Fits(SubSeq(q, 1, j))
  <2> SUFFICES ASSUME NEW j \in 1 .. Len(q) PROVE Fits(SubSeq(q, 1, j))
    OBVIOUS
  <2>1. PICK a, b : a = PacketsLength(SubSeq(q, 1, j)) /\ b = PacketsLength(q)
    OBVIOUS
  <2>2. a \in Nat /\ b \in Nat /\ a <= b
    BY <2>1, PrefixShorter
  <2> QED
    BY <2>1, <2>2, SendAssumption DEF Fits, TotalLength
<1>3. Len(q) \in S
  BY <1>1, <1>2
<1>4. Max(S) \in 0 .. Len(q) /\ Max(S) >= Len(q)
  <2> HIDE DEF S
  <2> QED
    BY <1>1, <1>3, MaxOfBounded
<1>5. Taken(q) = Max(S)
  BY DEF Taken
<1> QED
  BY <1>1, <1>4, <1>5

LEMMA SendDatagramLoses ==
  ASSUME NEW q, q \in Seq(PacketType), SendDatagram(q)
  PROVE  /\ lost' \subseteq lost \cup Range(q)
         /\ Fits(q) => lost' = lost
<1>1. lost' = lost \cup Range(SubSeq(q, Taken(q) + 1, Len(q)))
  BY DEF SendDatagram
<1>2. Range(SubSeq(q, Taken(q) + 1, Len(q))) \subseteq Range(q)
  BY TakenType, CutRange
<1>3. ASSUME Fits(q)
      PROVE  Range(SubSeq(q, Taken(q) + 1, Len(q))) = {}
  <2>1. Taken(q) = Len(q) /\ Len(q) \in Nat
    BY <1>3, FitsTaken
  <2>2. SubSeq(q, Len(q) + 1, Len(q)) = <<>>
    BY <2>1
  <2> QED
    BY <2>1, <2>2, EmptyRange
<1> QED
  BY <1>1, <1>2, <1>3

\* The queue that gathers fits into a datagram.
FullQueueFits == Fits(normalQueue)

\* A packet that is not split, or a part without an order, fits when it is alone.
LEMMA AloneFits ==
  ASSUME NEW p \in PacketType, p.length <= MaxSize,
         ~p.hasSplit \/ ~IsSequencedOrOrdered(p)
  PROVE  Fits(<<p>>)
<1>1. p.length \in Nat
  BY DEF PacketType
<1>2. HeaderLength(p) \in Nat /\ HeaderLength(p) <= 16
  <2>1. ~(IsSequenced(p) /\ IsOrdered(p))
    BY DEF IsSequenced, IsOrdered
  <2> QED
    BY <2>1 DEF HeaderLength, IsSequencedOrOrdered
<1>3. PacketsLength(<<p>>) = HeaderLength(p) + p.length
  BY LengthOfOne DEF GetLength
<1>4. MaxSize = sessionMTU - 60 /\ sessionMTU \in Nat
  BY SendAssumption DEF MaxSize
<1> HIDE DEF HeaderLength
<1> QED
  BY <1>1, <1>2, <1>3, <1>4 DEF Fits, TotalLength

LEMMA WholeFits ==
  ASSUME TypeOK, NEW c \in Call, NEW p, SendWhole(c, p)
  PROVE  NewPacket(c) \in PacketType /\ Fits(<<NewPacket(c)>>)
<1>1. TakeCall(c) /\ c.length <= MaxSize
  BY DEF SendWhole
<1>2. PICK x : x = NewPacket(c)
  OBVIOUS
<1>3. x \in PacketType /\ ~x.hasSplit
  BY <1>1, <1>2, CallTypes DEF NewPacket
<1>4. x.length = c.length
  BY <1>2 DEF NewPacket
<1> QED
  BY <1>1, <1>2, <1>3, <1>4, AloneFits

LEMMA FullQueueAppend ==
  ASSUME TypeOK, NEW c \in Call, NewPacket(c) \in PacketType, ~IsFull(c),
         normalQueue' = Append(normalQueue, NewPacket(c))
  PROVE  FullQueueFits'
<1>1. normalQueue \in Seq(PacketType)
  BY DEF TypeOK
<1>2. PICK x \in PacketType : x = NewPacket(c)
  OBVIOUS
<1>3. PICK r : r = Append(normalQueue, x)
  OBVIOUS
<1>4. /\ PacketsLength(normalQueue) \in Nat
      /\ PacketsLength(r) = PacketsLength(normalQueue) + GetLength(x)
  BY <1>1, <1>3, LengthAppend
<1>5. PacketsLength(normalQueue) + GetLength(x) < sessionMTU - 40
  BY <1>2, <1>4, PacketLength, SendAssumption DEF IsFull
<1>6. Fits(r)
  BY <1>4, <1>5, PacketLength, SendAssumption DEF Fits, TotalLength
<1> QED
  BY <1>2, <1>3, <1>6 DEF FullQueueFits

LEMMA InitFits == Init => FullQueueFits
<1>1. <<>> \in Seq(PacketType)
  OBVIOUS
<1>2. PacketsLength(<<>>) = 0
  <2>1. PICK f : IsSum(f, <<>>) /\ PacketsLength(<<>>) = f[Len(<<>>)]
    BY <1>1, LengthIs
  <2>2. Len(<<>>) = 0 /\ 0 \in 0 .. 0
    OBVIOUS
  <2> QED
    BY <2>1, <2>2 DEF IsSum
<1> QED
  BY <1>2, SendAssumption DEF Init, FullQueueFits, Fits, TotalLength

LEMMA NextFits == TypeOK /\ FullQueueFits /\ [Next]_vars => FullQueueFits'
<1> SUFFICES ASSUME TypeOK, FullQueueFits, [Next]_vars PROVE FullQueueFits'
  OBVIOUS
<1>1. \/ normalQueue' = normalQueue
      \/ \E c \in Call : QueueUntilFull(c)
  BY DEF Next, vars, SendEncapsulated, RefuseCall, SendImmediate, QueueForUpdate,
         BeginSplit, SendPart, SplitThrows, EndSplit, Update, HandleACK, HandleNACK, Names,
         queueVars
<1>2. CASE normalQueue' = normalQueue
  BY <1>2 DEF FullQueueFits
<1>3. ASSUME NEW c \in Call, QueueUntilFull(c)
      PROVE  FullQueueFits'
  <2>1. NewPacket(c) \in PacketType /\ Fits(<<NewPacket(c)>>)
    BY <1>3, WholeFits DEF QueueUntilFull
  <2>2. CASE IsFull(c)
    BY <1>3, <2>1, <2>2 DEF QueueUntilFull, FullQueueFits
  <2>3. CASE ~IsFull(c)
    BY <1>3, <2>1, <2>3, FullQueueAppend DEF QueueUntilFull
  <2> QED
    BY <2>2, <2>3
<1> QED
  BY <1>1, <1>2, <1>3

LEMMA LossStep ==
  ASSUME TypeOK, FullQueueFits, Next, NEW p \in lost' \ lost
  PROVE  p \in Range(updateQueue) \/ (p.hasSplit /\ IsSequencedOrOrdered(p))
<1> USE DEF datagramVars
<1>1. ASSUME NEW c \in Call, SendEncapsulated(c)
      PROVE  FALSE
  <2>1. CASE SendImmediate(c)
    <3>1. SendDatagram(<<NewPacket(c)>>) /\ Fits(<<NewPacket(c)>>) /\ NewPacket(c) \in PacketType
      BY <2>1, WholeFits DEF SendImmediate
    <3>2. <<NewPacket(c)>> \in Seq(PacketType)
      <4>1. PICK x \in PacketType : x = NewPacket(c)
        BY <3>1
      <4>2. <<x>> \in Seq(PacketType)
        OBVIOUS
      <4> QED
        BY <4>1, <4>2
    <3>3. lost' = lost
      BY <3>1, <3>2, SendDatagramLoses
    <3> QED
      BY <3>3
  <2>2. CASE QueueUntilFull(c)
    <3>1. CASE IsFull(c)
      <4>1. SendDatagram(normalQueue) /\ normalQueue \in Seq(PacketType) /\ Fits(normalQueue)
        BY <2>2, <3>1 DEF QueueUntilFull, TypeOK, FullQueueFits
      <4>2. lost' = lost
        BY <4>1, SendDatagramLoses
      <4> QED
        BY <4>2
    <3>2. CASE ~IsFull(c)
      BY <2>2, <3>2 DEF QueueUntilFull
    <3> QED
      BY <3>1, <3>2
  <2>3. CASE RefuseCall(c) \/ QueueForUpdate(c) \/ BeginSplit(c)
    BY <2>3 DEF RefuseCall, QueueForUpdate, BeginSplit
  <2> QED
    BY <1>1, <2>1, <2>2, <2>3 DEF SendEncapsulated
<1>2. CASE SendPart
  <2>1. pc = "split" /\ SendDatagram(<<Part>>)
    BY <1>2 DEF SendPart
  <2>2. PICK x \in PacketType : x = Part
    BY <2>1, PartType
  <2>3. x.hasSplit /\ x.length <= MaxSize
    <3>1. x.hasSplit /\ x.length = PartLength
      BY <2>1, <2>2, PartIs
    <3>2. PartLength <= MaxSize
      BY MaxSizeType, SendAssumption DEF PartLength, TypeOK
    <3> QED
      BY <3>1, <3>2
  <2>4. <<x>> \in Seq(PacketType) /\ SendDatagram(<<x>>) /\ Range(<<x>>) = {x}
    BY <2>1, <2>2, RangeAlone
  <2>5. p = x /\ ~Fits(<<x>>)
    BY <2>4, SendDatagramLoses
  <2> QED
    BY <2>3, <2>5, AloneFits
<1>3. CASE Update
  <2>1. SendDatagram(updateQueue) /\ updateQueue \in Seq(PacketType)
    BY <1>3 DEF Update, TypeOK
  <2> QED
    BY <2>1, SendDatagramLoses
<1>4. CASE SplitThrows \/ EndSplit
  BY <1>4 DEF SplitThrows, EndSplit
<1>5. ASSUME NEW S, HandleACK(S) \/ HandleNACK(S)
      PROVE  FALSE
  BY <1>5 DEF HandleACK, HandleNACK, Names
<1> QED
  BY <1>1, <1>2, <1>3, <1>4, <1>5 DEF Next

\* The only packets that are ever given up are ones that update cut off its queue
\* and parts that carry an order; normalQueue is always sent whole (sendEncapsulated,
\* lines 168 and 206-216; sendDatagram, line 231).
THEOREM LossesAreKnown == Spec => LossesKnown
<1>1. Init => TypeOK /\ FullQueueFits
  BY InitType, InitFits
<1>2. TypeOK /\ FullQueueFits /\ [Next]_vars => (TypeOK /\ FullQueueFits)'
  BY NextType, NextFits
<1>3. TypeOK /\ FullQueueFits /\ [Next]_vars =>
        [\A p \in lost' \ lost :
           p \in Range(updateQueue) \/ (p.hasSplit /\ IsSequencedOrOrdered(p))]_vars
  BY LossStep
<1> QED
  BY <1>1, <1>2, <1>3, PTL DEF Spec, LossesKnown
=============================================================================
