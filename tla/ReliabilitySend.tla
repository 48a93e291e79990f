--------------------------- MODULE ReliabilitySend ---------------------------
(***************************************************************************)
(* The send path of one session: ReliabilityLayer::sendEncapsulated and    *)
(* sendDatagram, the part of Session::update that flushes updateQueue, and *)
(* the parts of Session::receivePacket that handle an ACK and a NACK.      *)
(*                                                                         *)
(* A packet that is too long is split into parts, one round of the loop to *)
(* a step.  Calls do not overlap here: no other action is enabled while    *)
(* pc = "split".  The code calls sendEncapsulated from pool threads        *)
(* without the session mutex, so this is what holds as long as the calls   *)
(* happen to be serial; Connection has calls that overlap.                 *)
(*                                                                         *)
(* The peer names any numbers in its ACKs and NACKs, each as often and as  *)
(* late as it likes, and also before a datagram has that number.           *)
(***************************************************************************)
EXTENDS PacketReliability, Sequences, FiniteSetsExt

CONSTANTS
  Call,                \* the arguments sendEncapsulated is called with
  NullDatagram,        \* the null unique_ptr that operator[] inserts
  sessionMTU,
  MAX_ORDER_CHANNELS,
  GarbageIndex,        \* what a cell beyond the end of a vector may hold
  Word,                \* 2^64: the width of the split loop's counter
  SplitWord,           \* 2^16: the width of splitID
  Named,               \* the numbers the peer names, used or not
  MaxCalls,            \* bound on the calls of a behaviour
  MaxNamed             \* bound on the numbers in one ACK or NACK

Channel == 0 .. MAX_ORDER_CHANNELS - 1

CallType == [length : Nat, reliability : Reliability, orderChannel : Nat,
             priority : {"IMMEDIATE", "UPDATE", "FULLQ"}]

\* Channel MAX_ORDER_CHANNELS itself passes the range check and indexes one
\* past the last channel: it is left out.
ASSUME SendAssumption ==
  /\ Call \subseteq CallType
  /\ \A c \in Call : c.orderChannel # MAX_ORDER_CHANNELS
  /\ sessionMTU \in Nat /\ sessionMTU > 60
  /\ MAX_ORDER_CHANNELS \in Nat \ {0}
  /\ GarbageIndex \subseteq Nat
  /\ Word \in Nat /\ Word > sessionMTU /\ \A c \in Call : Word > c.length
  /\ SplitWord \in Nat \ {0}
  /\ Named \subseteq Nat
  /\ MaxCalls \in Nat /\ MaxNamed \in Nat

VARIABLES
  sendSequenceNumber, sendReliableIndex, splitID,
  sendSequencedIndex, sendOrderedIndex,  \* next index to use, per channel
  normalQueue, updateQueue,  \* packets that wait
  recoveryQueue,             \* datagram number |-> the datagram, or null
  pc, packet, i, partIndex,  \* the split loop: what is split, what is left
  (* history *)
  calls,                     \* calls so far: the number names the payload
  wire,                      \* datagrams sent, by number
  resent, acked,             \* datagrams sent again; numbers acknowledged
  early,                     \* numbers the peer named before they were sent
  lost                       \* packets destroyed without having been sent

indexVars == <<sendReliableIndex, splitID, sendSequencedIndex, sendOrderedIndex>>
datagramVars == <<sendSequenceNumber, recoveryQueue, wire, lost>>
queueVars == <<normalQueue, updateQueue>>
loopVars == <<pc, packet, i, partIndex>>
peerVars == <<resent, acked, early>>
vars == <<indexVars, datagramVars, queueVars, loopVars, peerVars, calls>>

\* One-element vectors, as on the receive side.
IndexVector ==
  {x \in [Channel -> GarbageIndex \cup {MAX_ORDER_CHANNELS}] :
     /\ x[0] = MAX_ORDER_CHANNELS
     /\ \A c \in Channel \ {0} : x[c] \in GarbageIndex}

NoSplit == [compoundSize |-> 0, compoundID |-> 0, compoundIndex |-> 0]

PacketType ==
  [id : Nat, length : Nat, reliability : Reliability, messageIndex : Int,
   sequencedIndex : Int, orderedIndex : Int, orderChannel : Nat,
   hasSplit : BOOLEAN,
   splitInfo : [compoundSize : Nat, compoundID : Nat, compoundIndex : Nat]]

ASSUME NullAssumption == NullDatagram \notin Seq(PacketType)

Init ==
  /\ sendSequenceNumber = 0 /\ sendReliableIndex = 0 /\ splitID = 0
  /\ sendSequencedIndex \in IndexVector /\ sendOrderedIndex \in IndexVector
  /\ normalQueue = <<>> /\ updateQueue = <<>>
  /\ recoveryQueue = << >>
  /\ pc = "idle" /\ packet = <<>> /\ i = 0 /\ partIndex = 0
  /\ calls = 0 /\ wire = {} /\ resent = {} /\ acked = {} /\ early = {} /\ lost = {}

-----------------------------------------------------------------------------
(* Lengths *)

\* Line 231, where 36 stands for the headers below.
Fits(q) == TotalLength(q) + 36 < sessionMTU

\* How many packets of a queue go into one datagram: they are taken from the
\* front as long as they fit.
Taken(q) ==
  Max({0} \cup {k \in 1 .. Len(q) : \A j \in 1 .. k : Fits(SubSeq(q, 1, j))})

-----------------------------------------------------------------------------
(* sendDatagram *)

\* Faulty variant: the parts of a packet go out under one number.
SameNumber(sent) ==
  IF \E k \in 1 .. Len(sent) : sent[k].hasSplit
  THEN sendSequenceNumber ELSE sendSequenceNumber + 1

NextNumber(sent) == sendSequenceNumber + 1

\* std::unordered_map::insert leaves an entry that is there as it is.
Insert(n, datagram) ==
  [k \in DOMAIN recoveryQueue \cup {n} |->
     IF k \in DOMAIN recoveryQueue THEN recoveryQueue[k] ELSE datagram]

\* Faulty variant: the check for a datagram without packets is left out.
IsEmptyUnchecked(sent) == FALSE

IsEmpty(sent) == sent = <<>>

\* Sends what fits of the packets in q; a number is used up in any case.  The
\* callers destroy what is left of q.
SendDatagram(q) ==
  LET sent == SubSeq(q, 1, Taken(q))
  IN  /\ lost' = lost \cup Range(SubSeq(q, Taken(q) + 1, Len(q)))
      /\ sendSequenceNumber' = IF q = <<>> THEN sendSequenceNumber ELSE NextNumber(sent)
      /\ IF q = <<>> \/ IsEmpty(sent)
         THEN UNCHANGED <<wire, recoveryQueue>>
         ELSE /\ wire' = wire \cup {[number |-> sendSequenceNumber, packets |-> sent]}
              /\ recoveryQueue' = Insert(sendSequenceNumber, sent)

-----------------------------------------------------------------------------
(* sendEncapsulated *)

MaxSize == sessionMTU - 60

IsBadChannel(c) == c.orderChannel > MAX_ORDER_CHANNELS

\* Lines 145-165: the packet of call c, whose message index is never set here.
NewPacket(c) ==
  [id |-> calls, length |-> c.length, reliability |-> c.reliability,
   messageIndex |-> NoIndex,
   sequencedIndex |-> IF IsSequenced(c) THEN sendSequencedIndex[c.orderChannel]
                                        ELSE NoIndex,
   orderedIndex |-> IF IsSequencedOrOrdered(c) THEN sendOrderedIndex[c.orderChannel]
                                               ELSE NoIndex,
   orderChannel |-> c.orderChannel, hasSplit |-> FALSE, splitInfo |-> NoSplit]

UseIndices(c) ==
  /\ sendOrderedIndex' =
       IF IsOrdered(c) THEN [sendOrderedIndex EXCEPT ![c.orderChannel] = @ + 1]
                       ELSE sendOrderedIndex
  /\ sendSequencedIndex' =
       IF IsSequenced(c) THEN [sendSequencedIndex EXCEPT ![c.orderChannel] = @ + 1]
                         ELSE sendSequencedIndex
  /\ UNCHANGED sendReliableIndex

BeginCall(c) ==
  /\ pc = "idle"
  /\ calls < MaxCalls  \* bound of the model
  /\ calls' = calls + 1
  /\ UNCHANGED peerVars

\* Lines 149-153.
RefuseCall(c) ==
  /\ BeginCall(c)
  /\ IsBadChannel(c)
  /\ UNCHANGED <<indexVars, datagramVars, queueVars, loopVars>>

TakeCall(c) ==
  /\ BeginCall(c)
  /\ ~IsBadChannel(c)
  /\ UseIndices(c)

\* A packet that is not split, with priority p.
SendWhole(c, p) ==
  /\ TakeCall(c)
  /\ c.length <= MaxSize
  /\ c.priority = p
  /\ UNCHANGED <<splitID, loopVars>>

\* Lines 201-202.
SendImmediate(c) ==
  /\ SendWhole(c, "IMMEDIATE")
  /\ SendDatagram(<<NewPacket(c)>>)
  /\ UNCHANGED queueVars

\* Lines 203-204.
QueueForUpdate(c) ==
  /\ SendWhole(c, "UPDATE")
  /\ updateQueue' = Append(updateQueue, NewPacket(c))
  /\ UNCHANGED <<normalQueue, datagramVars>>

\* Faulty variant: the length of the new packet is not counted.
IsFullWithout(c) == PacketsLength(normalQueue) > sessionMTU - 40

\* Lines 206-211.
IsFull(c) ==
  PacketsLength(normalQueue) + GetLength(NewPacket(c)) >= sessionMTU - 40

\* Lines 205-216: the queue is sent when the new packet would fill it.
QueueUntilFull(c) ==
  /\ SendWhole(c, "FULLQ")
  /\ IF IsFull(c)
     THEN /\ SendDatagram(normalQueue)
          /\ normalQueue' = <<NewPacket(c)>>
     ELSE /\ normalQueue' = Append(normalQueue, NewPacket(c))
          /\ UNCHANGED datagramVars
  /\ UNCHANGED updateQueue

\* Lines 169-173, whatever the priority.
BeginSplit(c) ==
  /\ TakeCall(c)
  /\ c.length > MaxSize
  /\ splitID' = (splitID + 1) % SplitWord
  /\ pc' = "split" /\ packet' = NewPacket(c)
  /\ i' = c.length /\ partIndex' = 0
  /\ UNCHANGED <<datagramVars, queueVars>>

PartLength == IF i >= MaxSize THEN MaxSize ELSE i

\* Bytes of the payload that were not read yet.
Unread == Max({0, packet.length - partIndex * MaxSize})

\* Faulty variant: the last part is not counted when it is short.
PartCountDown == packet.length \div MaxSize

\* Line 195.
PartCount ==
  packet.length \div MaxSize + (IF packet.length % MaxSize > 0 THEN 1 ELSE 0)

Part ==
  [packet EXCEPT
     !.length = PartLength,
     !.messageIndex = IF IsReliable(packet) THEN sendReliableIndex ELSE NoIndex,
     !.hasSplit = TRUE,
     !.splitInfo = [compoundSize |-> PartCount, compoundID |-> splitID,
                    compoundIndex |-> partIndex]]

NextReliableIndex == sendReliableIndex + 1

\* One round of lines 173-199.
SendPart ==
  /\ pc = "split" /\ i > 0
  /\ PartLength <= Unread
  /\ SendDatagram(<<Part>>)
  /\ sendReliableIndex' = IF IsReliable(packet) THEN NextReliableIndex
                                                ELSE sendReliableIndex
  /\ partIndex' = partIndex + 1
  /\ i' = (i - MaxSize) % Word
  /\ UNCHANGED <<splitID, sendSequencedIndex, sendOrderedIndex, queueVars,
                 pc, packet, peerVars, calls>>

\* After a short part the counter has wrapped round: the loop goes on, and
\* reading the next part throws.
SplitThrows ==
  /\ pc = "split" /\ i > 0
  /\ PartLength > Unread
  /\ pc' = "idle"
  /\ UNCHANGED <<indexVars, datagramVars, queueVars, packet, i, partIndex,
                 peerVars, calls>>

EndSplit ==
  /\ pc = "split" /\ i = 0
  /\ pc' = "idle"
  /\ UNCHANGED <<indexVars, datagramVars, queueVars, packet, i, partIndex,
                 peerVars, calls>>

SendEncapsulated(c) ==
  \/ RefuseCall(c)
  \/ SendImmediate(c)
  \/ QueueForUpdate(c)
  \/ QueueUntilFull(c)
  \/ BeginSplit(c)

-----------------------------------------------------------------------------
(* Session *)

\* Faulty variant: what was sent stays in the queue.
KeepUpdateQueue == updateQueue

UpdatedQueue == <<>>

\* Session::update, lines 57-61.
Update ==
  /\ pc = "idle"
  /\ updateQueue # <<>>
  /\ SendDatagram(updateQueue)
  /\ updateQueue' = UpdatedQueue
  /\ UNCHANGED <<indexVars, normalQueue, loopVars, peerVars, calls>>

\* operator[] has looked up the numbers in S.
LookedUp(S) ==
  [n \in DOMAIN recoveryQueue \cup S |->
     IF n \in DOMAIN recoveryQueue THEN recoveryQueue[n] ELSE NullDatagram]

Recoverable(S) ==
  {n \in S \cap DOMAIN recoveryQueue : recoveryQueue[n] # NullDatagram}

\* Faulty variant: an ACK releases all the datagrams up to the one it names.
ReleaseUpTo(S) == {n \in DOMAIN recoveryQueue : \E m \in S : n <= m}

Released(S) == Recoverable(S)

SentNumbers == {d.number : d \in wire}

\* The peer names the numbers in S.
Names(S) ==
  /\ pc = "idle"
  /\ early' = early \cup (S \ SentNumbers)
  /\ UNCHANGED <<indexVars, sendSequenceNumber, wire, lost, queueVars, loopVars, calls>>

\* An ACK that names the numbers in S.  One that is named twice ends like one
\* that is named in two ACKs.
HandleACK(S) ==
  /\ Names(S)
  /\ recoveryQueue' = [n \in DOMAIN LookedUp(S) \ Released(S) |-> LookedUp(S)[n]]
  /\ acked' = acked \cup S
  /\ UNCHANGED resent

\* A NACK that names the numbers in S.
HandleNACK(S) ==
  /\ Names(S)
  /\ resent' = resent \cup
       {[number |-> n, packets |-> recoveryQueue[n]] : n \in Recoverable(S)}
  /\ recoveryQueue' = LookedUp(S)
  /\ UNCHANGED acked

\* What one ACK or NACK may name.
Naming == {S \in SUBSET Named : S # {} /\ Cardinality(S) <= MaxNamed}

Next ==
  \/ \E c \in Call : SendEncapsulated(c)
  \/ SendPart
  \/ SplitThrows
  \/ EndSplit
  \/ Update
  \/ \E S \in Naming : HandleACK(S) \/ HandleNACK(S)

Spec == Init /\ [][Next]_vars

-----------------------------------------------------------------------------
(* Properties *)

\* Every variable has its type; a datagram on the wire is never empty, though
\* sendDatagram may be left with one (lines 236-239).
TypeOK ==
  /\ sendSequenceNumber \in Nat /\ sendReliableIndex \in Nat /\ splitID \in Nat
  /\ sendSequencedIndex \in [Channel -> Nat]
  /\ sendOrderedIndex \in [Channel -> Nat]
  /\ normalQueue \in Seq(PacketType) /\ updateQueue \in Seq(PacketType)
  /\ \A n \in DOMAIN recoveryQueue :
       /\ n \in Nat
       /\ recoveryQueue[n] \in (Seq(PacketType) \ {<<>>}) \cup {NullDatagram}
  /\ pc \in {"idle", "split"} /\ i \in 0 .. Word - 1 /\ partIndex \in Nat
  /\ pc = "split" => packet \in PacketType
  /\ calls \in Nat /\ acked \cup early \subseteq Nat /\ lost \subseteq PacketType
  /\ \A d \in wire \cup resent :
       d.number \in Nat /\ d.packets \in Seq(PacketType) \ {<<>>}

\* A number stands for one datagram for ever: what goes out under it in answer
\* to a NACK is what went out under it first (sendDatagram, lines 229-247).
NumberNamesDatagram ==
  \A d, e \in wire \cup resent : d.number = e.number => d = e

\* What a NACK can bring back.
InRecovery ==
  {[number |-> n, packets |-> recoveryQueue[n]] : n \in Recoverable(DOMAIN recoveryQueue)}

\* A datagram can be sent again as it was, whatever ACKs and NACKs came before,
\* until the peer acknowledges it, and not after that; but never if the peer
\* had named its number before it was sent, for then insert has found the entry
\* that the lookup left (line 245; receivePacket, lines 80-95).
RecoveryExact ==
  InRecovery = {d \in wire : d.number \notin acked \cup early}

Waiting == Range(normalQueue) \cup Range(updateQueue)

\* A packet goes out under one number at most, and neither waits nor is given
\* up when it did: nothing is sent twice but in answer to a NACK.
SentOnce ==
  /\ \A d, e \in wire : Range(d.packets) \cap Range(e.packets) # {} => d = e
  /\ \A d \in wire : Range(d.packets) \cap (Waiting \cup lost) = {}

\* Packets are given up only when update does not get all of updateQueue into
\* one datagram, and when they are parts whose headers carry an order.  Those that
\* gather in normalQueue and those that are sent whole always fit, which relates
\* the limits of lines 168, 211 and 231.
LossesKnown ==
  [][\A p \in lost' \ lost :
       p \in Range(updateQueue) \/ (p.hasSplit /\ IsSequencedOrOrdered(p))]_vars

\* The packets that were sent or given up.
Gone == lost \cup UNION {Range(d.packets) : d \in wire}

Parts(id) == {p \in Gone : p.hasSplit /\ p.id = id}

\* When the loop is done with a packet, by its end or by an exception, the parts
\* it made are the parts they say they are: numbered from 0 to compoundSize - 1,
\* all but the last of full length, with an ID that no other packet has which is
\* sent before the ID has gone round.
SplitComplete ==
  \A k \in 0 .. calls - 1 :
    Parts(k) # {} /\ ~(pc = "split" /\ packet.id = k) =>
      /\ \A p \in Parts(k) : p.splitInfo.compoundSize = Cardinality(Parts(k))
      /\ {p.splitInfo.compoundIndex : p \in Parts(k)} = 0 .. Cardinality(Parts(k)) - 1
      /\ \A p \in Parts(k) :
           p.splitInfo.compoundIndex < p.splitInfo.compoundSize - 1 => p.length = MaxSize
      /\ \A j \in 0 .. calls - 1 : \A p \in Parts(k), q \in Parts(j) :
           j < k /\ k - j < SplitWord =>
             p.splitInfo.compoundID # q.splitInfo.compoundID

\* No two parts share a message index: the receiver would discard one of them
\* as a duplicate (lines 185-187).
PartsDistinct ==
  \A p, q \in UNION {Parts(k) : k \in 0 .. calls - 1} :
    IsReliable(p) /\ p.messageIndex = q.messageIndex => p = q

\* What the receiver needs to put packets together again.
PartsComplete == SplitComplete /\ PartsDistinct

\* ReliabilityLayer.cpp:167, "datagram header size (4 bytes) + max encapsulated
\* packet header size (20 bytes)": with maxSize bytes of payload a part fits,
\* so every part goes out.
PartsFit == \A p \in lost : ~p.hasSplit
=============================================================================
