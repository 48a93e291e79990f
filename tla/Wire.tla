--------------------------------- MODULE Wire ---------------------------------
(***************************************************************************)
(* Packets as bytes.  A message is put into a stream, its bytes travel,    *)
(* the last of them may be missing when they arrive, and a stream made of  *)
(* what arrived is read.                                                   *)
(*                                                                         *)
(* The simple packets are lists of fields, one list for encodePayload and  *)
(* one for decodePayload.  Datagram and EncapsulatedPacket, whose fields   *)
(* depend on each other, have operators of their own; Acknowledge has a    *)
(* module.                                                                 *)
(***************************************************************************)
EXTENDS PacketReliability, BinaryStream

CONSTANTS
  Message,   \* what is sent: simple packets and datagrams
  ReadOrder  \* the orders in which a build may read an address

ASSUME OrderAssumption ==
  \A order \in ReadOrder : order \in [1 .. 4 -> 1 .. 4] /\ IsInjective(order)

VARIABLES
  message,  \* what is sent
  todo,     \* the arguments of the calls of put and putByte that are left
  written,  \* history: the bytes put so far
  stream,   \* the stream that is written, then the one that is read
  phase,    \* "put", "read", "done", or "thrown" by a read
  got,      \* what was read so far: fields, or encapsulated packets
  order,    \* the order of this build
  cut       \* the last bytes are missing

vars == <<message, todo, written, stream, phase, got, order, cut>>

-----------------------------------------------------------------------------
(* The simple packets *)

F(name, kind) == [name |-> name, kind |-> kind]

\* A field that is not kept when it is read.
Skip(kind) == F("", kind)

Layout(pid, put, read) == [pid |-> pid, put |-> put, read |-> read]

MagicField == Skip("magic")

UnconnectedPing ==
  LET fields == <<F("pingTime", "long"), MagicField, F("userGUID", "long")>>
  IN  Layout(1, fields, fields)

UnconnectedPong ==
  LET fields == <<F("pingTime", "long"), F("serverGUID", "long"), MagicField,
                  F("serverID", "string")>>
  IN  Layout(28, fields, fields)

\* The client pads the request; what has arrived is measured for the MTU.
OpenConnectionRequest1 ==
  Layout(5, <<MagicField, F("protocolVersion", "byte"), Skip("padding")>>,
            <<MagicField, F("protocolVersion", "byte"), F("MTU", "rest")>>)

OpenConnectionReply1 ==
  LET fields == <<MagicField, F("serverGUID", "long"), F("security", "boolean"),
                  F("MTU", "short")>>
  IN  Layout(6, fields, fields)

OpenConnectionRequest2 ==
  LET fields == <<MagicField, F("serverAddr", "address"), F("MTU", "short"),
                  F("userGUID", "long")>>
  IN  Layout(7, fields, fields)

OpenConnectionReply2 ==
  LET fields == <<MagicField, F("serverGUID", "long"), F("clientAddr", "address"),
                  F("MTU", "short"), F("encryption", "boolean")>>
  IN  Layout(8, fields, fields)

IncompatibleProtocol ==
  LET fields == <<F("protocolVersion", "byte"), MagicField, F("serverGUID", "long")>>
  IN  Layout(25, fields, fields)

ConnectionRequest ==
  LET fields == <<F("GUID", "long"), F("time", "long")>>
  IN  Layout(9, fields, fields)

\* decodePayload drops the index of the system and its ten addresses.
ConnectionRequestAccepted ==
  LET times == <<F("requestTime", "long"), F("time", "long")>>
  IN  Layout(16,
        <<F("clientAddress", "address"), F("systemIndex", "short")>>
          \o [k \in 1 .. 10 |-> F("internalID", "address")] \o times,
        <<F("clientAddress", "address"), Skip("short")>>
          \o [k \in 1 .. 10 |-> Skip("address")] \o times)

ConnectedPing ==
  LET fields == <<F("pingTime", "long")>>
  IN  Layout(0, fields, fields)

ConnectedPong ==
  LET fields == <<F("pingTime", "long"), F("pongTime", "long")>>
  IN  Layout(3, fields, fields)

SimpleName ==
  {"UnconnectedPing", "UnconnectedPong", "OpenConnectionRequest1", "OpenConnectionReply1",
   "OpenConnectionRequest2", "OpenConnectionReply2", "IncompatibleProtocol",
   "ConnectionRequest", "ConnectionRequestAccepted", "ConnectedPing", "ConnectedPong"}

LayoutOf(name) ==
  CASE name = "UnconnectedPing"           -> UnconnectedPing
    [] name = "UnconnectedPong"           -> UnconnectedPong
    [] name = "OpenConnectionRequest1"    -> OpenConnectionRequest1
    [] name = "OpenConnectionReply1"      -> OpenConnectionReply1
    [] name = "OpenConnectionRequest2"    -> OpenConnectionRequest2
    [] name = "OpenConnectionReply2"      -> OpenConnectionReply2
    [] name = "IncompatibleProtocol"      -> IncompatibleProtocol
    [] name = "ConnectionRequest"         -> ConnectionRequest
    [] name = "ConnectionRequestAccepted" -> ConnectionRequestAccepted
    [] name = "ConnectedPing"             -> ConnectedPing
    [] name = "ConnectedPong"             -> ConnectedPong

-----------------------------------------------------------------------------
(* EncapsulatedPacket and Datagram *)

\* The enumeration Reliability.
Reliabilities ==
  <<"UNRELIABLE", "UNRELIABLE_SEQUENCED", "RELIABLE", "RELIABLE_ORDERED",
    "RELIABLE_SEQUENCED", "UNRELIABLE_WITH_ACK_RECEIPT",
    "RELIABLE_WITH_ACK_RECEIPT", "RELIABLE_ORDERED_WITH_ACK_RECEIPT">>

CodeOf(r) == CHOOSE k \in 0 .. 7 : Reliabilities[k + 1] = r

\* The header that encode writes.
Header(p) ==
  <<CodeOf(p.reliability) * 32 + (IF p.hasSplit THEN 16 ELSE 0)>>
    \o BigEndian(p.length * 8, 2)
    \o (IF IsReliable(p) THEN LittleEndian(p.messageIndex, 3) ELSE <<>>)
    \o (IF IsSequenced(p) THEN LittleEndian(p.sequencedIndex, 3) ELSE <<>>)
    \o (IF IsSequencedOrOrdered(p)
        THEN LittleEndian(p.orderedIndex, 3) \o <<p.orderChannel>> ELSE <<>>)
    \o (IF p.hasSplit
        THEN BigEndian(p.splitInfo.compoundSize, 4)
               \o BigEndian(p.splitInfo.compoundID, 2)
               \o BigEndian(p.splitInfo.compoundIndex, 4)
        ELSE <<>>)

LengthOf(flags, bytes) == ShortFrom(<<bytes[2], bytes[3]>>) \div 8

\* Line 29: the bit of weight 16 is compared with 1, so no packet is a part.
ReadsSplit(flags) == (flags \div 16 % 2) * 16 = 1

\* decode, which reads p.length bytes at last, or throws before.
PacketIn(s) ==
  LET bytes == NextBytes(s, s.size - s.position)
      flags == bytes[1]
      kind == [reliability |-> Reliabilities[flags \div 32 + 1],
               hasSplit |-> ReadsSplit(flags)]
      Triad(at) == TriadFrom(SubSeq(bytes, at, at + 2))
      q == 4 + (IF IsReliable(kind) THEN 3 ELSE 0)
      o == q + (IF IsSequenced(kind) THEN 3 ELSE 0)
      start == HeaderLength(kind)
  IN  [reliability |-> kind.reliability, length |-> LengthOf(flags, bytes),
       messageIndex |-> IF IsReliable(kind) THEN Triad(4) ELSE NoIndex,
       sequencedIndex |-> IF IsSequenced(kind) THEN Triad(q) ELSE NoIndex,
       orderedIndex |-> IF IsSequencedOrOrdered(kind) THEN Triad(o) ELSE NoIndex,
       orderChannel |-> IF IsSequencedOrOrdered(kind) THEN bytes[o + 3] ELSE 255,
       payload |-> SubSeq(bytes, start + 1, start + LengthOf(flags, bytes))]

\* The bytes decode takes; when there are no three for the flags and the length,
\* it throws in any case.
PacketWidth(s) ==
  IF CanRead(s, 3)
  THEN LET bytes == NextBytes(s, 3)
       IN  HeaderLength([reliability |-> Reliabilities[bytes[1] \div 32 + 1],
                         hasSplit |-> ReadsSplit(bytes[1])])
             + LengthOf(bytes[1], bytes)
  ELSE 3

-----------------------------------------------------------------------------
(* Writing *)

IsDatagram(m) == m.name = "Datagram"

\* One call of putByte for each byte.
PutBytes(bytes) == [k \in DOMAIN bytes |-> <<bytes[k]>>]

\* The member of a packet that is put in a field.
ValueOf(m, f) ==
  IF f.name \in DOMAIN m.values THEN m.values[f.name]
  ELSE IF f.kind = "padding" THEN m.padding ELSE 0

\* Packet::encode of a simple packet.
FieldCalls(m) ==
  LET fields == LayoutOf(m.name).put
  IN  PutBytes(<<LayoutOf(m.name).pid>> \o
        FlattenSeq([k \in DOMAIN fields |-> Encoded(fields[k].kind, ValueOf(m, fields[k]))]))

\* Packet::encode of a datagram; the payload of a packet is one call of put.
DatagramCalls(m) ==
  PutBytes(<<128>> \o LittleEndian(m.sequenceNumber, 3)) \o
    FlattenSeq([k \in DOMAIN m.packets |->
                  Append(PutBytes(Header(m.packets[k])), m.packets[k].payload)])

Calls(m) == IF IsDatagram(m) THEN DatagramCalls(m) ELSE FieldCalls(m)

\* The types of the members of the packets.
Short == 0 .. 65535

AddressOK(v) ==
  v \in [version : Byte, addr : [1 .. 4 -> Byte], port : Short]

ValueOK(kind, v) ==
  /\ kind = "byte" => v \in Byte
  /\ kind = "boolean" => v \in BOOLEAN
  /\ kind = "short" => v \in Short
  /\ kind = "long" => v \in Seq(Byte) /\ Len(v) = 8
  /\ kind = "address" => AddressOK(v)
  /\ kind = "string" => v \in Seq(Byte) /\ Len(v) < 65536

SimpleOK(m) ==
  LET fields == LayoutOf(m.name).put
      named == {k \in DOMAIN fields : fields[k].name # ""}
  IN  /\ m.name \in SimpleName
      /\ DOMAIN m.values = {fields[k].name : k \in named}
      /\ \A k \in named : ValueOK(fields[k].kind, m.values[fields[k].name])
      /\ m.name = "OpenConnectionRequest1" => m.padding \in Seq(Byte)

\* The payload has the packet's length, as encode reads that many bytes of the
\* buffer, and fits a datagram, so that the length in bits has 16 bits.
PacketOK(p) ==
  /\ p.reliability \in Reliability /\ p.hasSplit \in BOOLEAN
  /\ p.payload \in Seq(Byte) /\ p.length = Len(p.payload) /\ p.length < 8192
  /\ {p.messageIndex, p.sequencedIndex, p.orderedIndex} \subseteq Int

\* What is put are bytes, and the members of a packet have their types.
ASSUME MessageAssumption ==
  \A m \in Message :
    /\ Calls(m) \in Seq(Seq(Byte))
    /\ IF IsDatagram(m)
       THEN /\ m.sequenceNumber \in Int
            /\ m.packets \in Seq(Range(m.packets)) /\ \A p \in Range(m.packets) : PacketOK(p)
       ELSE SimpleOK(m)

Init ==
  /\ message \in Message
  /\ order \in ReadOrder
  /\ todo = Calls(message) /\ written = <<>>
  /\ stream = EmptyStream
  /\ phase = "put" /\ got = <<>> /\ cut = FALSE

PutNext ==
  /\ phase = "put" /\ todo # <<>>
  /\ stream' = Put(stream, Head(todo))
  /\ todo' = Tail(todo)
  /\ written' = written \o Head(todo)
  /\ UNCHANGED <<message, phase, got, order, cut>>

\* recvfrom yields n bytes, not all if the sender has sent less.
Arrive(n) ==
  /\ phase = "put" /\ todo = <<>>
  /\ stream' = StreamOf(SubSeq(Contents(stream), 1, n))
  /\ phase' = "read"
  /\ cut' = (n < stream.size)
  /\ UNCHANGED <<message, todo, written, got, order>>

-----------------------------------------------------------------------------
(* Reading *)

\* The position is behind the PID: decodeHeader, which throws at no byte here,
\* as there is one.
Behind(s) == IF s.position = 0 THEN Advance(s, 1) ELSE s

\* What is left to be read of the fields of a simple packet.
FieldsLeft ==
  LET fields == LayoutOf(message.name).read
  IN  SubSeq(fields, Len(got) + 1, Len(fields))

\* The value that is kept of a field; OpenConnectionRequest1's MTU is what the
\* whole stream holds beyond the first fields.
FieldValue(field, s) ==
  CASE field.kind = "rest" -> s.size - 18
    [] field.name = ""     -> ""
    [] OTHER -> Decoded(field.kind, NextBytes(s, Width(field.kind, s)), order)

ReadField ==
  /\ phase = "read" /\ ~IsDatagram(message)
  /\ FieldsLeft # <<>>
  /\ LET field == Head(FieldsLeft)
         s == Behind(stream)
     IN  /\ Readable(field.kind, s)
         /\ got' = Append(got, FieldValue(field, s))
         /\ stream' = Advance(s, Width(field.kind, s))
  /\ UNCHANGED <<message, todo, written, phase, order, cut>>

\* The sequence number of a datagram, which is the first thing got.
ReadNumber ==
  /\ phase = "read" /\ IsDatagram(message) /\ got = <<>>
  /\ CanRead(Behind(stream), 3)
  /\ got' = <<TriadFrom(NextBytes(Behind(stream), 3))>>
  /\ stream' = Advance(Behind(stream), 3)
  /\ UNCHANGED <<message, todo, written, phase, order, cut>>

\* A round of the loop of Datagram::decodePayload.
ReadPacket ==
  /\ phase = "read" /\ IsDatagram(message) /\ got # <<>>
  /\ ~Feof(stream)
  /\ CanRead(stream, PacketWidth(stream))
  /\ got' = Append(got, PacketIn(stream))
  /\ stream' = Advance(stream, PacketWidth(stream))
  /\ UNCHANGED <<message, todo, written, phase, order, cut>>

ReadEnds ==
  /\ phase = "read"
  /\ IF IsDatagram(message) THEN got # <<>> /\ Feof(stream) ELSE FieldsLeft = <<>>
  /\ phase' = "done"
  /\ UNCHANGED <<message, todo, written, stream, got, order, cut>>

\* The next read needs a byte that is not there, or meets an address of another
\* version: the packet is given up.
ReadThrows ==
  /\ phase = "read"
  /\ IF IsDatagram(message)
     THEN IF got = <<>> THEN ~CanRead(Behind(stream), 3)
          ELSE ~Feof(stream) /\ ~CanRead(stream, PacketWidth(stream))
     ELSE FieldsLeft # <<>> /\ ~Readable(Head(FieldsLeft).kind, Behind(stream))
  /\ phase' = "thrown"
  /\ UNCHANGED <<message, todo, written, stream, got, order, cut>>

Next ==
  \/ PutNext
  \/ \E n \in 1 .. stream.size : Arrive(n)
  \/ ReadField \/ ReadNumber \/ ReadPacket
  \/ ReadEnds \/ ReadThrows

Spec == Init /\ [][Next]_vars

-----------------------------------------------------------------------------
(* Properties *)

\* However often the array is outgrown, the members of the stream agree with it,
\* and it holds the bytes that were put, in order and nothing else
\* (BinaryStream.cpp:155-209).
PutsKept ==
  phase = "put" => StreamOK(stream) /\ Contents(stream) = written

\* The size that sendDatagram takes for a datagram, before it is encoded, is the
\* size it has (Datagram.h:31, EncapsulatedPacket.h:87).
LengthExact ==
  phase = "put" /\ todo = <<>> /\ IsDatagram(message) =>
    stream.size = TotalLength(message.packets)

\* What a receiver can have of a packet: indices have 24 bits on the wire, and
\* those the reliability does not carry are not set.
Sent(p) ==
  [reliability |-> p.reliability, length |-> p.length,
   messageIndex |-> IF IsReliable(p) THEN p.messageIndex % 2 ^ 24 ELSE NoIndex,
   sequencedIndex |-> IF IsSequenced(p) THEN p.sequencedIndex % 2 ^ 24 ELSE NoIndex,
   orderedIndex |-> IF IsSequencedOrOrdered(p) THEN p.orderedIndex % 2 ^ 24 ELSE NoIndex,
   orderChannel |-> IF IsSequencedOrOrdered(p) THEN p.orderChannel ELSE 255,
   payload |-> p.payload]

\* The same value, but for the order in which the bytes of an address are read.
SameValue(kind, v, w) ==
  IF kind = "address"
  THEN v.port = w.port /\ \E perm \in ReadOrder : v.addr = [k \in 1 .. 4 |-> w.addr[perm[k]]]
  ELSE v = w

\* A field or packet that was read is the one that was written at its place,
\* whatever was cut off behind it; a datagram is read rightly up to the first
\* part of a split packet, whose header decode takes for payload.
ReadsAsSent ==
  IF IsDatagram(message)
  THEN /\ got # <<>> => got[1] = message.sequenceNumber % 2 ^ 24
       /\ \A k \in 1 .. Len(got) - 1 :
            \/ k <= Len(message.packets) /\ got[k + 1] = Sent(message.packets[k])
            \/ \E j \in 1 .. k : j <= Len(message.packets) /\ message.packets[j].hasSplit
  ELSE \A k \in DOMAIN got :
         LET field == LayoutOf(message.name).read[k]
         IN  field.name \in DOMAIN message.values =>
               SameValue(field.kind, got[k], message.values[field.name])

IsWhole == ~cut

\* A packet that lacks its end is not taken for a whole one: a simple packet is
\* refused, unless only its padding is short, and a datagram loses whole packets
\* from its end.  One that is whole is read to its end.
CutNoticed ==
  phase = "done" =>
    IF IsDatagram(message)
    THEN \/ \E k \in DOMAIN message.packets : message.packets[k].hasSplit
         \/ /\ IsWhole => Len(got) = Len(message.packets) + 1
            /\ Len(got) <= Len(message.packets) + 1
    ELSE IsWhole \/ message.name = "OpenConnectionRequest1"
=============================================================================
