----------------------------- MODULE BinaryStream -----------------------------
(***************************************************************************)
(* BinaryStream, a byte buffer that grows as it is written and has a       *)
(* position for reading, and the conversions between values and bytes of   *)
(* BinaryStream and PacketSerializer.                                      *)
(*                                                                         *)
(* A stream is a record of the members: cells is the array they point to,  *)
(* empty for the null pointer.  A byte is a number below 256, and a value  *)
(* of 64 bits the sequence of its bytes, the highest first.  endian is     *)
(* BENDIAN throughout, as changeEndian has no caller.                      *)
(***************************************************************************)
EXTENDS Integers, SequencesExt

BLOCK == 4

\* What a cell holds until it is written, and what lies beyond the array.
Unwritten == -1

Byte == 0 .. 255

\* The members agree with the array, and what the stream holds are bytes.
StreamOK(s) ==
  /\ s \in [cells : Seq(Int), capacity : Nat, size : Nat, position : Nat]
  /\ s.capacity = Len(s.cells) /\ s.size <= s.capacity
  /\ \A k \in 1 .. s.size : s.cells[k] \in Byte

\* The default constructor; clear.
EmptyStream == [cells |-> <<>>, capacity |-> 0, size |-> 0, position |-> 0]

\* The constructor that copies an array, and the copy constructor.
StreamOf(bytes) ==
  [cells |-> bytes, capacity |-> Len(bytes), size |-> Len(bytes), position |-> 0]

\* An array of n cells that begins with the bytes.
Allocated(n, bytes) ==
  [k \in 1 .. n |-> IF k <= Len(bytes) THEN bytes[k] ELSE Unwritten]

Contents(s) ==
  [k \in 1 .. s.size |-> IF k <= Len(s.cells) THEN s.cells[k] ELSE Unwritten]

\* Faulty variant: the array is taken to have a cell more than it has.
PutTight(s, data) ==
  LET n == s.size + Len(data)
  IN  IF s.capacity + 1 < n
      THEN [s EXCEPT !.cells = Allocated(n + BLOCK, Contents(s) \o data),
                     !.capacity = n + BLOCK, !.size = n]
      ELSE [s EXCEPT !.cells = [k \in DOMAIN @ |-> IF k > s.size /\ k <= n
                                                   THEN data[k - s.size] ELSE @[k]],
                     !.size = n]

\* put, and putByte for one byte: when the array is full its contents and the
\* data move to one with BLOCK cells to spare.
Put(s, data) ==
  LET n == s.size + Len(data)
  IN  IF s.capacity < n
      THEN [s EXCEPT !.cells = Allocated(n + BLOCK, Contents(s) \o data),
                     !.capacity = n + BLOCK, !.size = n]
      ELSE [s EXCEPT !.cells = [k \in DOMAIN @ |-> IF k > s.size /\ k <= n
                                                   THEN data[k - s.size] ELSE @[k]],
                     !.size = n]

\* n calls of readByte do not throw.
CanRead(s, n) == s.position + n <= s.size

\* The n bytes from the position on, and the stream when they have been read.
NextBytes(s, n) ==
  [k \in 1 .. n |-> IF s.position + k <= Len(s.cells)
                    THEN s.cells[s.position + k] ELSE Unwritten]

Advance(s, n) == [s EXCEPT !.position = @ + n]

Feof(s) == s.position = s.size

-----------------------------------------------------------------------------
(* Values *)

\* value >> 8k, cut to a byte.
ByteOf(value, k) == (value \div 256 ^ k) % 256

BigEndian(value, n) == [k \in 1 .. n |-> ByteOf(value, n - k)]

\* putLTriad for n = 3.
LittleEndian(value, n) == [k \in 1 .. n |-> ByteOf(value, k - 1)]

\* Faulty variant of the next: the first byte is taken for the highest.
TriadFromHigh(bytes) == bytes[3] + 256 * bytes[2] + 65536 * bytes[1]

\* readLTriad and readUShort.
TriadFrom(bytes) == bytes[1] + 256 * bytes[2] + 65536 * bytes[3]
ShortFrom(bytes) == 256 * bytes[1] + bytes[2]

Magic ==
  <<0, 255, 255, 0, 254, 254, 254, 254, 253, 253, 253, 253, 18, 52, 86, 120>>

\* The bytes of a value of each kind.
Encoded(kind, value) ==
  CASE kind = "byte"    -> <<value % 256>>
    [] kind = "boolean" -> <<IF value THEN 1 ELSE 0>>
    [] kind = "short"   -> BigEndian(value, 2)
    [] kind = "long"    -> value
    [] kind = "magic"   -> Magic
    [] kind = "address" -> <<value.version>> \o value.addr \o BigEndian(value.port, 2)
    [] kind = "string"  -> BigEndian(Len(value), 2) \o value
    [] kind = "padding" -> value

\* How many bytes are read for a value.  The length of a string comes first, if
\* there are bytes for it.
Width(kind, s) ==
  CASE kind = "byte"    -> 1
    [] kind = "boolean" -> 1
    [] kind = "short"   -> 2
    [] kind = "long"    -> 8
    [] kind = "magic"   -> 16
    [] kind = "address" -> 7
    [] kind = "string"  -> 2 + IF CanRead(s, 2) THEN ShortFrom(NextBytes(s, 2)) ELSE 0
    [] kind = "rest"    -> 0

\* Faulty variant: a string may end where the stream ends.
ReadableShort(kind, s) ==
  \/ kind = "magic"
  \/ kind = "string" /\ CanRead(s, 2)
  \/ CanRead(s, Width(kind, s)) /\ (kind = "address" => NextBytes(s, 1) = <<4>>)

\* readMagic moves the position without a look; the others read byte by byte.
\* readAddress throws at a version that is not 4.
Readable(kind, s) ==
  \/ kind = "magic"
  \/ CanRead(s, Width(kind, s)) /\ (kind = "address" => NextBytes(s, 1) = <<4>>)

\* The value in the bytes.  readAddress reads the four bytes of the address as
\* the operands of one chain of +, which the compiler may evaluate in any
\* order: operand k gets the byte that is read at order[k].
Decoded(kind, bytes, order) ==
  CASE kind = "byte"    -> bytes[1]
    [] kind = "boolean" -> bytes[1] = 1
    [] kind = "short"   -> ShortFrom(bytes)
    [] kind = "long"    -> bytes
    [] kind = "address" -> [version |-> 4, addr |-> [k \in 1 .. 4 |-> bytes[1 + order[k]]],
                            port |-> ShortFrom(<<bytes[6], bytes[7]>>)]
    [] kind = "string"  -> SubSeq(bytes, 3, Len(bytes))
=============================================================================
