----------------------------- MODULE Acknowledge -----------------------------
(***************************************************************************)
(* Acknowledge<T>: the message that names datagrams in an ACK or a NACK.   *)
(* encodePayload compresses the sorted numbers into records, one for each  *)
(* number that stands alone and one for each run; decodePayload expands    *)
(* records into numbers.  Each action is one round of a loop.              *)
(*                                                                         *)
(* A behaviour is one message.  Either it is a message of this encoder,    *)
(* read by this decoder: the server reads what a peer that encodes alike   *)
(* sends.  Or it starts at the decoder, with whatever is on the wire.      *)
(***************************************************************************)
EXTENDS Integers, Sequences, FiniteSetsExt

CONSTANTS
  MaxNumber,  \* bound on the numbers (2^24 - 1, they travel as triads)
  MaxLength,  \* bound on the numbers of an encoded message
  MaxRecords, \* bound on the records of any other message
  MaxRange,   \* most numbers the decoder takes from one record (512)
  Word,       \* 2^32: the width of the decoder's subtraction
  CountWord   \* 2^16: the width of the record count

ASSUME AcknowledgeAssumption ==
  /\ MaxNumber \in Nat /\ MaxLength \in Nat /\ MaxRecords \in Nat
  /\ MaxRange \in Nat \ {0}
  /\ Word \in Nat /\ MaxNumber < Word
  /\ CountWord \in Nat \ {0}

Number == 0 .. MaxNumber

\* A record of the payload; the wire holds no last for a single number.
RecordType == [single : BOOLEAN, start : Number, last : Number]

VARIABLES
  sequenceNumbers,       \* the numbers, as std::sort leaves them
  pointer, start, last,  \* the encoder's loop variables, pointer from 1
  payload,               \* the records
  count,                 \* the record count in front of them
  pc,
  record,                \* the decoder's loop variable, from 1
  decoded                \* sequenceNumbers of the decoded message

encodeVars == <<sequenceNumbers, pointer, start, last, payload, count>>
vars == <<encodeVars, pc, record, decoded>>

Sorted(s) == \A i, j \in 1 .. Len(s) : i <= j => s[i] <= s[j]

Lists(S, n) == UNION {[1 .. k -> S] : k \in 0 .. n}

\* The numbers to encode.
InitMessage ==
  /\ sequenceNumbers \in {s \in Lists(Number, MaxLength) : Sorted(s)}
  /\ payload = <<>> /\ count = 0
  /\ pc = "begin"

\* Any message at all comes in, with any count, also one below zero.
InitWire ==
  /\ sequenceNumbers = <<>>
  /\ payload \in Lists(RecordType, MaxRecords)
  /\ count \in -1 .. MaxRecords + 1
  /\ pc = "decode"

Init ==
  /\ InitMessage \/ InitWire
  /\ pointer = 1 /\ start = 0 /\ last = 0
  /\ record = 1 /\ decoded = <<>>

-----------------------------------------------------------------------------
(* encodePayload *)

Encoded(a, b) == [single |-> a = b, start |-> a, last |-> b]

\* Lines 37-43.
Begin ==
  /\ pc = "begin"
  /\ IF sequenceNumbers = <<>>
     THEN pc' = "decode" /\ UNCHANGED <<pointer, start, last>>
     ELSE /\ pc' = "scan" /\ pointer' = 2
          /\ start' = sequenceNumbers[1] /\ last' = sequenceNumbers[1]
  /\ UNCHANGED <<sequenceNumbers, payload, count, record, decoded>>

Current == sequenceNumbers[pointer]

\* Lines 45-47: the next number, which differs from last by d.
NextNumber(d) ==
  /\ pc = "scan" /\ pointer <= Len(sequenceNumbers)
  /\ Current - last = d
  /\ pointer' = pointer + 1
  /\ UNCHANGED <<sequenceNumbers, count, pc, record, decoded>>

\* Neither branch takes a number that is there twice.
Repeat == NextNumber(0) /\ UNCHANGED <<start, last, payload>>

Extend == NextNumber(1) /\ last' = Current /\ UNCHANGED <<start, payload>>

IsGap(d) == d > 1

\* Faulty variant: the run that a gap closes is written one number short.
CloseShort == Append(payload, Encoded(start, IF start = last THEN last ELSE last - 1))

Close == Append(payload, Encoded(start, last))

Break ==
  \E d \in Number :
    /\ IsGap(d)
    /\ NextNumber(d)
    /\ payload' = Close
    /\ start' = Current /\ last' = Current

\* Lines 76 and 15: the number of records is written as a short and read as one
\* with a sign.
AsShort(n) ==
  LET r == n % CountWord
  IN  IF 2 * r < CountWord THEN r ELSE r - CountWord

\* Lines 65-77.
EndEncode ==
  /\ pc = "scan" /\ pointer > Len(sequenceNumbers)
  /\ payload' = Append(payload, Encoded(start, last))
  /\ count' = AsShort(Len(payload) + 1)
  /\ pc' = "decode"
  /\ UNCHANGED <<sequenceNumbers, pointer, start, last, record, decoded>>

-----------------------------------------------------------------------------
(* decodePayload *)

\* Faulty variant: the clamp leaves one number too many.
ClampLate(a, b) == IF (b - a) % Word > MaxRange THEN a + MaxRange + 1 ELSE b

\* Lines 25-26, where end - start is taken modulo 2^32.
ClampEnd(a, b) == IF (b - a) % Word > MaxRange THEN a + MaxRange ELSE b

\* Faulty variant: the loop begins one number early.
RangeEarly(a, b) == [k \in 1 .. ClampEnd(a, b) - a |-> a + k - 2]

\* Lines 28-30: the end itself is left out.
RangeNumbers(a, b) == [k \in 1 .. ClampEnd(a, b) - a |-> a + k - 1]

DecodeRecord ==
  /\ pc = "decode" /\ record <= count /\ record <= Len(payload)
  /\ decoded' = decoded \o
       IF payload[record].single
       THEN <<payload[record].start>>
       ELSE RangeNumbers(payload[record].start, payload[record].last)
  /\ record' = record + 1
  /\ UNCHANGED <<encodeVars, pc>>

\* The message is shorter than its count says: a read throws, and the message
\* that was being filled goes with the stack frame.
Truncated ==
  /\ pc = "decode" /\ record <= count /\ record > Len(payload)
  /\ decoded' = <<>>
  /\ pc' = "thrown"
  /\ UNCHANGED <<encodeVars, record>>

EndDecode ==
  /\ pc = "decode" /\ record > count
  /\ pc' = "done"
  /\ UNCHANGED <<encodeVars, record, decoded>>

Next == Begin \/ Repeat \/ Extend \/ Break \/ EndEncode
          \/ DecodeRecord \/ Truncated \/ EndDecode

Spec == Init /\ [][Next]_vars

-----------------------------------------------------------------------------
(* Properties *)

\* Every variable has its type, and no number read is below zero.
TypeOK ==
  /\ sequenceNumbers \in Seq(Number) /\ Sorted(sequenceNumbers)
  /\ pointer \in Nat \ {0} /\ start \in Number /\ last \in Number
  /\ payload \in Seq(RecordType)
  /\ count \in Int /\ record \in Nat \ {0}
  /\ decoded \in Seq(Nat)
  /\ pc \in {"begin", "scan", "decode", "done", "thrown"}

Covered == UNION {payload[i].start .. payload[i].last : i \in 1 .. Len(payload)}

\* The message comes from this encoder.
Own == sequenceNumbers # <<>>

Exact == pc \in {"decode", "done"} => Covered = Range(sequenceNumbers)

Maximal ==
  \A i, j \in 1 .. Len(payload) : i < j => payload[i].last + 1 < payload[j].start

\* The records name exactly the numbers of the message, whatever numbers are
\* repeated and however they fall into runs, and are the maximal runs: at least
\* one number is missing between two of them (encodePayload).
RecordsExact == Own => Exact /\ Maximal

\* The decoder invents nothing: what it reads was in the message (lines 14-33).
NothingInvented == Own => Range(decoded) \subseteq Range(sequenceNumbers)

\* How many records the decoder looks for.
Announced == IF count > 0 THEN count ELSE 0

\* No message makes the decoder take more than MaxRange numbers for a record it
\* announces, not even one whose end lies before its start or whose count is below
\* zero (lines 15-26).
DecodeBounded == Len(decoded) <= MaxRange * Announced

\* Acknowledge.h:56, "Record type range": a range stands for its numbers, so
\* the decoder reads every number the encoder wrote.
AllDecoded == Own /\ pc = "done" => Range(sequenceNumbers) \subseteq Range(decoded)
=============================================================================
