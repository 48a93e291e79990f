-------------------------- MODULE AcknowledgeProofs --------------------------
(***************************************************************************)
(* Proofs about Acknowledge: the encoder's records are exact and maximal,  *)
(* the decoder invents nothing and takes a bounded number from a record,   *)
(* for messages of any length, any range limit and any word.               *)
(***************************************************************************)
EXTENDS Acknowledge, TLAPS

-----------------------------------------------------------------------------
(* The clamp *)

\* Within the word, the subtraction that may wrap compares as intended: what is
\* left of a range stays below its end, and holds at most MaxRange numbers.
LEMMA ClampWithin ==
  ASSUME NEW a \in Number, NEW b \in Number
  PROVE  /\ ClampEnd(a, b) \in Nat
         /\ ClampEnd(a, b) - a <= MaxRange
         /\ a <= b => ClampEnd(a, b) <= b
<1>1. a \in Nat /\ b \in Nat /\ a < Word /\ b < Word /\ Word \in Nat /\ MaxRange \in Nat
  BY AcknowledgeAssumption DEF Number
<1>2. CASE a <= b
  <2>1. b - a \in Nat /\ b - a < Word
    BY <1>1, <1>2
  <2>2. (b - a) % Word = b - a
    BY <1>1, <2>1
  <2> QED
    BY <1>1, <1>2, <2>2 DEF ClampEnd
<1>3. CASE a > b
  BY <1>1, <1>3 DEF ClampEnd
<1> QED
  BY <1>1, <1>2, <1>3

LEMMA RangeNumbersType ==
  ASSUME NEW a \in Number, NEW b \in Number
  PROVE  /\ RangeNumbers(a, b) \in Seq(Nat)
         /\ Len(RangeNumbers(a, b)) <= MaxRange
         /\ a <= b => Range(RangeNumbers(a, b)) \subseteq a .. b
<1>1. /\ ClampEnd(a, b) \in Nat /\ a \in Nat /\ b \in Nat /\ MaxRange \in Nat
      /\ ClampEnd(a, b) - a <= MaxRange
      /\ a <= b => ClampEnd(a, b) <= b
  BY ClampWithin, AcknowledgeAssumption DEF Number
<1> DEFINE c == ClampEnd(a, b)
<1> HIDE DEF c
<1>2. RangeNumbers(a, b) = [k \in 1 .. c - a |-> a + k - 1]
  BY DEF RangeNumbers, c
<1>3. c \in Nat /\ c - a <= MaxRange /\ (a <= b => c <= b)
  BY <1>1 DEF c
<1>4. a <= b => Range(RangeNumbers(a, b)) \subseteq a .. b
  <2> SUFFICES ASSUME a <= b, NEW k \in 1 .. c - a PROVE a + k - 1 \in a .. b
    BY <1>2 DEF Range
  <2> QED
    BY <1>1, <1>3
<1>5. CASE c - a >= 0
  <2>1. c - a \in Nat /\ \A k \in 1 .. c - a : a + k - 1 \in Nat
    BY <1>1, <1>3, <1>5
  <2>2. RangeNumbers(a, b) \in Seq(Nat) /\ Len(RangeNumbers(a, b)) = c - a
    BY <1>2, <2>1
  <2> QED
    BY <1>3, <1>4, <2>2
<1>6. CASE c - a < 0
  <2>1. 1 .. c - a = {} /\ 1 .. 0 = {}
    BY <1>1, <1>3, <1>6
  <2>2. RangeNumbers(a, b) = [k \in 1 .. 0 |-> a + k - 1]
    BY <1>2, <2>1
  <2>3. RangeNumbers(a, b) \in Seq(Nat) /\ Len(RangeNumbers(a, b)) = 0
    BY <2>1, <2>2
  <2> QED
    BY <1>1, <1>4, <2>3
<1> QED
  BY <1>1, <1>3, <1>5, <1>6

-----------------------------------------------------------------------------
(* Types *)

LEMMA NumbersNat ==
  /\ Number \subseteq Nat
  /\ \A r \in RecordType : r.start \in Number /\ r.last \in Number
BY AcknowledgeAssumption DEF Number, RecordType

LEMMA ListsAreSeqs ==
  ASSUME NEW S, NEW n \in Nat, NEW s \in Lists(S, n)
  PROVE  s \in Seq(S)
BY DEF Lists

LEMMA InitType == Init => TypeOK
<1> SUFFICES ASSUME Init PROVE TypeOK
  OBVIOUS
<1>0. 0 \in Number /\ MaxLength \in Nat /\ MaxRecords \in Nat
  BY AcknowledgeAssumption DEF Number
<1>1. ASSUME InitMessage
      PROVE  /\ sequenceNumbers \in Seq(Number) /\ Sorted(sequenceNumbers)
             /\ payload \in Seq(RecordType) /\ count \in Int /\ pc = "begin"
  BY <1>0, <1>1, ListsAreSeqs DEF InitMessage
<1>2. ASSUME InitWire
      PROVE  /\ sequenceNumbers \in Seq(Number) /\ Sorted(sequenceNumbers)
             /\ payload \in Seq(RecordType) /\ count \in Int /\ pc = "decode"
  <2>1. payload \in Seq(RecordType) /\ count \in Int
    BY <1>0, <1>2, ListsAreSeqs DEF InitWire
  <2>2. sequenceNumbers = <<>> /\ pc = "decode"
    BY <1>2 DEF InitWire
  <2> QED
    BY <2>1, <2>2 DEF Sorted
<1> QED
  BY <1>0, <1>1, <1>2 DEF Init, TypeOK

LEMMA ShortType ==
  ASSUME NEW n \in Nat
  PROVE  AsShort(n) \in Int
<1>1. n % CountWord \in Nat /\ CountWord \in Nat
  BY AcknowledgeAssumption
<1> QED
  BY <1>1 DEF AsShort

LEMMA StepType == TypeOK /\ [Next]_vars => TypeOK'
<1> SUFFICES ASSUME TypeOK, [Next]_vars PROVE TypeOK'
  OBVIOUS
<1> USE DEF TypeOK
<1>1. ASSUME pointer <= Len(sequenceNumbers) PROVE Current \in Number
  BY <1>1 DEF Current
<1>2. CASE Begin
  BY <1>2 DEF Begin
<1>3. CASE Repeat
  BY <1>3 DEF Repeat, NextNumber
<1>4. CASE Extend
  BY <1>1, <1>4 DEF Extend, NextNumber
<1>5. CASE Break
  <2>1. /\ start' \in Number /\ last' \in Number /\ pointer' \in Nat \ {0}
        /\ payload' \in Seq(RecordType)
    BY <1>1, <1>5 DEF Break, NextNumber, Close, Encoded, RecordType
  <2> QED
    BY <1>5, <2>1 DEF Break, NextNumber
<1>6. CASE EndEncode
  <2>1. payload' \in Seq(RecordType)
    BY <1>6 DEF EndEncode, Encoded, RecordType
  <2>2. count' \in Int
    <3>1. Len(payload) + 1 \in Nat
      OBVIOUS
    <3> QED
      BY <1>6, <3>1, ShortType DEF EndEncode
  <2> QED
    BY <1>6, <2>1, <2>2 DEF EndEncode
<1>7. CASE DecodeRecord
  <2>1. payload[record] \in RecordType
    BY <1>7 DEF DecodeRecord
  <2>2. /\ <<payload[record].start>> \in Seq(Nat)
        /\ RangeNumbers(payload[record].start, payload[record].last) \in Seq(Nat)
    <3>1. /\ payload[record].start \in Number /\ payload[record].last \in Number
          /\ payload[record].start \in Nat
      BY <2>1, NumbersNat
    <3>2. \A x \in Nat : <<x>> \in Seq(Nat)
      OBVIOUS
    <3> QED
      BY <3>1, <3>2, RangeNumbersType
  <2>3. decoded' \in Seq(Nat)
    BY <1>7, <2>2 DEF DecodeRecord
  <2> QED
    BY <1>7, <2>3 DEF DecodeRecord, encodeVars
<1>8. CASE Truncated
  BY <1>8 DEF Truncated, encodeVars
<1>9. CASE EndDecode
  BY <1>9 DEF EndDecode, encodeVars
<1>10. CASE UNCHANGED vars
  BY <1>10 DEF vars, encodeVars
<1> QED
  BY <1>2, <1>3, <1>4, <1>5, <1>6, <1>7, <1>8, <1>9, <1>10 DEF Next

-----------------------------------------------------------------------------
(* The encoder *)

\* The loop invariant: the records and the open run start .. last together hold
\* the numbers looked at, and the open run lies beyond every record.
ScanInv ==
  /\ pointer - 1 \in 1 .. Len(sequenceNumbers)
  /\ start <= last /\ last = sequenceNumbers[pointer - 1]
  /\ Covered \cup (start .. last) = {sequenceNumbers[i] : i \in 1 .. pointer - 1}
  /\ \A i \in 1 .. Len(payload) : payload[i].last + 1 < start

EncodeInv ==
  /\ pc = "begin" => payload = <<>>
  /\ pc = "scan" => ScanInv
  /\ \A i \in 1 .. Len(payload) : payload[i].start <= payload[i].last
  /\ Maximal
  /\ Exact

\* What a record appended to the payload adds to the numbers it covers.
LEMMA AppendCovers ==
  ASSUME TypeOK, NEW a \in Number, NEW b \in Number,
         payload' = Append(payload, Encoded(a, b))
  PROVE  /\ Covered' = Covered \cup (a .. b)
         /\ Len(payload') = Len(payload) + 1
         /\ \A i \in 1 .. Len(payload) : payload'[i] = payload[i]
         /\ payload'[Len(payload) + 1].start = a
         /\ payload'[Len(payload) + 1].last = b
<1>1. /\ Len(payload') = Len(payload) + 1 /\ Len(payload) \in Nat
      /\ \A i \in 1 .. Len(payload) : payload'[i] = payload[i]
      /\ payload'[Len(payload) + 1] = Encoded(a, b)
  BY DEF TypeOK
<1>2. Encoded(a, b).start = a /\ Encoded(a, b).last = b
  BY DEF Encoded
<1>3. Covered' = Covered \cup (a .. b)
  <2>1. \A i \in 1 .. Len(payload') : i \in 1 .. Len(payload) \/ i = Len(payload) + 1
    BY <1>1
  <2>2. 1 .. Len(payload) \subseteq 1 .. Len(payload') /\ Len(payload) + 1 \in 1 .. Len(payload')
    BY <1>1
  <2> QED
    BY <1>1, <1>2, <2>1, <2>2 DEF Covered
<1> QED
  BY <1>1, <1>2, <1>3

\* A record that begins with the open run keeps the records maximal.
LEMMA StayMaximal ==
  ASSUME TypeOK, EncodeInv, ScanInv,
         Len(payload') = Len(payload) + 1,
         \A i \in 1 .. Len(payload) : payload'[i] = payload[i],
         payload'[Len(payload) + 1].start = start
  PROVE  Maximal'
<1> SUFFICES ASSUME NEW i \in 1 .. Len(payload'), NEW j \in 1 .. Len(payload'), i < j
             PROVE  payload'[i].last + 1 < payload'[j].start
  BY DEF Maximal
<1>1. Len(payload) \in Nat
  BY DEF TypeOK
<1>2. i \in 1 .. Len(payload) /\ payload'[i] = payload[i]
  BY <1>1
<1>3. CASE j = Len(payload) + 1
  BY <1>2, <1>3 DEF ScanInv
<1>4. CASE j \in 1 .. Len(payload)
  BY <1>2, <1>4 DEF EncodeInv, Maximal
<1> QED
  BY <1>1, <1>3, <1>4

LEMMA InitEncode == Init => (Own => EncodeInv)
BY DEF Init, InitMessage, InitWire, Own, EncodeInv, Maximal, Exact

LEMMA StepEncode == TypeOK /\ EncodeInv /\ [Next]_vars => EncodeInv'
<1> SUFFICES ASSUME TypeOK, EncodeInv, [Next]_vars PROVE EncodeInv'
  OBVIOUS
<1>0. /\ sequenceNumbers \in Seq(Number) /\ pointer \in Nat /\ Len(payload) \in Nat
      /\ start \in Nat /\ last \in Nat
      /\ \A i \in 1 .. Len(payload) : payload[i].start \in Nat /\ payload[i].last \in Nat
  <2>1. \A i \in 1 .. Len(payload) : payload[i] \in RecordType
    BY DEF TypeOK
  <2>2. start \in Nat /\ last \in Nat
    BY NumbersNat DEF TypeOK
  <2>3. \A i \in 1 .. Len(payload) : payload[i].start \in Nat /\ payload[i].last \in Nat
    BY <2>1, NumbersNat
  <2> QED
    BY <2>2, <2>3 DEF TypeOK
<1>00. \A i \in 1 .. Len(sequenceNumbers) : sequenceNumbers[i] \in Nat
  <2>1. \A i \in 1 .. Len(sequenceNumbers) : sequenceNumbers[i] \in Number
    BY <1>0
  <2> QED
    BY <2>1, NumbersNat
<1>1. CASE Begin
  <2>1. CASE sequenceNumbers = <<>>
    <3>1. Covered = {} /\ Range(sequenceNumbers) = {}
      BY <1>1, <2>1 DEF Begin, EncodeInv, Covered, Range
    <3> QED
      BY <1>1, <2>1, <3>1 DEF Begin, EncodeInv, Maximal, Exact, Covered
  <2>2. CASE sequenceNumbers # <<>>
    <3>1. pc' = "scan" /\ payload = <<>> /\ payload' = <<>>
      BY <1>1, <2>2 DEF Begin, EncodeInv
    <3>2. pointer' = 2 /\ start' = sequenceNumbers[1] /\ last' = sequenceNumbers[1]
      BY <1>1, <2>2 DEF Begin
    <3>3. 1 \in 1 .. Len(sequenceNumbers) /\ sequenceNumbers[1] \in Nat
      BY <1>0, <1>00, <2>2
    <3>4. Covered' = {}
      BY <3>1 DEF Covered
    <3>5. start' .. last' = {sequenceNumbers[i] : i \in 1 .. pointer' - 1}
      BY <3>2, <3>3
    <3>6. ScanInv'
      BY <1>1, <3>1, <3>2, <3>3, <3>4, <3>5 DEF ScanInv, Begin
    <3> QED
      BY <3>1, <3>6 DEF EncodeInv, Maximal, Exact
  <2> QED
    BY <2>1, <2>2
<1>2. ASSUME NEW d \in Nat, NextNumber(d)
      PROVE  /\ ScanInv
             /\ pc = "scan" /\ pc' = "scan" /\ pointer' = pointer + 1
             /\ sequenceNumbers' = sequenceNumbers
             /\ pointer \in 1 .. Len(sequenceNumbers)
             /\ Current = last + d
             /\ {sequenceNumbers[i] : i \in 1 .. pointer} =
                  {sequenceNumbers[i] : i \in 1 .. pointer - 1} \cup {last + d}
  <2>1. pointer \in 1 .. Len(sequenceNumbers) /\ Current = last + d
    <3>1. ScanInv /\ pointer <= Len(sequenceNumbers) /\ Current - last = d
      BY <1>2 DEF NextNumber, EncodeInv
    <3>2. pointer \in 1 .. Len(sequenceNumbers)
      BY <1>0, <3>1 DEF ScanInv
    <3>3. Current \in Nat
      BY <1>00, <3>2 DEF Current
    <3> QED
      BY <1>0, <3>1, <3>2, <3>3
  <2>2. 1 .. pointer = (1 .. pointer - 1) \cup {pointer}
    BY <1>0, <2>1
  <2> QED
    BY <1>2, <2>1, <2>2 DEF NextNumber, EncodeInv, Current
<1>3. CASE Repeat
  <2>1. NextNumber(0) /\ UNCHANGED <<start, last, payload>>
    BY <1>3 DEF Repeat
  <2>2. Covered' = Covered /\ pointer' - 1 = pointer /\ last + 0 = last
    BY <1>0, <1>2, <2>1 DEF Covered
  <2>3. last \in start .. last /\ Current = last
    BY <1>0, <1>2, <2>1 DEF ScanInv
  <2>4. Covered' \cup (start' .. last') =
          {sequenceNumbers'[i] : i \in 1 .. pointer' - 1}
    <3>1. Covered \cup (start .. last) = {sequenceNumbers[i] : i \in 1 .. pointer}
      <4>1. Covered \cup (start .. last) = {sequenceNumbers[i] : i \in 1 .. pointer - 1}
        BY <1>2, <2>1 DEF ScanInv
      <4>2. {sequenceNumbers[i] : i \in 1 .. pointer} =
              {sequenceNumbers[i] : i \in 1 .. pointer - 1} \cup {last}
        <5>1. last + 0 = last
          BY <2>2
        <5> QED
          BY <1>2, <2>1, <5>1
      <4>3. last \in Covered \cup (start .. last)
        BY <2>3
      <4> QED
        BY <4>1, <4>2, <4>3, Zenon
    <3> QED
      BY <1>2, <2>1, <2>2, <3>1
  <2>5. ScanInv'
    BY <1>2, <2>1, <2>2, <2>3, <2>4 DEF ScanInv, Current
  <2> QED
    BY <1>2, <2>1, <2>5 DEF EncodeInv, Maximal, Exact
<1>4. CASE Extend
  <2>1. NextNumber(1) /\ last' = last + 1 /\ start' = start /\ payload' = payload
    BY <1>2, <1>4 DEF Extend
  <2>2. start .. last + 1 = (start .. last) \cup {last + 1}
    BY <1>0, <1>2, <2>1 DEF ScanInv
  <2>3. Covered' = Covered /\ pointer' - 1 = pointer /\ start <= last + 1
    BY <1>0, <1>2, <2>1 DEF Covered, ScanInv
  <2>4. Covered' \cup (start' .. last') =
          {sequenceNumbers'[i] : i \in 1 .. pointer' - 1}
    <3>1. Covered \cup (start .. last + 1) = {sequenceNumbers[i] : i \in 1 .. pointer}
      BY <1>2, <2>1, <2>2 DEF ScanInv
    <3> QED
      BY <1>2, <2>1, <2>3, <3>1
  <2>5. ScanInv'
    BY <1>2, <2>1, <2>3, <2>4 DEF ScanInv, Current
  <2> QED
    BY <1>2, <2>1, <2>5 DEF EncodeInv, Maximal, Exact
<1>5. CASE Break
  <2>1. PICK d \in Nat : /\ d > 1 /\ NextNumber(d)
                         /\ payload' = Append(payload, Encoded(start, last))
                         /\ start' = Current /\ last' = Current
    BY <1>5 DEF Break, IsGap, Close, Number
  <2>2. /\ Covered' = Covered \cup (start .. last)
        /\ Len(payload') = Len(payload) + 1
        /\ \A i \in 1 .. Len(payload) : payload'[i] = payload[i]
        /\ payload'[Len(payload) + 1].start = start
        /\ payload'[Len(payload) + 1].last = last
    BY <2>1, AppendCovers DEF TypeOK
  <2>3. start' = last + d /\ last' = last + d
    BY <1>2, <2>1
  <2>4. \A i \in 1 .. Len(payload') : payload'[i].last + 1 < start'
    BY <1>0, <1>2, <2>1, <2>2, <2>3, SMTT(30) DEF ScanInv
  <2>5. start' .. last' = {last + d}
    BY <1>0, <2>3
  <2>6. ScanInv'
    <3>1. pointer' - 1 = pointer
      BY <1>0, <1>2, <2>1
    <3>2. Covered' \cup (start' .. last') =
            {sequenceNumbers'[i] : i \in 1 .. pointer' - 1}
      <4>1. Covered' \cup {last + d} = {sequenceNumbers[i] : i \in 1 .. pointer}
        BY <1>2, <2>1, <2>2 DEF ScanInv
      <4> QED
        BY <1>2, <2>1, <2>5, <3>1, <4>1, SMTT(30)
    <3>3. start' <= last' /\ last' = sequenceNumbers'[pointer]
      <4>1. last + d \in Nat
        BY <1>0, <2>1
      <4>2. last' = sequenceNumbers[pointer]
        BY <2>1 DEF Current
      <4>3. sequenceNumbers' = sequenceNumbers
        BY <1>2, <2>1
      <4> QED
        BY <2>3, <4>1, <4>2, <4>3
    <3>4. pointer \in 1 .. Len(sequenceNumbers')
      BY <1>2, <2>1
    <3> QED
      BY <2>4, <3>1, <3>2, <3>3, <3>4 DEF ScanInv
  <2>7. Maximal'
    BY <1>2, <2>1, <2>2, StayMaximal
  <2>8. \A i \in 1 .. Len(payload') : payload'[i].start <= payload'[i].last
    BY <1>0, <1>2, <2>1, <2>2 DEF EncodeInv, ScanInv
  <2> QED
    BY <1>2, <2>1, <2>6, <2>7, <2>8 DEF EncodeInv, Exact
<1>6. CASE EndEncode
  <2>1. ScanInv /\ pointer - 1 = Len(sequenceNumbers)
    BY <1>0, <1>6 DEF EndEncode, EncodeInv, ScanInv
  <2>2. /\ Covered' = Covered \cup (start .. last)
        /\ Len(payload') = Len(payload) + 1
        /\ \A i \in 1 .. Len(payload) : payload'[i] = payload[i]
        /\ payload'[Len(payload) + 1].start = start
        /\ payload'[Len(payload) + 1].last = last
    BY <1>6, AppendCovers DEF EndEncode, TypeOK
  <2>3. Covered' = Range(sequenceNumbers)
    <3>1. DOMAIN sequenceNumbers = 1 .. pointer - 1
      BY <1>0, <2>1
    <3> QED
      BY <2>1, <2>2, <3>1 DEF ScanInv, Range
  <2>4. Maximal'
    BY <2>1, <2>2, StayMaximal
  <2>5. \A i \in 1 .. Len(payload') : payload'[i].start <= payload'[i].last
    BY <1>0, <2>1, <2>2, SMTT(30) DEF EncodeInv, ScanInv
  <2> QED
    BY <1>6, <2>3, <2>4, <2>5 DEF EndEncode, EncodeInv, Exact
<1>7. ASSUME UNCHANGED encodeVars, pc' \notin {"begin", "scan"},
             pc' \in {"decode", "done"} => pc \in {"decode", "done"}
      PROVE  EncodeInv'
  <2>1. Covered' = Covered /\ payload' = payload /\ sequenceNumbers' = sequenceNumbers
    BY <1>7 DEF encodeVars, Covered
  <2> QED
    BY <1>7, <2>1 DEF EncodeInv, Maximal, Exact
<1>8. CASE DecodeRecord \/ Truncated \/ EndDecode
  BY <1>7, <1>8 DEF DecodeRecord, Truncated, EndDecode
<1>9. CASE UNCHANGED vars
  <2>1. /\ Covered' = Covered /\ payload' = payload /\ pc' = pc /\ pointer' = pointer
        /\ start' = start /\ last' = last /\ sequenceNumbers' = sequenceNumbers
    BY <1>9 DEF vars, encodeVars, Covered
  <2> QED
    BY <2>1 DEF EncodeInv, ScanInv, Maximal, Exact
<1> QED
  BY <1>1, <1>3, <1>4, <1>5, <1>6, <1>8, <1>9 DEF Next

-----------------------------------------------------------------------------
(* The decoder *)

LEMMA RangeOfConcat ==
  ASSUME NEW s \in Seq(Nat), NEW t \in Seq(Nat), NEW S,
         Range(s) \subseteq S, Range(t) \subseteq S
  PROVE  Range(s \o t) \subseteq S
<1> SUFFICES ASSUME NEW i \in 1 .. Len(s) + Len(t) PROVE (s \o t)[i] \in S
  BY DEF Range
<1>1. CASE i <= Len(s)
  BY <1>1 DEF Range
<1>2. CASE i > Len(s)
  BY <1>2 DEF Range
<1> QED
  BY <1>1, <1>2

\* What has been read comes from the records; before the decoder starts, and
\* after it threw, nothing has been.
DecodeInv ==
  /\ pc \in {"begin", "scan", "thrown"} => decoded = <<>>
  /\ Range(decoded) \subseteq Covered

LEMMA StepDecode == TypeOK /\ EncodeInv /\ DecodeInv /\ [Next]_vars => DecodeInv'
<1> SUFFICES ASSUME TypeOK, EncodeInv, DecodeInv, [Next]_vars PROVE DecodeInv'
  OBVIOUS
<1>1. CASE DecodeRecord
  <2>1. /\ record \in 1 .. Len(payload) /\ payload' = payload
        /\ payload[record] \in RecordType
    BY <1>1 DEF DecodeRecord, TypeOK, encodeVars
  <2> DEFINE a == payload[record].start
             b == payload[record].last
             t == IF payload[record].single THEN <<a>> ELSE RangeNumbers(a, b)
  <2>2. a \in Number /\ b \in Number /\ a <= b /\ a \in Nat /\ b \in Nat
    BY <2>1, NumbersNat DEF EncodeInv
  <2>3. a .. b \subseteq Covered
    BY <2>1 DEF Covered
  <2>4. t \in Seq(Nat) /\ Range(t) \subseteq Covered
    <3>1. <<a>> \in Seq(Nat) /\ Range(<<a>>) \subseteq a .. b
      BY <2>2 DEF Range
    <3>2. RangeNumbers(a, b) \in Seq(Nat) /\ Range(RangeNumbers(a, b)) \subseteq a .. b
      BY <2>2, RangeNumbersType
    <3> QED
      BY <2>3, <3>1, <3>2
  <2>5. decoded' = decoded \o t /\ pc' = pc /\ pc = "decode"
    BY <1>1 DEF DecodeRecord
  <2> HIDE DEF t
  <2>6. Range(decoded \o t) \subseteq Covered
    BY <2>4, RangeOfConcat DEF DecodeInv, TypeOK
  <2>7. Covered' = Covered
    BY <2>1 DEF Covered
  <2> QED
    BY <2>5, <2>6, <2>7 DEF DecodeInv
<1>2. CASE Begin \/ Repeat \/ Extend \/ Break \/ EndEncode \/ Truncated
  <2>1. decoded' = <<>>
    BY <1>2 DEF Begin, Repeat, Extend, Break, NextNumber, EndEncode, Truncated, DecodeInv
  <2> QED
    BY <2>1 DEF DecodeInv, Range
<1>3. CASE EndDecode \/ UNCHANGED vars
  BY <1>3 DEF EndDecode, vars, encodeVars, DecodeInv, Covered
<1> QED
  BY <1>1, <1>2, <1>3 DEF Next

-----------------------------------------------------------------------------
(* The theorems *)

\* What holds of a message of this encoder: encodePayload and decodePayload
\* leave the numbers it was made of alone.
OwnInv == Own => EncodeInv /\ DecodeInv

LEMMA InitOwn == Init => OwnInv
BY InitEncode DEF Init, InitMessage, InitWire, OwnInv, Own, DecodeInv, Range

LEMMA StepOwn == TypeOK /\ OwnInv /\ [Next]_vars => OwnInv'
<1> SUFFICES ASSUME TypeOK, OwnInv, [Next]_vars, Own' PROVE EncodeInv' /\ DecodeInv'
  BY DEF OwnInv
<1>1. sequenceNumbers' = sequenceNumbers
  BY DEF Next, Begin, Repeat, Extend, Break, NextNumber, EndEncode, DecodeRecord,
         Truncated, EndDecode, vars, encodeVars
<1>2. Own
  BY <1>1 DEF Own
<1> QED
  BY <1>2, StepEncode, StepDecode DEF OwnInv

\* The records of a message are the maximal runs of its numbers (encodePayload).
THEOREM EncoderExact == Spec => []RecordsExact
<1>1. Init => TypeOK /\ OwnInv
  BY InitType, InitOwn
<1>2. TypeOK /\ OwnInv /\ [Next]_vars => (TypeOK /\ OwnInv)'
  BY StepType, StepOwn
<1>3. OwnInv => RecordsExact
  BY DEF OwnInv, EncodeInv, RecordsExact
<1> QED
  BY <1>1, <1>2, <1>3, PTL DEF Spec

\* An acknowledgement is never read for a number it does not name
\* (decodePayload, lines 14-33).
THEOREM DecoderSound == Spec => []NothingInvented
<1>1. Init => TypeOK /\ OwnInv
  BY InitType, InitOwn
<1>2. TypeOK /\ OwnInv /\ [Next]_vars => (TypeOK /\ OwnInv)'
  BY StepType, StepOwn
<1>3. TypeOK /\ OwnInv => NothingInvented
  <2> SUFFICES ASSUME TypeOK, Own, EncodeInv, DecodeInv
               PROVE  Range(decoded) \subseteq Range(sequenceNumbers)
    BY DEF NothingInvented, OwnInv
  <2>1. CASE pc \in {"decode", "done"}
    BY <2>1 DEF EncodeInv, DecodeInv, Exact
  <2>2. CASE decoded = <<>>
    BY <2>2 DEF Range
  <2> QED
    BY <2>1, <2>2 DEF TypeOK, DecodeInv
<1> QED
  BY <1>1, <1>2, <1>3, PTL DEF Spec

\* The most numbers that k records yield.
Room(k) == MaxRange * k

LEMMA RoomGrows ==
  /\ Room(0) = 0
  /\ \A k \in Nat : Room(k) \in Nat /\ Room(k + 1) = Room(k) + MaxRange
  /\ \A k, d \in Nat : Room(k) <= Room(k + d)
<1>1. MaxRange \in Nat
  BY AcknowledgeAssumption
<1>2. MaxRange * 0 = 0
  BY <1>1
<1>3. ASSUME NEW k \in Nat
      PROVE  MaxRange * k \in Nat /\ MaxRange * (k + 1) = MaxRange * k + MaxRange
  BY <1>1
<1>4. ASSUME NEW k \in Nat, NEW d \in Nat
      PROVE  MaxRange * k <= MaxRange * (k + d)
  <2>1. MaxRange * (k + d) = MaxRange * k + MaxRange * d
    BY <1>1
  <2>2. MaxRange * k \in Nat /\ MaxRange * d \in Nat
    BY <1>1
  <2> QED
    BY <2>1, <2>2
<1> QED
  BY <1>2, <1>3, <1>4 DEF Room

\* Every record read so far has yielded at most MaxRange numbers.
BoundInv ==
  /\ record <= Announced + 1
  /\ Len(decoded) <= Room(record - 1)
  /\ pc \in {"begin", "scan"} => record = 1

LEMMA StepBound == TypeOK /\ BoundInv /\ [Next]_vars => BoundInv'
<1> SUFFICES ASSUME TypeOK, BoundInv, [Next]_vars PROVE BoundInv'
  OBVIOUS
<1>1. /\ count \in Int /\ record \in Nat \ {0} /\ decoded \in Seq(Nat)
      /\ Room(record - 1) \in Nat
  <2>1. count \in Int /\ record \in Nat \ {0} /\ decoded \in Seq(Nat)
    BY DEF TypeOK
  <2>2. record - 1 \in Nat
    BY <2>1
  <2> QED
    BY <2>1, <2>2, RoomGrows
<1>2. CASE DecodeRecord
  <2>1. /\ record <= count /\ record' = record + 1 /\ count' = count /\ pc' = pc
        /\ pc = "decode" /\ payload[record] \in RecordType
    BY <1>2 DEF DecodeRecord, TypeOK, encodeVars
  <2> DEFINE a == payload[record].start
             b == payload[record].last
             t == IF payload[record].single THEN <<a>> ELSE RangeNumbers(a, b)
  <2>2. t \in Seq(Nat) /\ Len(t) <= MaxRange
    <3>1. a \in Number /\ b \in Number /\ a \in Nat
      BY <2>1, NumbersNat
    <3>2. <<a>> \in Seq(Nat) /\ Len(<<a>>) <= MaxRange
      BY <3>1, AcknowledgeAssumption
    <3> QED
      BY <3>1, <3>2, RangeNumbersType
  <2>3. decoded' = decoded \o t
    BY <1>2 DEF DecodeRecord
  <2> HIDE DEF t
  <2>4. Len(decoded') = Len(decoded) + Len(t) /\ Len(decoded) \in Nat /\ Len(t) \in Nat
    BY <1>1, <2>2, <2>3
  <2>5. Room(record' - 1) = Room(record - 1) + MaxRange
    <3>1. record - 1 \in Nat /\ record' - 1 = (record - 1) + 1
      BY <1>1, <2>1
    <3> QED
      BY <3>1, RoomGrows
  <2>6. Len(decoded') <= Room(record' - 1)
    BY <1>1, <2>2, <2>4, <2>5, AcknowledgeAssumption DEF BoundInv
  <2> QED
    BY <1>1, <2>1, <2>6 DEF BoundInv, Announced
<1>3. CASE Truncated
  <2>1. Len(decoded') = 0 /\ record' = record /\ count' = count /\ pc' = "thrown"
    BY <1>3 DEF Truncated, encodeVars
  <2>2. Room(record' - 1) \in Nat
    BY <1>1, <2>1
  <2>3. Len(decoded') <= Room(record' - 1)
    BY <2>1, <2>2
  <2> QED
    BY <2>1, <2>3 DEF BoundInv, Announced
<1>4. CASE EndEncode
  <2>1. /\ record' = 1 /\ record = 1 /\ decoded' = decoded /\ pc' = "decode"
    BY <1>4 DEF EndEncode, TypeOK, BoundInv
  <2>2. record' <= Announced' + 1
    <3>1. \A n \in Nat : 1 <= n + 1
      OBVIOUS
    <3>2. Announced' \in Nat
      <4>1. count' \in Int
        BY StepType, <1>4 DEF Next, TypeOK
      <4> QED
        BY <4>1 DEF Announced
    <3> QED
      BY <2>1, <3>1, <3>2, Zenon
  <2>3. Len(decoded') <= Room(record' - 1)
    BY <2>1 DEF BoundInv
  <2> QED
    BY <2>1, <2>2, <2>3 DEF BoundInv
<1>5. CASE Begin \/ Repeat \/ Extend \/ Break \/ EndDecode \/ UNCHANGED vars
  <2>1. /\ record' = record /\ decoded' = decoded /\ count' = count
        /\ pc' \in {"begin", "scan"} => pc \in {"begin", "scan"}
    BY <1>5 DEF Begin, Repeat, Extend, Break, NextNumber, EndDecode, vars, encodeVars
  <2> QED
    BY <2>1 DEF BoundInv, Announced
<1> QED
  BY <1>2, <1>3, <1>4, <1>5 DEF Next

\* No message, whatever its records and its count say, makes the decoder take
\* more than MaxRange numbers for a record (decodePayload, lines 25-26).
THEOREM DecoderBounded == Spec => []DecodeBounded
<1>1. Init => TypeOK /\ BoundInv
  <2>1. Init => record = 1 /\ decoded = <<>>
    BY DEF Init
  <2>2. ASSUME TypeOK, record = 1, decoded = <<>> PROVE BoundInv
    <3>1. record - 1 = 0 /\ Len(decoded) = 0 /\ record <= Announced + 1
      BY <2>2 DEF TypeOK, Announced
    <3>2. Len(decoded) <= Room(record - 1)
      BY <3>1, RoomGrows
    <3> QED
      BY <2>2, <3>1, <3>2 DEF BoundInv
  <2> QED
    BY <2>1, <2>2, InitType
<1>2. TypeOK /\ BoundInv /\ [Next]_vars => (TypeOK /\ BoundInv)'
  BY StepType, StepBound
<1>3. TypeOK /\ BoundInv => DecodeBounded
  <2> SUFFICES ASSUME TypeOK, BoundInv PROVE Len(decoded) <= Room(Announced)
    BY DEF DecodeBounded, Room
  <2>1. /\ Announced \in Nat /\ record - 1 \in Nat /\ Len(decoded) \in Nat
        /\ Announced - (record - 1) \in Nat
        /\ Announced = (record - 1) + (Announced - (record - 1))
    BY DEF TypeOK, BoundInv, Announced
  <2>2. Room(record - 1) <= Room(Announced)
    BY <2>1, RoomGrows
  <2>3. Room(record - 1) \in Nat /\ Room(Announced) \in Nat
    BY <2>1, RoomGrows
  <2> QED
    BY <2>1, <2>2, <2>3 DEF BoundInv
<1> QED
  BY <1>1, <1>2, <1>3, PTL DEF Spec
=============================================================================
