------------------------------ MODULE WireProofs ------------------------------
(***************************************************************************)
(* For all messages: what is put into a stream stays in it, a datagram     *)
(* takes as many bytes as getTotalLength says before it is encoded, what   *)
(* is read is what was sent, and what lacks its end is not read as whole.  *)
(*                                                                         *)
(* The calls of put are compared with the pieces of a message, its fields  *)
(* or packets, by where each piece lies (Spells).  A reader that stands at *)
(* the place of a piece finds it there and moves to the next.              *)
(***************************************************************************)
EXTENDS Wire, SequenceTheorems, WellFoundedInduction, TLAPS

\* Sequences of the same elements are the same.
LEMMA SameElements ==
  ASSUME NEW S, NEW a \in Seq(S), NEW b \in Seq(S), Len(a) = Len(b),
         \A k \in 1 .. Len(a) : a[k] = b[k]
  PROVE  a = b
OBVIOUS

LEMMA ElementIsByte ==
  ASSUME NEW bytes \in Seq(Byte), NEW k \in 1 .. Len(bytes)
  PROVE  bytes[k] \in Byte /\ bytes[k] \in Int
<1>1. bytes[k] \in Byte
  OBVIOUS
<1>2. \A b \in Byte : b \in Int
  BY DEF Byte
<1> QED
  BY <1>1, <1>2

\* An array that was made for a sequence begins with it.
LEMMA AllocatedBegins ==
  ASSUME NEW n \in Nat, NEW bytes \in Seq(Byte), Len(bytes) <= n
  PROVE  /\ Allocated(n, bytes) \in Seq(Int)
         /\ Len(Allocated(n, bytes)) = n
         /\ \A k \in 1 .. Len(bytes) : Allocated(n, bytes)[k] = bytes[k]
<1> DEFINE a == Allocated(n, bytes)
<1>1. a = [k \in 1 .. n |-> IF k <= Len(bytes) THEN bytes[k] ELSE Unwritten]
  BY DEF Allocated
<1>2. \A k \in 1 .. n : a[k] \in Int
  <2> SUFFICES ASSUME NEW k \in 1 .. n PROVE a[k] \in Int
    OBVIOUS
  <2>1. a[k] = IF k <= Len(bytes) THEN bytes[k] ELSE Unwritten
    BY <1>1
  <2>2. k <= Len(bytes) => bytes[k] \in Int
    BY ElementIsByte
  <2>3. Unwritten \in Int
    BY DEF Unwritten
  <2> QED
    BY <2>1, <2>2, <2>3
<1>3. a \in [1 .. n -> Int]
  BY <1>1, <1>2
<1> HIDE DEF a
<1>4. a \in Seq(Int) /\ Len(a) = n
  BY <1>3
<1>5. \A k \in 1 .. Len(bytes) : a[k] = bytes[k]
  BY <1>1
<1> QED
  BY <1>4, <1>5 DEF a

\* A well-formed stream holds a sequence of bytes.
LEMMA ContentsBytes ==
  ASSUME NEW s, StreamOK(s)
  PROVE  /\ Contents(s) \in Seq(Byte) /\ Len(Contents(s)) = s.size
         /\ \A k \in 1 .. s.size : Contents(s)[k] = s.cells[k]
<1>1. s.size \in Nat /\ Len(s.cells) \in Nat /\ s.size <= Len(s.cells)
  BY DEF StreamOK
<1>2. \A k \in 1 .. s.size : k <= Len(s.cells) /\ s.cells[k] \in Byte
  BY <1>1 DEF StreamOK
<1>3. Contents(s) = [k \in 1 .. s.size |-> s.cells[k]]
  BY <1>2 DEF Contents
<1>4. Contents(s) \in [1 .. s.size -> Byte]
  BY <1>2, <1>3
<1> QED
  BY <1>1, <1>3, <1>4

\* put appends, whether the array grows or not, and keeps the stream well formed.
LEMMA PutAppends ==
  ASSUME NEW s, StreamOK(s), NEW data \in Seq(Byte)
  PROVE  StreamOK(Put(s, data)) /\ Contents(Put(s, data)) = Contents(s) \o data
<1> DEFINE old == Contents(s)
           n == s.size + Len(data)
           t == Put(s, data)
           all == old \o data
<1>1. /\ s \in [cells : Seq(Int), capacity : Nat, size : Nat, position : Nat]
      /\ s.capacity = Len(s.cells) /\ s.size <= s.capacity
      /\ \A k \in 1 .. s.size : s.cells[k] \in Byte
  BY DEF StreamOK
<1>2. /\ old \in Seq(Byte) /\ Len(old) = s.size
      /\ \A k \in 1 .. s.size : old[k] = s.cells[k]
  BY ContentsBytes
<1>3. n \in Nat /\ Len(data) \in Nat /\ s.size \in Nat
  BY <1>1
<1>4. /\ all \in Seq(Byte) /\ Len(all) = n
      /\ \A k \in 1 .. n : all[k] = IF k <= s.size THEN old[k] ELSE data[k - s.size]
  BY <1>2, <1>3, SMTT(30)
<1>5. /\ t \in [cells : Seq(Int), capacity : Nat, size : Nat, position : Nat]
      /\ t.capacity = Len(t.cells) /\ t.size = n /\ n <= t.capacity
      /\ \A k \in 1 .. n : t.cells[k] = all[k]
  <2>1. CASE s.capacity < n
    <3> DEFINE a == Allocated(n + BLOCK, all)
    <3>1. t = [s EXCEPT !.cells = a, !.capacity = n + BLOCK, !.size = n]
      BY <2>1 DEF Put
    <3>2. n + BLOCK \in Nat /\ n <= n + BLOCK
      BY <1>3 DEF BLOCK
    <3>3. a \in Seq(Int) /\ Len(a) = n + BLOCK /\ \A k \in 1 .. n : a[k] = all[k]
      BY <1>4, <3>2, AllocatedBegins
    <3>4. t.cells = a /\ t.capacity = n + BLOCK /\ t.size = n
      BY <1>1, <3>1
    <3>5. t \in [cells : Seq(Int), capacity : Nat, size : Nat, position : Nat]
      BY <1>1, <1>3, <3>1, <3>2, <3>3
    <3> QED
      BY <3>2, <3>3, <3>4, <3>5
  <2>2. CASE ~(s.capacity < n)
    <3> DEFINE a == [k \in DOMAIN s.cells |->
                       IF k > s.size /\ k <= n THEN data[k - s.size] ELSE s.cells[k]]
    <3>1. t = [s EXCEPT !.cells = a, !.size = n]
      BY <2>2 DEF Put
    <3>2. DOMAIN s.cells = 1 .. s.capacity /\ n <= s.capacity
      BY <1>1, <1>3, <2>2
    <3>3. \A k \in 1 .. s.capacity : a[k] \in Int
      <4> SUFFICES ASSUME NEW k \in 1 .. s.capacity PROVE a[k] \in Int
        OBVIOUS
      <4>1. CASE k > s.size /\ k <= n
        <5>1. k - s.size \in 1 .. Len(data) /\ k \in DOMAIN s.cells
          BY <1>3, <3>2, <4>1
        <5>2. data[k - s.size] \in Int
          BY <5>1, ElementIsByte
        <5> QED
          BY <4>1, <5>1, <5>2
      <4>2. CASE ~(k > s.size /\ k <= n)
        BY <1>1, <3>2, <4>2
      <4> QED
        BY <4>1, <4>2
    <3>4. a \in Seq(Int) /\ Len(a) = s.capacity
      BY <1>1, <3>2, <3>3
    <3>5. t.cells = a /\ t.capacity = s.capacity /\ t.size = n
      BY <1>1, <3>1
    <3>6. t \in [cells : Seq(Int), capacity : Nat, size : Nat, position : Nat]
      BY <1>1, <1>3, <3>1, <3>4
    <3>7. \A k \in 1 .. n : a[k] = all[k]
      <4> SUFFICES ASSUME NEW k \in 1 .. n PROVE a[k] = all[k]
        OBVIOUS
      <4>1. all[k] = IF k <= s.size THEN old[k] ELSE data[k - s.size]
        BY <1>4
      <4>2. k \in DOMAIN s.cells
        BY <1>1, <1>3, <3>2
      <4>3. a[k] = IF k > s.size THEN data[k - s.size] ELSE s.cells[k]
        BY <4>2
      <4>4. k <= s.size => old[k] = s.cells[k]
        BY <1>2, <1>3
      <4> QED
        BY <1>3, <4>1, <4>3, <4>4
    <3> QED
      BY <3>2, <3>4, <3>5, <3>6, <3>7
  <2> QED
    BY <2>1, <2>2
<1> HIDE DEF old, n, t, all
<1>6. StreamOK(t)
  <2>1. \A k \in 1 .. n : all[k] \in Byte
    BY <1>4, ElementIsByte
  <2> QED
    BY <1>5, <2>1 DEF StreamOK
<1>7. /\ Contents(t) \in Seq(Byte) /\ Len(Contents(t)) = n
      /\ \A k \in 1 .. n : Contents(t)[k] = t.cells[k]
  BY <1>5, <1>6, ContentsBytes
<1>8. Contents(t) = all
  BY <1>4, <1>5, <1>7, SameElements
<1> QED
  BY <1>6, <1>8 DEF t, old, all

\* While a message is put, the stream is well formed and holds what was put.
PutInv ==
  phase = "put" =>
    /\ StreamOK(stream) /\ Contents(stream) = written
    /\ todo \in Seq(Seq(Byte))

LEMMA PutInvHolds == Spec => []PutInv
<1>1. Init => PutInv
  <2> SUFFICES ASSUME Init PROVE PutInv
    OBVIOUS
  <2>1. todo \in Seq(Seq(Byte))
    BY MessageAssumption DEF Init
  <2>2. StreamOK(EmptyStream)
    BY DEF StreamOK, EmptyStream
  <2>3. Contents(EmptyStream) = <<>>
    <3>1. Contents(EmptyStream) \in Seq(Byte) /\ Len(Contents(EmptyStream)) = 0
      BY <2>2, ContentsBytes DEF EmptyStream
    <3> QED
      BY <3>1
  <2> QED
    BY <2>1, <2>2, <2>3 DEF Init, PutInv
<1>2. PutInv /\ [Next]_vars => PutInv'
  <2> SUFFICES ASSUME PutInv, [Next]_vars PROVE PutInv'
    OBVIOUS
  <2>1. CASE PutNext
    <3>1. StreamOK(stream) /\ Contents(stream) = written /\ todo \in Seq(Seq(Byte))
      BY <2>1 DEF PutNext, PutInv
    <3>2. Head(todo) \in Seq(Byte) /\ Tail(todo) \in Seq(Seq(Byte))
      BY <2>1, <3>1 DEF PutNext
    <3>3. StreamOK(stream') /\ Contents(stream') = written'
      BY <2>1, <3>1, <3>2, PutAppends DEF PutNext
    <3> QED
      BY <2>1, <3>2, <3>3 DEF PutNext, PutInv
  <2>2. ASSUME NEW n \in 1 .. stream.size, Arrive(n) PROVE PutInv'
    BY <2>2 DEF Arrive, PutInv
  <2>3. CASE ReadField \/ ReadNumber \/ ReadPacket \/ ReadEnds \/ ReadThrows
    BY <2>3 DEF ReadField, ReadNumber, ReadPacket, ReadEnds, ReadThrows, PutInv
  <2>4. CASE UNCHANGED vars
    BY <2>4 DEF vars, PutInv
  <2> QED
    BY <2>1, <2>2, <2>3, <2>4 DEF Next
<1> QED
  BY <1>1, <1>2, PTL DEF Spec

\* The stream holds, in order, the bytes of all calls of put and putByte so far,
\* however often the array was outgrown (BinaryStream.cpp:155-209).
THEOREM PutsStay == Spec => []PutsKept
<1>1. PutInv => PutsKept
  BY DEF PutInv, PutsKept
<1> QED
  BY <1>1, PutInvHolds, PTL

-----------------------------------------------------------------------------
(* Sequences of any elements *)

IsSeq(q) == q \in Seq(Range(q))

LEMMA SeqOfMore ==
  ASSUME NEW S, NEW T, S \subseteq T, NEW q \in Seq(S)
  PROVE  q \in Seq(T)
<1>1. q \in [1 .. Len(q) -> T] /\ Len(q) \in Nat
  OBVIOUS
<1> QED
  BY <1>1

LEMMA SeqIsSeq ==
  ASSUME NEW S, NEW q \in Seq(S)
  PROVE  IsSeq(q) /\ Len(q) \in Nat /\ DOMAIN q = 1 .. Len(q)
<1>1. Len(q) \in Nat /\ DOMAIN q = 1 .. Len(q) /\ q = [k \in 1 .. Len(q) |-> q[k]]
  OBVIOUS
<1>2. q \in [1 .. Len(q) -> Range(q)]
  BY <1>1 DEF Range
<1>3. q \in Seq(Range(q))
  BY <1>1, <1>2
<1> QED
  BY <1>1, <1>3 DEF IsSeq

LEMMA MadeIsSeq ==
  ASSUME NEW q, NEW n \in Nat, DOMAIN q = 1 .. n, q = [k \in 1 .. n |-> q[k]]
  PROVE  IsSeq(q) /\ Len(q) = n
<1>1. q \in [1 .. n -> Range(q)]
  BY DEF Range
<1>2. q \in Seq(Range(q)) /\ Len(q) = n
  BY <1>1
<1> QED
  BY <1>2 DEF IsSeq

LEMMA IsSeqLen == ASSUME NEW q, IsSeq(q) PROVE Len(q) \in Nat /\ DOMAIN q = 1 .. Len(q)
BY SeqIsSeq DEF IsSeq

\* What s is when it is q \o r, and when it is Append(q, x).
IsConcat(s, q, r) ==
  /\ IsSeq(s) /\ Len(s) = Len(q) + Len(r)
  /\ \A k \in 1 .. Len(q) : s[k] = q[k]
  /\ \A k \in 1 .. Len(r) : s[Len(q) + k] = r[k]

IsAppend(s, q, x) ==
  /\ IsSeq(s) /\ Len(s) = Len(q) + 1 /\ s[Len(q) + 1] = x
  /\ \A k \in 1 .. Len(q) : s[k] = q[k]

LEMMA ConcatIsSeq ==
  ASSUME NEW q, NEW r, IsSeq(q), IsSeq(r), NEW s, s = q \o r
  PROVE  IsConcat(s, q, r)
<1>1. PICK S : S = Range(q) \cup Range(r)
  OBVIOUS
<1>2. q \in Seq(S) /\ r \in Seq(S)
  BY <1>1, SeqOfMore DEF IsSeq
<1>3. /\ s \in Seq(S) /\ Len(s) = Len(q) + Len(r)
      /\ \A k \in 1 .. Len(q) + Len(r) : s[k] = IF k <= Len(q) THEN q[k] ELSE r[k - Len(q)]
  BY <1>2, ConcatProperties, Zenon
<1>4. IsSeq(s)
  BY <1>3, SeqIsSeq
<1>5. Len(q) \in Nat /\ Len(r) \in Nat
  BY IsSeqLen
<1>6. \A k \in 1 .. Len(q) : k \in 1 .. Len(q) + Len(r) /\ k <= Len(q)
  BY <1>5
<1>7. \A k \in 1 .. Len(r) : /\ Len(q) + k \in 1 .. Len(q) + Len(r) /\ ~(Len(q) + k <= Len(q))
                             /\ (Len(q) + k) - Len(q) = k
  BY <1>5
<1>8. \A k \in 1 .. Len(q) : s[k] = q[k]
  BY <1>3, <1>6
<1>9. \A k \in 1 .. Len(r) : s[Len(q) + k] = r[k]
  BY <1>3, <1>7
<1> QED
  BY <1>3, <1>4, <1>8, <1>9 DEF IsConcat

LEMMA AppendIsSeq ==
  ASSUME NEW q, NEW x, IsSeq(q), NEW s, s = Append(q, x)
  PROVE  IsAppend(s, q, x)
<1>1. PICK S : S = Range(q) \cup {x}
  OBVIOUS
<1>2. q \in Seq(S) /\ x \in S
  BY <1>1, SeqOfMore DEF IsSeq
<1>3. s \in Seq(S) /\ Len(s) = Len(q) + 1 /\ s[Len(q) + 1] = x
  BY <1>2, AppendProperties, Zenon
<1>4. \A k \in 1 .. Len(q) : s[k] = q[k]
  BY <1>2
<1> QED
  BY <1>3, <1>4, SeqIsSeq DEF IsAppend

LEMMA SmallIsSeq ==
  ASSUME NEW x
  PROVE  IsSeq(<<>>) /\ Len(<<>>) = 0 /\ IsSeq(<<x>>) /\ Len(<<x>>) = 1
<1>1. <<>> \in Seq({}) /\ <<x>> \in Seq({x}) /\ Len(<<>>) = 0 /\ Len(<<x>>) = 1
  OBVIOUS
<1> QED
  BY <1>1, SeqIsSeq

-----------------------------------------------------------------------------
(* Bytes in pieces *)

\* Each of the pieces q is in w, piece k behind the first f[k - 1] bytes.
Lies(f, w, q) ==
  /\ f[0] = 0
  /\ \A k \in 1 .. Len(q) :
       /\ f[k - 1] \in Nat /\ Len(q[k]) \in Nat
       /\ f[k] = f[k - 1] + Len(q[k]) /\ f[k] <= Len(w)
       /\ \A j \in 1 .. Len(q[k]) : w[f[k - 1] + j] = q[k][j]

\* The pieces q, one behind the other, are w.
Spells(w, q) ==
  /\ IsSeq(w) /\ IsSeq(q)
  /\ \E f : Lies(f, w, q) /\ f[Len(q)] = Len(w)

LEMMA NothingSpells == Spells(<<>>, <<>>)
<1> DEFINE f == [k \in 0 .. 0 |-> 0]
<1>1. IsSeq(<<>>) /\ Len(<<>>) = 0
  BY SmallIsSeq
<1>2. Lies(f, <<>>, <<>>) /\ f[0] = 0
  BY <1>1 DEF Lies
<1> QED
  BY <1>1, <1>2 DEF Spells

LEMMA SpellsSingly ==
  ASSUME NEW bytes, IsSeq(bytes)
  PROVE  Spells(bytes, PutBytes(bytes))
<1>1. PICK n \in Nat : n = Len(bytes) /\ DOMAIN bytes = 1 .. n
  BY IsSeqLen
<1>2. PICK q : q = PutBytes(bytes)
  OBVIOUS
<1>3. q = [k \in 1 .. n |-> <<bytes[k]>>]
  BY <1>1, <1>2 DEF PutBytes
<1>4. IsSeq(q) /\ Len(q) = n
  BY <1>3, MadeIsSeq
<1> DEFINE f == [k \in 0 .. n |-> k]
<1>5. f[0] = 0 /\ f[n] = n /\ \A k \in 1 .. n : f[k - 1] = k - 1 /\ k - 1 \in Nat /\ f[k] = k
  OBVIOUS
<1> HIDE DEF f
<1>6. ASSUME NEW k \in 1 .. Len(q)
      PROVE  /\ f[k - 1] \in Nat /\ Len(q[k]) \in Nat
             /\ f[k] = f[k - 1] + Len(q[k]) /\ f[k] <= Len(bytes)
             /\ \A j \in 1 .. Len(q[k]) : bytes[f[k - 1] + j] = q[k][j]
  <2>1. k \in 1 .. n /\ q[k] = <<bytes[k]>>
    BY <1>3, <1>4
  <2>2. Len(q[k]) = 1 /\ q[k][1] = bytes[k]
    BY <2>1
  <2>3. f[k - 1] = k - 1 /\ k - 1 \in Nat /\ f[k] = k
    BY <1>5, <2>1
  <2>4. \A j \in 1 .. 1 : bytes[(k - 1) + j] = q[k][j]
    <3>1. \A j \in 1 .. 1 : j = 1 /\ (k - 1) + j = k
      BY <2>1
    <3> QED
      BY <2>2, <3>1
  <2> QED
    BY <1>1, <2>1, <2>2, <2>3, <2>4
<1>7. Lies(f, bytes, q)
  BY <1>5, <1>6 DEF Lies
<1> QED
  BY <1>1, <1>2, <1>4, <1>5, <1>7 DEF Spells

LEMMA SpellsMore ==
  ASSUME NEW v, NEW r, Spells(v, r), NEW w, IsSeq(w),
         NEW x, IsConcat(x, v, w), NEW q, IsAppend(q, r, w)
  PROVE  Spells(x, q)
<1>1. PICK f : Lies(f, v, r) /\ f[Len(r)] = Len(v)
  BY DEF Spells
<1>2. PICK m \in Nat, a \in Nat, b \in Nat : m = Len(r) /\ a = Len(v) /\ b = Len(w)
  BY IsSeqLen DEF Spells
<1>3. /\ IsSeq(q) /\ Len(q) = m + 1 /\ q[m + 1] = w
      /\ \A k \in 1 .. m : q[k] = r[k]
  BY <1>2 DEF IsAppend
<1>4. /\ IsSeq(x) /\ Len(x) = a + b
      /\ \A k \in 1 .. a : x[k] = v[k]
      /\ \A k \in 1 .. b : x[a + k] = w[k]
  BY <1>2 DEF IsConcat
<1>5. /\ f[0] = 0 /\ f[m] = a
      /\ \A k \in 1 .. m : /\ f[k - 1] \in Nat /\ Len(r[k]) \in Nat
                           /\ f[k] = f[k - 1] + Len(r[k]) /\ f[k] <= a
                           /\ \A j \in 1 .. Len(r[k]) : v[f[k - 1] + j] = r[k][j]
  BY <1>1, <1>2 DEF Lies
<1> DEFINE h == [k \in 0 .. m + 1 |-> IF k = m + 1 THEN a + b ELSE f[k]]
<1>6. h[0] = 0 /\ h[m + 1] = a + b /\ \A k \in 0 .. m : h[k] = f[k]
  BY <1>5
<1> HIDE DEF h
<1>7. ASSUME NEW k \in 1 .. Len(q)
      PROVE  /\ h[k - 1] \in Nat /\ Len(q[k]) \in Nat
             /\ h[k] = h[k - 1] + Len(q[k]) /\ h[k] <= Len(x)
             /\ \A j \in 1 .. Len(q[k]) : x[h[k - 1] + j] = q[k][j]
  <2>1. CASE k = m + 1
    <3>1. k - 1 = m /\ m \in 0 .. m /\ q[k] = w
      BY <1>3, <2>1
    <3>2. h[k - 1] = a /\ h[k] = a + b
      BY <1>5, <1>6, <2>1, <3>1
    <3> QED
      BY <1>2, <1>4, <3>1, <3>2
  <2>2. CASE k # m + 1
    <3>1. k \in 1 .. m /\ k \in 0 .. m /\ k - 1 \in 0 .. m
      BY <1>3, <2>2
    <3>2. q[k] = r[k] /\ h[k - 1] = f[k - 1] /\ h[k] = f[k]
      BY <1>3, <1>6, <3>1
    <3>3. /\ f[k - 1] \in Nat /\ Len(r[k]) \in Nat
          /\ f[k] = f[k - 1] + Len(r[k]) /\ f[k] <= a
          /\ \A j \in 1 .. Len(r[k]) : v[f[k - 1] + j] = r[k][j]
      BY <1>5, <3>1
    <3>4. \A j \in 1 .. Len(r[k]) : f[k - 1] + j \in 1 .. a
      BY <3>3
    <3>5. \A j \in 1 .. Len(r[k]) : x[f[k - 1] + j] = r[k][j]
      BY <1>4, <3>3, <3>4
    <3> QED
      BY <1>4, <3>2, <3>3, <3>5
  <2> QED
    BY <2>1, <2>2
<1>8. Lies(h, x, q)
  BY <1>6, <1>7 DEF Lies
<1> QED
  BY <1>3, <1>4, <1>6, <1>8 DEF Spells

LEMMA SpellsBoth ==
  ASSUME NEW v, NEW r, Spells(v, r), NEW w, NEW q, Spells(w, q),
         NEW x, IsConcat(x, v, w), NEW s, IsConcat(s, r, q)
  PROVE  Spells(x, s)
<1>1. PICK f : Lies(f, v, r) /\ f[Len(r)] = Len(v)
  BY DEF Spells
<1>2. PICK g : Lies(g, w, q) /\ g[Len(q)] = Len(w)
  BY DEF Spells
<1>3. PICK m \in Nat, n \in Nat, a \in Nat, b \in Nat :
        m = Len(r) /\ n = Len(q) /\ a = Len(v) /\ b = Len(w)
  BY IsSeqLen DEF Spells
<1>4. /\ IsSeq(s) /\ Len(s) = m + n
      /\ \A k \in 1 .. m : s[k] = r[k]
      /\ \A k \in 1 .. n : s[m + k] = q[k]
  BY <1>3 DEF IsConcat
<1>5. /\ IsSeq(x) /\ Len(x) = a + b
      /\ \A k \in 1 .. a : x[k] = v[k]
      /\ \A k \in 1 .. b : x[a + k] = w[k]
  BY <1>3 DEF IsConcat
<1>6. /\ f[0] = 0 /\ f[m] = a
      /\ \A k \in 1 .. m : /\ f[k - 1] \in Nat /\ Len(r[k]) \in Nat
                           /\ f[k] = f[k - 1] + Len(r[k]) /\ f[k] <= a
                           /\ \A j \in 1 .. Len(r[k]) : v[f[k - 1] + j] = r[k][j]
  BY <1>1, <1>3 DEF Lies
<1>7. /\ g[0] = 0 /\ g[n] = b
      /\ \A k \in 1 .. n : /\ g[k - 1] \in Nat /\ Len(q[k]) \in Nat
                           /\ g[k] = g[k - 1] + Len(q[k]) /\ g[k] <= b
                           /\ \A j \in 1 .. Len(q[k]) : w[g[k - 1] + j] = q[k][j]
  BY <1>2, <1>3 DEF Lies
<1> DEFINE h == [k \in 0 .. m + n |-> IF k <= m THEN f[k] ELSE a + g[k - m]]
<1>8. \A k \in 0 .. m : h[k] = f[k]
  OBVIOUS
<1>9. \A k \in 0 .. n : h[m + k] = a + g[k]
  <2> SUFFICES ASSUME NEW k \in 0 .. n PROVE h[m + k] = a + g[k]
    OBVIOUS
  <2>1. m + k \in 0 .. m + n /\ (m + k) - m = k
    OBVIOUS
  <2>2. CASE k = 0
    BY <1>6, <1>7, <2>1, <2>2
  <2>3. CASE k # 0
    <3>1. ~(m + k <= m)
      BY <2>3
    <3> QED
      BY <2>1, <3>1
  <2> QED
    BY <2>2, <2>3
<1> HIDE DEF h
<1>10. ASSUME NEW k \in 1 .. Len(s)
       PROVE  /\ h[k - 1] \in Nat /\ Len(s[k]) \in Nat
              /\ h[k] = h[k - 1] + Len(s[k]) /\ h[k] <= Len(x)
              /\ \A j \in 1 .. Len(s[k]) : x[h[k - 1] + j] = s[k][j]
  <2>1. CASE k <= m
    <3>1. k \in 1 .. m /\ k \in 0 .. m /\ k - 1 \in 0 .. m
      BY <2>1
    <3>2. s[k] = r[k] /\ h[k - 1] = f[k - 1] /\ h[k] = f[k]
      BY <1>4, <1>8, <3>1
    <3>3. /\ f[k - 1] \in Nat /\ Len(r[k]) \in Nat
          /\ f[k] = f[k - 1] + Len(r[k]) /\ f[k] <= a
          /\ \A j \in 1 .. Len(r[k]) : v[f[k - 1] + j] = r[k][j]
      BY <1>6, <3>1
    <3>4. \A j \in 1 .. Len(r[k]) : f[k - 1] + j \in 1 .. a
      BY <3>3
    <3>5. \A j \in 1 .. Len(r[k]) : x[f[k - 1] + j] = r[k][j]
      BY <1>5, <3>3, <3>4
    <3> QED
      BY <1>5, <3>2, <3>3, <3>5
  <2>2. CASE ~(k <= m)
    <3>1. PICK j \in 1 .. n : k = m + j
      <4>1. k - m \in 1 .. n /\ k = m + (k - m)
        BY <1>4, <2>2
      <4> QED
        BY <4>1
    <3>2. j \in 0 .. n /\ j - 1 \in 0 .. n /\ k - 1 = m + (j - 1)
      BY <3>1
    <3>3. h[k] = a + g[j] /\ h[k - 1] = a + g[j - 1] /\ s[k] = q[j]
      BY <1>4, <1>9, <3>1, <3>2
    <3>4. /\ g[j - 1] \in Nat /\ Len(q[j]) \in Nat
          /\ g[j] = g[j - 1] + Len(q[j]) /\ g[j] <= b
          /\ \A i \in 1 .. Len(q[j]) : w[g[j - 1] + i] = q[j][i]
      BY <1>7, <3>1
    <3>5. \A i \in 1 .. Len(q[j]) : /\ g[j - 1] + i \in 1 .. b
                                   /\ (a + g[j - 1]) + i = a + (g[j - 1] + i)
      BY <3>4
    <3>6. \A i \in 1 .. Len(q[j]) : x[(a + g[j - 1]) + i] = q[j][i]
      BY <1>5, <3>4, <3>5
    <3>7. a + g[j - 1] \in Nat /\ a + g[j] = (a + g[j - 1]) + Len(q[j]) /\ a + g[j] <= a + b
      BY <3>4
    <3> QED
      BY <1>5, <3>3, <3>4, <3>6, <3>7
  <2> QED
    BY <2>1, <2>2
<1>11. h[0] = 0 /\ h[m + n] = a + b
  BY <1>6, <1>7, <1>8, <1>9
<1>12. Lies(h, x, s)
  BY <1>10, <1>11 DEF Lies
<1> QED
  BY <1>4, <1>5, <1>11, <1>12 DEF Spells

-----------------------------------------------------------------------------
(* FlattenSeq *)

LEMMA LeastNatural ==
  ASSUME NEW T, T \subseteq Nat, T # {}
  PROVE  \E m \in T : \A y \in T : m <= y
<1>1. PICK m \in T : \A y \in T : ~(<<y, m>> \in OpToRel(<, Nat))
  BY NatLessThanWellFounded, WFMin
<1>2. \A y \in T : ~(y < m)
  BY <1>1 DEF OpToRel
<1>3. \A y \in T : m <= y
  BY <1>2
<1> QED
  BY <1>3

\* The concatenations of the first sequences of seqs: the recursion of FlattenSeq.
Flattens(f, seqs) ==
  f = [i \in 1 .. Len(seqs) |-> IF i = 1 THEN seqs[i] ELSE f[i - 1] \o seqs[i]]

LEMMA FlatteningExists ==
  ASSUME NEW seqs, Len(seqs) \in Nat
  PROVE  \E f : Flattens(f, seqs)
<1> DEFINE Step(f, i) == IF i = 1 THEN seqs[i] ELSE f[i - 1] \o seqs[i]
           Good(m) == \E f : f = [i \in 1 .. m |-> Step(f, i)]
           Bad == {m \in Nat : ~Good(m)}
<1>1. SUFFICES ASSUME Bad # {} PROVE FALSE
  BY <1>1 DEF Flattens
<1>2. PICK m \in Bad : \A y \in Bad : m <= y
  <2>1. Bad \subseteq Nat
    OBVIOUS
  <2> HIDE DEF Bad
  <2> QED
    BY <1>1, <2>1, LeastNatural
<1>3. CASE m = 0
  <2> DEFINE f == [i \in 1 .. 0 |-> <<>>]
  <2>1. f = [i \in 1 .. 0 |-> Step(f, i)]
    OBVIOUS
  <2> QED
    BY <1>3, <2>1
<1>4. CASE m # 0
  <2>1. m - 1 \in Nat /\ ~(m <= m - 1)
    BY <1>4
  <2>2. Good(m - 1)
    BY <1>2, <2>1
  <2>3. PICK f : f = [i \in 1 .. m - 1 |-> Step(f, i)]
    BY <2>2
  <2> DEFINE h == [i \in 1 .. m |-> IF i = m THEN Step(f, m) ELSE f[i]]
  <2>4. \A i \in 1 .. m : h[i] = Step(h, i)
    <3> SUFFICES ASSUME NEW i \in 1 .. m
                 PROVE  h[i] = Step(h, i)
      OBVIOUS
    <3>1. CASE i = m /\ i # 1
      <4>1. m - 1 \in 1 .. m /\ m - 1 # m /\ m # 1
        BY <1>4, <2>1, <3>1
      <4>2. h[i] = Step(f, m) /\ h[m - 1] = f[m - 1]
        BY <3>1, <4>1
      <4> QED
        BY <3>1, <4>2
    <3>2. CASE i # m /\ i # 1
      <4>1. i \in 1 .. m - 1 /\ i - 1 \in 1 .. m - 1 /\ i - 1 # m /\ i - 1 \in 1 .. m
        BY <2>1, <3>2
      <4>2. f[i] = Step(f, i)
        BY <2>3, <3>2, <4>1
      <4>3. h[i] = f[i] /\ h[i - 1] = f[i - 1]
        BY <3>2, <4>1
      <4> QED
        BY <3>2, <4>2, <4>3
    <3>3. CASE i = 1
      <4>1. CASE m = 1
        BY <3>3, <4>1
      <4>2. CASE m # 1
        <5>1. 1 \in 1 .. m - 1
          BY <2>1, <4>2
        <5>2. f[1] = seqs[1]
          BY <2>3, <5>1
        <5> QED
          BY <3>3, <4>2, <5>1, <5>2
      <4> QED
        BY <4>1, <4>2
    <3> QED
      BY <3>1, <3>2, <3>3
  <2> DEFINE g == [i \in 1 .. m |-> Step(h, i)]
  <2>5. h = g
    BY <2>4
  <2> QED
    BY <2>5
<1> QED
  BY <1>3, <1>4

LEMMA FlattenIs ==
  ASSUME NEW seqs, Len(seqs) \in Nat, Len(seqs) # 0
  PROVE  \E f : /\ FlattenSeq(seqs) = f[Len(seqs)]
                /\ f[1] = seqs[1]
                /\ \A i \in 2 .. Len(seqs) : f[i] = f[i - 1] \o seqs[i]
<1> DEFINE s == CHOOSE f : f = [i \in 1 .. Len(seqs) |->
                       IF i = 1 THEN seqs[i] ELSE f[i - 1] \o seqs[i]]
<1>1. FlattenSeq(seqs) = s[Len(seqs)]
  BY DEF FlattenSeq
<1>2. Flattens(s, seqs)
  <2>1. \E f : Flattens(f, seqs)
    BY FlatteningExists
  <2> QED
    BY <2>1 DEF Flattens
<1> HIDE DEF s
<1>3. \A i \in 1 .. Len(seqs) : s[i] = IF i = 1 THEN seqs[i] ELSE s[i - 1] \o seqs[i]
  BY <1>2 DEF Flattens
<1>4. s[1] = seqs[1]
  BY <1>3
<1>5. \A i \in 2 .. Len(seqs) : s[i] = s[i - 1] \o seqs[i]
  <2> SUFFICES ASSUME NEW i \in 2 .. Len(seqs) PROVE s[i] = s[i - 1] \o seqs[i]
    OBVIOUS
  <2>1. i \in 1 .. Len(seqs) /\ i # 1
    OBVIOUS
  <2> QED
    BY <1>3, <2>1
<1> QED
  BY <1>1, <1>4, <1>5

\* The first n elements.
First(q, n) == [k \in 1 .. n |-> q[k]]

LEMMA FirstIs ==
  ASSUME NEW q, NEW n \in Nat
  PROVE  IsSeq(First(q, n)) /\ Len(First(q, n)) = n /\ \A k \in 1 .. n : First(q, n)[k] = q[k]
<1>1. PICK r : r = First(q, n) /\ r = [k \in 1 .. n |-> q[k]]
  BY DEF First
<1>2. DOMAIN r = 1 .. n /\ r = [k \in 1 .. n |-> r[k]] /\ \A k \in 1 .. n : r[k] = q[k]
  BY <1>1
<1> QED
  BY <1>1, <1>2, MadeIsSeq

LEMMA FirstMore ==
  ASSUME NEW q, NEW n \in Nat
  PROVE  IsAppend(First(q, n + 1), First(q, n), q[n + 1])
<1>1. PICK r, s : r = First(q, n) /\ s = First(q, n + 1)
  OBVIOUS
<1>2. Len(r) = n /\ \A k \in 1 .. n : r[k] = q[k]
  BY <1>1, FirstIs
<1>3. n + 1 \in Nat /\ n + 1 \in 1 .. n + 1 /\ \A k \in 1 .. n : k \in 1 .. n + 1
  OBVIOUS
<1>4. IsSeq(s) /\ Len(s) = n + 1 /\ \A k \in 1 .. n + 1 : s[k] = q[k]
  BY <1>1, <1>3, FirstIs
<1>5. IsAppend(s, r, q[n + 1])
  BY <1>2, <1>3, <1>4 DEF IsAppend
<1> QED
  BY <1>1, <1>5

LEMMA FirstAll ==
  ASSUME NEW q, IsSeq(q)
  PROVE  First(q, Len(q)) = q
<1>1. PICK S : S = Range(q) /\ q \in Seq(S)
  BY DEF IsSeq
<1>2. q = [k \in 1 .. Len(q) |-> q[k]]
  BY <1>1
<1> QED
  BY <1>2 DEF First

LEMMA FirstNone ==
  ASSUME NEW q
  PROVE  First(q, 0) = <<>>
BY DEF First

LEMMA SpellsOnly ==
  ASSUME NEW w, IsSeq(w)
  PROVE  Spells(w, <<w>>)
<1>1. PICK e, q : e = <<>> /\ q = <<w>>
  OBVIOUS
<1>2. IsSeq(e) /\ Len(e) = 0 /\ IsSeq(q) /\ Len(q) = 1 /\ q[1] = w
  BY <1>1, SmallIsSeq
<1>3. Spells(e, e)
  BY <1>1, NothingSpells
<1>4. Len(w) \in Nat
  BY IsSeqLen
<1>5. IsConcat(w, e, w)
  BY <1>2, <1>4 DEF IsConcat
<1>6. IsAppend(q, e, w)
  BY <1>2 DEF IsAppend
<1>7. Spells(w, q)
  BY <1>3, <1>5, <1>6, SpellsMore, Zenon
<1> QED
  BY <1>1, <1>7

\* Flattened sequences are their pieces.
LEMMA FlattenSpells ==
  ASSUME NEW seqs, IsSeq(seqs), \A k \in 1 .. Len(seqs) : IsSeq(seqs[k])
  PROVE  Spells(FlattenSeq(seqs), seqs)
<1>1. PICK n \in Nat : n = Len(seqs)
  BY IsSeqLen
<1>2. CASE n = 0
  <2>1. FlattenSeq(seqs) = seqs
    BY <1>1, <1>2 DEF FlattenSeq
  <2>2. First(seqs, 0) = seqs
    BY <1>1, <1>2, FirstAll
  <2> QED
    BY <2>1, <2>2, FirstNone, NothingSpells
<1>3. CASE n # 0
  <2>1. PICK f : /\ FlattenSeq(seqs) = f[n] /\ f[1] = seqs[1]
                 /\ \A i \in 2 .. n : f[i] = f[i - 1] \o seqs[i]
    BY <1>1, <1>3, FlattenIs
  <2> DEFINE Bad == {i \in 1 .. n : ~Spells(f[i], First(seqs, i))}
  <2>2. SUFFICES ASSUME Bad # {} PROVE FALSE
    <3>1. n \in 1 .. n
      BY <1>3
    <3>2. Spells(f[n], First(seqs, n))
      BY <2>2, <3>1
    <3> QED
      BY <1>1, <2>1, <3>2, FirstAll
  <2>3. PICK m \in Bad : \A y \in Bad : m <= y
    <3>1. Bad \subseteq Nat
      OBVIOUS
    <3> HIDE DEF Bad
    <3> QED
      BY <2>2, <3>1, LeastNatural
  <2>4. m \in 1 .. n /\ IsSeq(seqs[m])
    BY <1>1
  <2>5. CASE m = 1
    <3>1. First(seqs, 1) = <<seqs[1]>>
      BY DEF First
    <3>2. Spells(seqs[1], <<seqs[1]>>)
      BY <2>4, <2>5, SpellsOnly
    <3> QED
      BY <2>1, <2>5, <3>1, <3>2
  <2>6. CASE m # 1
    <3>1. /\ m \in 2 .. n /\ m - 1 \in 1 .. n /\ m - 1 \in Nat /\ ~(m <= m - 1)
          /\ (m - 1) + 1 = m
      BY <2>4, <2>6
    <3>2. PICK w, x, q, r : /\ w = f[m - 1] /\ x = f[m] /\ q = First(seqs, m - 1)
                            /\ r = First(seqs, m)
      OBVIOUS
    <3>3. Spells(w, q)
      BY <2>3, <3>1, <3>2
    <3>4. IsAppend(r, q, seqs[m])
      <4>1. IsAppend(First(seqs, (m - 1) + 1), First(seqs, m - 1), seqs[(m - 1) + 1])
        BY <3>1, FirstMore
      <4> QED
        BY <3>1, <3>2, <4>1
    <3>5. IsSeq(w)
      BY <3>3 DEF Spells
    <3>6. x = w \o seqs[m]
      BY <2>1, <3>1, <3>2
    <3>7. IsConcat(x, w, seqs[m])
      BY <2>4, <3>5, <3>6, ConcatIsSeq, Zenon
    <3>8. Spells(x, r)
      BY <2>4, <3>3, <3>4, <3>7, SpellsMore, Zenon
    <3> QED
      BY <3>2, <3>8
  <2> QED
    BY <2>5, <2>6
<1> QED
  BY <1>2, <1>3

\* If each of ws is in pieces of its own, they are the pieces of all of them.
LEMMA FlattenBoth ==
  ASSUME NEW ws, NEW seqs, IsSeq(ws), IsSeq(seqs), Len(ws) = Len(seqs),
         \A k \in 1 .. Len(ws) : Spells(ws[k], seqs[k])
  PROVE  Spells(FlattenSeq(ws), FlattenSeq(seqs))
<1>1. PICK n \in Nat : n = Len(seqs) /\ n = Len(ws)
  BY IsSeqLen
<1>2. CASE n = 0
  <2>1. FlattenSeq(seqs) = seqs /\ FlattenSeq(ws) = ws
    BY <1>1, <1>2 DEF FlattenSeq
  <2>2. First(seqs, 0) = seqs /\ First(ws, 0) = ws
    BY <1>1, <1>2, FirstAll
  <2> QED
    BY <2>1, <2>2, FirstNone, NothingSpells
<1>3. CASE n # 0
  <2>1. PICK f : /\ FlattenSeq(seqs) = f[n] /\ f[1] = seqs[1]
                 /\ \A i \in 2 .. n : f[i] = f[i - 1] \o seqs[i]
    <3>1. Len(seqs) \in Nat /\ Len(seqs) # 0 /\ n = Len(seqs)
      BY <1>1, <1>3
    <3> QED
      BY <3>1, FlattenIs, Zenon
  <2>2. PICK g : /\ FlattenSeq(ws) = g[n] /\ g[1] = ws[1]
                 /\ \A i \in 2 .. n : g[i] = g[i - 1] \o ws[i]
    <3>1. Len(ws) \in Nat /\ Len(ws) # 0 /\ n = Len(ws)
      BY <1>1, <1>3
    <3> QED
      BY <3>1, FlattenIs, Zenon
  <2> DEFINE Bad == {i \in 1 .. n : ~Spells(g[i], f[i])}
  <2>3. SUFFICES ASSUME Bad # {} PROVE FALSE
    <3>1. n \in 1 .. n
      BY <1>3
    <3> QED
      BY <2>1, <2>2, <2>3, <3>1
  <2>4. PICK m \in Bad : \A y \in Bad : m <= y
    <3>1. Bad \subseteq Nat
      OBVIOUS
    <3> HIDE DEF Bad
    <3> QED
      BY <2>3, <3>1, LeastNatural
  <2>5. m \in 1 .. n /\ Spells(ws[m], seqs[m])
    BY <1>1
  <2>6. CASE m = 1
    BY <2>1, <2>2, <2>5, <2>6
  <2>7. CASE m # 1
    <3>1. m \in 2 .. n /\ m - 1 \in 1 .. n /\ ~(m <= m - 1)
      BY <2>5, <2>7
    <3>2. PICK v, w, q, r : v = g[m - 1] /\ w = g[m] /\ q = f[m - 1] /\ r = f[m]
      OBVIOUS
    <3>3. Spells(v, q)
      BY <2>4, <3>1, <3>2
    <3>4. IsSeq(v) /\ IsSeq(q) /\ IsSeq(ws[m]) /\ IsSeq(seqs[m])
      BY <2>5, <3>3 DEF Spells
    <3>5. w = v \o ws[m] /\ r = q \o seqs[m]
      BY <2>1, <2>2, <3>1, <3>2
    <3>6. IsConcat(w, v, ws[m])
      BY <3>4, <3>5, ConcatIsSeq, Zenon
    <3>7. IsConcat(r, q, seqs[m])
      BY <3>4, <3>5, ConcatIsSeq, Zenon
    <3>8. Spells(w, r)
      BY <2>5, <3>3, <3>6, <3>7, SpellsBoth, Zenon
    <3> QED
      BY <3>2, <3>8
  <2> QED
    BY <2>6, <2>7
<1> QED
  BY <1>2, <1>3

StepAlike(f, g, n) ==
  f[0] = g[0] /\ \A k \in 1 .. n : f[k - 1] = g[k - 1] => f[k] = g[k]

\* The same steps lead to the same sums.
LEMMA SumsAgree ==
  ASSUME NEW n \in Nat, NEW f, NEW g, StepAlike(f, g, n)
  PROVE  \A k \in 0 .. n : f[k] = g[k]
<1> DEFINE Bad == {k \in 0 .. n : f[k] # g[k]}
<1>1. SUFFICES ASSUME Bad # {} PROVE FALSE
  BY <1>1
<1>2. PICK m \in Bad : \A y \in Bad : m <= y
  <2>1. Bad \subseteq Nat
    OBVIOUS
  <2> HIDE DEF Bad
  <2> QED
    BY <1>1, <2>1, LeastNatural
<1>3. m \in 0 .. n /\ f[m] # g[m]
  OBVIOUS
<1>4. m \in 1 .. n /\ m - 1 \in 0 .. n /\ ~(m <= m - 1)
  BY <1>3 DEF StepAlike
<1>5. f[m - 1] = g[m - 1]
  BY <1>2, <1>4
<1> QED
  BY <1>3, <1>4, <1>5 DEF StepAlike

\* Only one sequence has given pieces.
LEMMA SpellsOnce ==
  ASSUME NEW v, NEW w, NEW q, Spells(v, q), Spells(w, q)
  PROVE  v = w
<1>1. PICK f : Lies(f, v, q) /\ f[Len(q)] = Len(v)
  BY DEF Spells
<1>2. PICK g : Lies(g, w, q) /\ g[Len(q)] = Len(w)
  BY DEF Spells
<1>3. PICK n \in Nat, a \in Nat : n = Len(q) /\ a = Len(v)
  BY IsSeqLen DEF Spells
<1>4. /\ f[0] = 0 /\ f[n] = a
      /\ \A k \in 1 .. n : /\ f[k - 1] \in Nat /\ Len(q[k]) \in Nat
                           /\ f[k] = f[k - 1] + Len(q[k])
                           /\ \A j \in 1 .. Len(q[k]) : v[f[k - 1] + j] = q[k][j]
  BY <1>1, <1>3 DEF Lies
<1>5. /\ g[0] = 0 /\ g[n] = Len(w)
      /\ \A k \in 1 .. n : /\ g[k] = g[k - 1] + Len(q[k])
                           /\ \A j \in 1 .. Len(q[k]) : w[g[k - 1] + j] = q[k][j]
  BY <1>2, <1>3 DEF Lies
<1>6. \A k \in 0 .. n : f[k] = g[k]
  <2>1. StepAlike(f, g, n)
    BY <1>4, <1>5 DEF StepAlike
  <2> QED
    BY <2>1, SumsAgree
<1>7. Len(w) = a
  BY <1>4, <1>5, <1>6
<1>8. ASSUME NEW i \in 1 .. a PROVE v[i] = w[i]
  <2> DEFINE Within == {k \in 1 .. n : i <= f[k]}
  <2>1. PICK T : T = Within
    OBVIOUS
  <2>2. n # 0
    BY <1>4
  <2>3. T \subseteq Nat /\ n \in T
    BY <1>4, <2>1, <2>2
  <2>4. PICK k \in T : \A y \in T : k <= y
    BY <2>3, LeastNatural
  <2>5. k \in 1 .. n /\ i <= f[k]
    BY <2>1
  <2>6. k - 1 \in 0 .. n /\ ~(k <= k - 1)
    BY <2>5
  <2>7. f[k - 1] < i
    <3>1. CASE k = 1
      BY <1>4, <3>1
    <3>2. CASE k # 1
      <4>1. k - 1 \in 1 .. n
        BY <2>5, <3>2
      <4>2. k - 1 \notin T
        BY <2>4, <2>6
      <4>3. ~(i <= f[k - 1])
        BY <2>1, <4>1, <4>2
      <4> QED
        BY <1>4, <2>5, <4>3
    <3> QED
      BY <3>1, <3>2
  <2>8. /\ f[k - 1] \in Nat /\ Len(q[k]) \in Nat /\ f[k] = f[k - 1] + Len(q[k])
    BY <1>4, <2>5
  <2>9. i - f[k - 1] \in 1 .. Len(q[k]) /\ f[k - 1] + (i - f[k - 1]) = i
    BY <2>5, <2>7, <2>8
  <2>10. PICK j : j = i - f[k - 1]
    OBVIOUS
  <2>11. v[f[k - 1] + j] = q[k][j]
    BY <1>4, <2>5, <2>9, <2>10
  <2>12. w[g[k - 1] + j] = q[k][j]
    BY <1>5, <2>5, <2>9, <2>10
  <2>13. f[k - 1] = g[k - 1]
    BY <1>6, <2>6
  <2> QED
    BY <2>9, <2>10, <2>11, <2>12, <2>13
<1>9. PICK S : S = Range(v) \cup Range(w)
  OBVIOUS
<1>10. v \in Seq(S) /\ w \in Seq(S)
  BY <1>9, SeqOfMore DEF Spells, IsSeq
<1> QED
  BY <1>3, <1>7, <1>8, <1>10, SameElements

-----------------------------------------------------------------------------
(* The layouts of the simple packets *)

Kind == {"byte", "boolean", "short", "long", "magic", "address", "string"}

\* A field is read as it is put, and kept under its name or not at all.
Matches(put, read) ==
  /\ put.kind \in Kind /\ read.kind = put.kind
  /\ put.name = "" <=> put.kind = "magic"
  /\ read.name = put.name \/ read.name = ""

\* The last field is none that readMagic would pass over.
LayoutOK(l) ==
  /\ IsSeq(l.put) /\ IsSeq(l.read) /\ Len(l.read) = Len(l.put) /\ Len(l.put) # 0
  /\ \A k \in 1 .. Len(l.put) : Matches(l.put[k], l.read[k])
  /\ l.put[Len(l.put)].kind # "magic"

SmallLayout(fields) ==
  /\ IsSeq(fields) /\ Len(fields) # 0
  /\ \A k \in 1 .. Len(fields) : Matches(fields[k], fields[k])
  /\ fields[Len(fields)].kind # "magic"

LEMMA SmallIsOK ==
  ASSUME NEW pid, NEW fields, SmallLayout(fields)
  PROVE  LayoutOK(Layout(pid, fields, fields))
BY DEF SmallLayout, LayoutOK, Layout

LEMMA OneField ==
  ASSUME NEW a, Matches(a, a), a.kind # "magic"
  PROVE  SmallLayout(<<a>>)
<1>1. PICK q : q = <<a>>
  OBVIOUS
<1>2. q \in Seq({a}) /\ Len(q) = 1 /\ q[1] = a
  BY <1>1
<1>3. \A k \in 1 .. 1 : Matches(q[k], q[k])
  BY <1>2
<1>4. IsSeq(q)
  BY <1>2, SeqIsSeq
<1>5. SmallLayout(q)
  BY <1>2, <1>3, <1>4 DEF SmallLayout
<1> QED
  BY <1>1, <1>5

LEMMA TwoFields ==
  ASSUME NEW a, NEW b, Matches(a, a), Matches(b, b), b.kind # "magic"
  PROVE  SmallLayout(<<a, b>>)
<1>1. PICK q : q = <<a, b>>
  OBVIOUS
<1>2. q \in Seq({a, b}) /\ Len(q) = 2 /\ q[1] = a /\ q[2] = b
  BY <1>1
<1>3. \A k \in 1 .. 2 : Matches(q[k], q[k])
  BY <1>2
<1>4. IsSeq(q)
  BY <1>2, SeqIsSeq
<1>5. SmallLayout(q)
  BY <1>2, <1>3, <1>4 DEF SmallLayout
<1> QED
  BY <1>1, <1>5

LEMMA ThreeFields ==
  ASSUME NEW a, NEW b, NEW c, Matches(a, a), Matches(b, b), Matches(c, c), c.kind # "magic"
  PROVE  SmallLayout(<<a, b, c>>)
<1>1. PICK q : q = <<a, b, c>>
  OBVIOUS
<1>2. q \in Seq({a, b, c}) /\ Len(q) = 3 /\ q[1] = a /\ q[2] = b /\ q[3] = c
  BY <1>1
<1>3. \A k \in 1 .. 3 : Matches(q[k], q[k])
  BY <1>2
<1>4. IsSeq(q)
  BY <1>2, SeqIsSeq
<1>5. SmallLayout(q)
  BY <1>2, <1>3, <1>4 DEF SmallLayout
<1> QED
  BY <1>1, <1>5

LEMMA FourFields ==
  ASSUME NEW a, NEW b, NEW c, NEW d,
         Matches(a, a), Matches(b, b), Matches(c, c), Matches(d, d), d.kind # "magic"
  PROVE  SmallLayout(<<a, b, c, d>>)
<1>1. PICK q : q = <<a, b, c, d>>
  OBVIOUS
<1>2. q \in Seq({a, b, c, d}) /\ Len(q) = 4 /\ q[1] = a /\ q[2] = b /\ q[3] = c /\ q[4] = d
  BY <1>1
<1>3. \A k \in 1 .. 4 : Matches(q[k], q[k])
  BY <1>2
<1>4. IsSeq(q)
  BY <1>2, SeqIsSeq
<1>5. SmallLayout(q)
  BY <1>2, <1>3, <1>4 DEF SmallLayout
<1> QED
  BY <1>1, <1>5

LEMMA FiveFields ==
  ASSUME NEW a, NEW b, NEW c, NEW d, NEW e, Matches(a, a), Matches(b, b),
         Matches(c, c), Matches(d, d), Matches(e, e), e.kind # "magic"
  PROVE  SmallLayout(<<a, b, c, d, e>>)
<1>1. PICK q : q = <<a, b, c, d, e>>
  OBVIOUS
<1>2. /\ q \in Seq({a, b, c, d, e}) /\ Len(q) = 5
      /\ q[1] = a /\ q[2] = b /\ q[3] = c /\ q[4] = d /\ q[5] = e
  BY <1>1
<1>3. \A k \in 1 .. 5 : Matches(q[k], q[k])
  BY <1>2
<1>4. IsSeq(q)
  BY <1>2, SeqIsSeq
<1>5. SmallLayout(q)
  BY <1>2, <1>3, <1>4 DEF SmallLayout
<1> QED
  BY <1>1, <1>5

\* decodePayload drops some of what encodePayload puts, but moves over all of it.
LEMMA AcceptedIsOK == LayoutOK(ConnectionRequestAccepted)
<1>1. PICK a, b, t :
        /\ a = <<F("clientAddress", "address"), F("systemIndex", "short")>>
        /\ b = [k \in 1 .. 10 |-> F("internalID", "address")]
        /\ t = <<F("requestTime", "long"), F("time", "long")>>
  OBVIOUS
<1>2. PICK c, d : /\ c = <<F("clientAddress", "address"), Skip("short")>>
                  /\ d = [k \in 1 .. 10 |-> Skip("address")]
  OBVIOUS
<1>3. PICK u, v : u = a \o b /\ v = c \o d
  OBVIOUS
<1>4. PICK put, read : put = u \o t /\ read = v \o t
  OBVIOUS
<1>5. ConnectionRequestAccepted = Layout(16, put, read)
  BY <1>1, <1>2, <1>3, <1>4, ZenonT(30) DEF ConnectionRequestAccepted
<1>6. /\ IsSeq(a) /\ Len(a) = 2 /\ a[1].kind = "address" /\ a[1].name = "clientAddress"
      /\ a[2].kind = "short" /\ a[2].name = "systemIndex"
  <2>1. a \in Seq({a[1], a[2]})
    BY <1>1
  <2> QED
    BY <1>1, <2>1, SeqIsSeq DEF F
<1>7. /\ IsSeq(c) /\ Len(c) = 2 /\ c[1].kind = "address" /\ c[1].name = "clientAddress"
      /\ c[2].kind = "short" /\ c[2].name = ""
  <2>1. c \in Seq({c[1], c[2]})
    BY <1>2
  <2> QED
    BY <1>2, <2>1, SeqIsSeq DEF F, Skip
<1>8. /\ IsSeq(t) /\ Len(t) = 2 /\ t[1].kind = "long" /\ t[1].name = "requestTime"
      /\ t[2].kind = "long" /\ t[2].name = "time"
  <2>1. t \in Seq({t[1], t[2]})
    BY <1>1
  <2> QED
    BY <1>1, <2>1, SeqIsSeq DEF F
<1>9. /\ IsSeq(b) /\ Len(b) = 10
      /\ \A k \in 1 .. 10 : b[k].kind = "address" /\ b[k].name = "internalID"
  <2>1. DOMAIN b = 1 .. 10 /\ b = [k \in 1 .. 10 |-> b[k]]
    BY <1>1
  <2> QED
    BY <1>1, <2>1, MadeIsSeq DEF F
<1>10. /\ IsSeq(d) /\ Len(d) = 10
       /\ \A k \in 1 .. 10 : d[k].kind = "address" /\ d[k].name = ""
  <2>1. DOMAIN d = 1 .. 10 /\ d = [k \in 1 .. 10 |-> d[k]]
    BY <1>2
  <2> QED
    BY <1>2, <2>1, MadeIsSeq DEF F, Skip
<1>11. IsConcat(u, a, b)
  BY <1>3, <1>6, <1>9, ConcatIsSeq, Zenon
<1>12. IsConcat(v, c, d)
  BY <1>3, <1>7, <1>10, ConcatIsSeq, Zenon
<1>13. /\ IsSeq(u) /\ Len(u) = 12 /\ u[1] = a[1] /\ u[2] = a[2]
       /\ \A k \in 1 .. 10 : u[2 + k] = b[k]
  <2>1. \A k \in 1 .. 2 : u[k] = a[k]
    BY <1>6, <1>9, <1>11 DEF IsConcat
  <2>2. \A k \in 1 .. 10 : u[2 + k] = b[k]
    BY <1>6, <1>9, <1>11 DEF IsConcat
  <2>3. IsSeq(u) /\ Len(u) = 12
    <3>1. IsSeq(u) /\ Len(u) = Len(a) + Len(b)
      BY <1>11 DEF IsConcat
    <3>2. Len(a) = 2 /\ Len(b) = 10
      BY <1>6, <1>9
    <3> QED
      BY <3>1, <3>2
  <2>4. u[1] = a[1] /\ u[2] = a[2]
    BY <2>1
  <2> QED
    BY <2>2, <2>3, <2>4
<1>14. /\ IsSeq(v) /\ Len(v) = 12 /\ v[1] = c[1] /\ v[2] = c[2]
       /\ \A k \in 1 .. 10 : v[2 + k] = d[k]
  <2>1. \A k \in 1 .. 2 : v[k] = c[k]
    BY <1>7, <1>10, <1>12 DEF IsConcat
  <2>2. \A k \in 1 .. 10 : v[2 + k] = d[k]
    BY <1>7, <1>10, <1>12 DEF IsConcat
  <2>3. IsSeq(v) /\ Len(v) = 12
    <3>1. IsSeq(v) /\ Len(v) = Len(c) + Len(d)
      BY <1>12 DEF IsConcat
    <3>2. Len(c) = 2 /\ Len(d) = 10
      BY <1>7, <1>10
    <3> QED
      BY <3>1, <3>2
  <2>4. v[1] = c[1] /\ v[2] = c[2]
    BY <2>1
  <2> QED
    BY <2>2, <2>3, <2>4
<1>15. IsConcat(put, u, t)
  BY <1>4, <1>8, <1>13, ConcatIsSeq, Zenon
<1>16. IsConcat(read, v, t)
  BY <1>4, <1>8, <1>14, ConcatIsSeq, Zenon
<1>17. /\ IsSeq(put) /\ Len(put) = 14 /\ put[13] = t[1] /\ put[14] = t[2]
       /\ \A k \in 1 .. 12 : put[k] = u[k]
  BY <1>8, <1>13, <1>15 DEF IsConcat
<1>18. /\ IsSeq(read) /\ Len(read) = 14 /\ read[13] = t[1] /\ read[14] = t[2]
       /\ \A k \in 1 .. 12 : read[k] = v[k]
  BY <1>8, <1>14, <1>16 DEF IsConcat
<1>19. ASSUME NEW k \in 1 .. 14 PROVE Matches(put[k], read[k])
  <2>1. CASE k = 1
    <3>1. put[k] = a[1] /\ read[k] = c[1]
      BY <1>13, <1>14, <1>17, <1>18, <2>1
    <3> QED
      BY <1>6, <1>7, <3>1 DEF Matches, Kind
  <2>2. CASE k = 2
    <3>1. put[k] = a[2] /\ read[k] = c[2]
      BY <1>13, <1>14, <1>17, <1>18, <2>2
    <3> QED
      BY <1>6, <1>7, <3>1 DEF Matches, Kind
  <2>3. CASE k \in 3 .. 12
    <3>1. k - 2 \in 1 .. 10 /\ 2 + (k - 2) = k /\ k \in 1 .. 12
      BY <2>3
    <3>2. put[k] = b[k - 2] /\ read[k] = d[k - 2]
      BY <1>13, <1>14, <1>17, <1>18, <3>1
    <3> QED
      BY <1>9, <1>10, <3>1, <3>2 DEF Matches, Kind
  <2>4. CASE k = 13
    BY <1>8, <1>17, <1>18, <2>4 DEF Matches, Kind
  <2>5. CASE k = 14
    BY <1>8, <1>17, <1>18, <2>5 DEF Matches, Kind
  <2> QED
    BY <2>1, <2>2, <2>3, <2>4, <2>5
<1>20. PICK l : l = Layout(16, put, read)
  OBVIOUS
<1>21. l.put = put /\ l.read = read
  BY <1>20 DEF Layout
<1> QED
  <2>1. LayoutOK(l)
    <3>1. put[14].kind # "magic" /\ Len(put) # 0 /\ Len(put) = 14 /\ Len(read) = 14
      BY <1>8, <1>17, <1>18
    <3>2. IsSeq(put) /\ IsSeq(read)
      BY <1>17, <1>18
    <3> QED
      BY <1>19, <1>21, <3>1, <3>2 DEF LayoutOK
  <2> QED
    BY <1>5, <1>20, <2>1

\* The layout of each packet but the one whose padding is measured.
LEMMA LayoutIs ==
  ASSUME NEW name \in SimpleName \ {"OpenConnectionRequest1"}
  PROVE  LayoutOK(LayoutOf(name))
<1>1. CASE name = "UnconnectedPing"
  <2>1. LayoutOf(name) = UnconnectedPing
    BY <1>1 DEF LayoutOf
  <2>2. PICK a, b, c :
          /\ a = F("pingTime", "long") /\ b = MagicField
          /\ c = F("userGUID", "long")
    OBVIOUS
  <2>3. Matches(a, a) /\ Matches(b, b) /\ Matches(c, c) /\ c.kind # "magic"
    BY <2>2 DEF Matches, Kind, F, MagicField, Skip
  <2>4. SmallLayout(<<a, b, c>>)
    BY <2>3, ThreeFields
  <2> QED
    BY <2>1, <2>2, <2>4, SmallIsOK DEF UnconnectedPing
<1>2. CASE name = "UnconnectedPong"
  <2>1. LayoutOf(name) = UnconnectedPong
    BY <1>2 DEF LayoutOf
  <2>2. PICK a, b, c, d :
          /\ a = F("pingTime", "long") /\ b = F("serverGUID", "long")
          /\ c = MagicField /\ d = F("serverID", "string")
    OBVIOUS
  <2>3. /\ Matches(a, a) /\ Matches(b, b) /\ Matches(c, c)
        /\ Matches(d, d) /\ d.kind # "magic"
    BY <2>2 DEF Matches, Kind, F, MagicField, Skip
  <2>4. SmallLayout(<<a, b, c, d>>)
    BY <2>3, FourFields
  <2> QED
    BY <2>1, <2>2, <2>4, SmallIsOK DEF UnconnectedPong
<1>3. CASE name = "OpenConnectionReply1"
  <2>1. LayoutOf(name) = OpenConnectionReply1
    BY <1>3 DEF LayoutOf
  <2>2. PICK a, b, c, d :
          /\ a = MagicField /\ b = F("serverGUID", "long")
          /\ c = F("security", "boolean") /\ d = F("MTU", "short")
    OBVIOUS
  <2>3. /\ Matches(a, a) /\ Matches(b, b) /\ Matches(c, c)
        /\ Matches(d, d) /\ d.kind # "magic"
    BY <2>2 DEF Matches, Kind, F, MagicField, Skip
  <2>4. SmallLayout(<<a, b, c, d>>)
    BY <2>3, FourFields
  <2> QED
    BY <2>1, <2>2, <2>4, SmallIsOK DEF OpenConnectionReply1
<1>4. CASE name = "OpenConnectionRequest2"
  <2>1. LayoutOf(name) = OpenConnectionRequest2
    BY <1>4 DEF LayoutOf
  <2>2. PICK a, b, c, d :
          /\ a = MagicField /\ b = F("serverAddr", "address")
          /\ c = F("MTU", "short") /\ d = F("userGUID", "long")
    OBVIOUS
  <2>3. /\ Matches(a, a) /\ Matches(b, b) /\ Matches(c, c)
        /\ Matches(d, d) /\ d.kind # "magic"
    BY <2>2 DEF Matches, Kind, F, MagicField, Skip
  <2>4. SmallLayout(<<a, b, c, d>>)
    BY <2>3, FourFields
  <2> QED
    BY <2>1, <2>2, <2>4, SmallIsOK DEF OpenConnectionRequest2
<1>5. CASE name = "OpenConnectionReply2"
  <2>1. LayoutOf(name) = OpenConnectionReply2
    BY <1>5 DEF LayoutOf
  <2>2. PICK a, b, c, d, e :
          /\ a = MagicField /\ b = F("serverGUID", "long")
          /\ c = F("clientAddr", "address") /\ d = F("MTU", "short")
          /\ e = F("encryption", "boolean")
    OBVIOUS
  <2>3. /\ Matches(a, a) /\ Matches(b, b) /\ Matches(c, c)
        /\ Matches(d, d) /\ Matches(e, e) /\ e.kind # "magic"
    BY <2>2 DEF Matches, Kind, F, MagicField, Skip
  <2>4. SmallLayout(<<a, b, c, d, e>>)
    BY <2>3, FiveFields
  <2> QED
    BY <2>1, <2>2, <2>4, SmallIsOK DEF OpenConnectionReply2
<1>6. CASE name = "IncompatibleProtocol"
  <2>1. LayoutOf(name) = IncompatibleProtocol
    BY <1>6 DEF LayoutOf
  <2>2. PICK a, b, c :
          /\ a = F("protocolVersion", "byte") /\ b = MagicField
          /\ c = F("serverGUID", "long")
    OBVIOUS
  <2>3. Matches(a, a) /\ Matches(b, b) /\ Matches(c, c) /\ c.kind # "magic"
    BY <2>2 DEF Matches, Kind, F, MagicField, Skip
  <2>4. SmallLayout(<<a, b, c>>)
    BY <2>3, ThreeFields
  <2> QED
    BY <2>1, <2>2, <2>4, SmallIsOK DEF IncompatibleProtocol
<1>7. CASE name = "ConnectionRequest"
  <2>1. LayoutOf(name) = ConnectionRequest
    BY <1>7 DEF LayoutOf
  <2>2. PICK a, b : a = F("GUID", "long") /\ b = F("time", "long")
    OBVIOUS
  <2>3. Matches(a, a) /\ Matches(b, b) /\ b.kind # "magic"
    BY <2>2 DEF Matches, Kind, F, MagicField, Skip
  <2>4. SmallLayout(<<a, b>>)
    BY <2>3, TwoFields
  <2> QED
    BY <2>1, <2>2, <2>4, SmallIsOK DEF ConnectionRequest
<1>8. CASE name = "ConnectionRequestAccepted"
  BY <1>8, AcceptedIsOK DEF LayoutOf
<1>9. CASE name = "ConnectedPing"
  <2>1. LayoutOf(name) = ConnectedPing
    BY <1>9 DEF LayoutOf
  <2>2. PICK a : a = F("pingTime", "long")
    OBVIOUS
  <2>3. Matches(a, a) /\ a.kind # "magic"
    BY <2>2 DEF Matches, Kind, F, MagicField, Skip
  <2>4. SmallLayout(<<a>>)
    BY <2>3, OneField
  <2> QED
    BY <2>1, <2>2, <2>4, SmallIsOK DEF ConnectedPing
<1>10. CASE name = "ConnectedPong"
  <2>1. LayoutOf(name) = ConnectedPong
    BY <1>10 DEF LayoutOf
  <2>2. PICK a, b : a = F("pingTime", "long") /\ b = F("pongTime", "long")
    OBVIOUS
  <2>3. Matches(a, a) /\ Matches(b, b) /\ b.kind # "magic"
    BY <2>2 DEF Matches, Kind, F, MagicField, Skip
  <2>4. SmallLayout(<<a, b>>)
    BY <2>3, TwoFields
  <2> QED
    BY <2>1, <2>2, <2>4, SmallIsOK DEF ConnectedPong
<1> QED
  BY <1>1, <1>2, <1>3, <1>4, <1>5, <1>6, <1>7, <1>8, <1>9, <1>10 DEF SimpleName

LEMMA RequestIs ==
  LET l == LayoutOf("OpenConnectionRequest1")
  IN  /\ IsSeq(l.put) /\ IsSeq(l.read) /\ Len(l.put) = 3 /\ Len(l.read) = 3
      /\ Matches(l.put[1], l.read[1]) /\ Matches(l.put[2], l.read[2])
      /\ l.put[3].kind = "padding" /\ l.put[3].name = ""
      /\ l.read[3].kind = "rest" /\ l.read[3].name = "MTU"
      /\ l.put[1].name = "" /\ l.put[2].name = "protocolVersion"
<1>1. PICK a, b, c, d : /\ a = MagicField /\ b = F("protocolVersion", "byte")
                        /\ c = Skip("padding") /\ d = F("MTU", "rest")
  OBVIOUS
<1>2. PICK put, read : put = <<a, b, c>> /\ read = <<a, b, d>>
  OBVIOUS
<1>3. PICK l : l = LayoutOf("OpenConnectionRequest1") /\ l = Layout(5, put, read)
  BY <1>1, <1>2 DEF LayoutOf, OpenConnectionRequest1
<1>4. l.put = put /\ l.read = read
  BY <1>3 DEF Layout
<1>5. /\ put \in Seq({a, b, c}) /\ Len(put) = 3
      /\ put[1] = a /\ put[2] = b /\ put[3] = c
  BY <1>2
<1>6. /\ read \in Seq({a, b, d}) /\ Len(read) = 3
      /\ read[1] = a /\ read[2] = b /\ read[3] = d
  BY <1>2
<1>7. /\ Matches(a, a) /\ Matches(b, b) /\ a.name = "" /\ b.name = "protocolVersion"
      /\ c.kind = "padding" /\ c.name = "" /\ d.kind = "rest" /\ d.name = "MTU"
  BY <1>1 DEF Matches, Kind, MagicField, Skip, F
<1> QED
  BY <1>3, <1>4, <1>5, <1>6, <1>7, SeqIsSeq

-----------------------------------------------------------------------------
(* The pieces of a message *)

LEMMA EndianIs ==
  ASSUME NEW value, NEW n \in Nat
  PROVE  /\ IsSeq(BigEndian(value, n)) /\ Len(BigEndian(value, n)) = n
         /\ IsSeq(LittleEndian(value, n)) /\ Len(LittleEndian(value, n)) = n
         /\ \A k \in 1 .. n : /\ BigEndian(value, n)[k] = ByteOf(value, n - k)
                              /\ LittleEndian(value, n)[k] = ByteOf(value, k - 1)
<1>1. PICK a, b : a = BigEndian(value, n) /\ b = LittleEndian(value, n)
  OBVIOUS
<1>2. /\ DOMAIN a = 1 .. n /\ a = [k \in 1 .. n |-> a[k]]
      /\ \A k \in 1 .. n : a[k] = ByteOf(value, n - k)
  BY <1>1 DEF BigEndian
<1>3. /\ DOMAIN b = 1 .. n /\ b = [k \in 1 .. n |-> b[k]]
      /\ \A k \in 1 .. n : b[k] = ByteOf(value, k - 1)
  BY <1>1 DEF LittleEndian
<1> QED
  BY <1>1, <1>2, <1>3, MadeIsSeq

LEMMA ShortIs ==
  ASSUME NEW v \in Int, 0 <= v, v < 65536
  PROVE  256 * ByteOf(v, 1) + ByteOf(v, 0) = v
<1>1. PICK q, r : q = v \div 256 /\ r = v % 256
  OBVIOUS
<1>2. q \in Int /\ r \in Int /\ v = 256 * q + r /\ 0 <= r /\ r < 256
  BY <1>1
<1>3. 0 <= q /\ q < 256
  BY <1>2
<1>4. q % 256 = q
  BY <1>2, <1>3
<1>5. ByteOf(v, 1) = q % 256
  <2>1. 256 ^ 1 = 256
    OBVIOUS
  <2> QED
    BY <1>1, <2>1 DEF ByteOf
<1>6. ByteOf(v, 0) = r
  <2>1. 256 ^ 0 = 1 /\ v \div 1 = v
    OBVIOUS
  <2> QED
    BY <1>1, <2>1 DEF ByteOf
<1> QED
  BY <1>2, <1>4, <1>5, <1>6

LEMMA ShortBounds == ASSUME NEW v \in Short PROVE v \in Int /\ 0 <= v /\ v < 65536
BY DEF Short

LEMMA BytesAre ==
  ASSUME NEW n \in Nat, NEW a \in [1 .. n -> Byte]
  PROVE  a \in Seq(Byte) /\ Len(a) = n
OBVIOUS

LEMMA AddrIs ==
  ASSUME NEW v, AddressOK(v)
  PROVE  v.addr \in Seq(Byte) /\ Len(v.addr) = 4 /\ v.port \in Short
<1>1. PICK n \in Nat : n = 4
  OBVIOUS
<1>2. v.addr \in [1 .. n -> Byte] /\ v.port \in Short
  BY <1>1 DEF AddressOK
<1> QED
  BY <1>1, <1>2, BytesAre

\* The header that encode writes: the places of its fields, and that it has the
\* length that getLength says.
HeaderFields(p, x, q, o) ==
  /\ IsSeq(x) /\ Len(x) = HeaderLength(p) /\ HeaderLength(p) \in Nat
  /\ x[1] = CodeOf(p.reliability) * 32 + (IF p.hasSplit THEN 16 ELSE 0)
  /\ \A k \in 1 .. 2 : x[1 + k] = BigEndian(p.length * 8, 2)[k]
  /\ IsReliable(p) => \A k \in 1 .. 3 : x[3 + k] = LittleEndian(p.messageIndex, 3)[k]
  /\ IsSequenced(p) => \A k \in 1 .. 3 : x[q + k] = LittleEndian(p.sequencedIndex, 3)[k]
  /\ IsSequencedOrOrdered(p) =>
       /\ \A k \in 1 .. 3 : x[o + k] = LittleEndian(p.orderedIndex, 3)[k]
       /\ x[o + 4] = p.orderChannel

LEMMA HeaderIs ==
  ASSUME NEW p, NEW x, x = Header(p), NEW q, q = 3 + (IF IsReliable(p) THEN 3 ELSE 0),
         NEW o, o = q + (IF IsSequenced(p) THEN 3 ELSE 0)
  PROVE  HeaderFields(p, x, q, o)
<1>1. PICK a : a = <<CodeOf(p.reliability) * 32 + (IF p.hasSplit THEN 16 ELSE 0)>>
  OBVIOUS
<1>2. PICK b : b = BigEndian(p.length * 8, 2)
  OBVIOUS
<1>3. PICK c : c = IF IsReliable(p) THEN LittleEndian(p.messageIndex, 3) ELSE <<>>
  OBVIOUS
<1>4. PICK d : d = IF IsSequenced(p) THEN LittleEndian(p.sequencedIndex, 3) ELSE <<>>
  OBVIOUS
<1>5. PICK e : e = IF IsSequencedOrOrdered(p)
                   THEN LittleEndian(p.orderedIndex, 3) \o <<p.orderChannel>> ELSE <<>>
  OBVIOUS
<1>6. PICK f : f = IF p.hasSplit
                   THEN BigEndian(p.splitInfo.compoundSize, 4)
                          \o BigEndian(p.splitInfo.compoundID, 2)
                          \o BigEndian(p.splitInfo.compoundIndex, 4)
                   ELSE <<>>
  OBVIOUS
<1>7. x = a \o b \o c \o d \o e \o f
  BY <1>1, <1>2, <1>3, <1>4, <1>5, <1>6, ZenonT(40) DEF Header
<1>8. IsSeq(a) /\ Len(a) = 1 /\ a[1] = CodeOf(p.reliability) * 32 + (IF p.hasSplit THEN 16 ELSE 0)
  BY <1>1, SmallIsSeq
<1>9. IsSeq(b) /\ Len(b) = 2
  BY <1>2, EndianIs
<1>10. IsSeq(c) /\ Len(c) = IF IsReliable(p) THEN 3 ELSE 0
  BY <1>3, EndianIs, SmallIsSeq
<1>11. IsSeq(d) /\ Len(d) = IF IsSequenced(p) THEN 3 ELSE 0
  BY <1>4, EndianIs, SmallIsSeq
<1>12. /\ IsSeq(e) /\ Len(e) = IF IsSequencedOrOrdered(p) THEN 4 ELSE 0
       /\ IsSequencedOrOrdered(p) =>
            /\ \A k \in 1 .. 3 : e[k] = LittleEndian(p.orderedIndex, 3)[k]
            /\ e[4] = p.orderChannel
  <2>1. PICK u, v : u = LittleEndian(p.orderedIndex, 3) /\ v = <<p.orderChannel>>
    OBVIOUS
  <2>2. IsSeq(u) /\ Len(u) = 3 /\ IsSeq(v) /\ Len(v) = 1 /\ v[1] = p.orderChannel
    BY <2>1, EndianIs, SmallIsSeq
  <2>3. IsConcat(u \o v, u, v)
    BY <2>2, ConcatIsSeq, Zenon
  <2>4. PICK w : w = u \o v
    OBVIOUS
  <2>5. IsSeq(w) /\ Len(w) = 4 /\ w[4] = v[1] /\ \A k \in 1 .. 3 : w[k] = u[k]
    BY <2>2, <2>3, <2>4 DEF IsConcat
  <2> QED
    BY <1>5, <2>1, <2>2, <2>4, <2>5, SmallIsSeq
<1>13. IsSeq(f) /\ Len(f) = IF p.hasSplit THEN 10 ELSE 0
  <2>1. PICK u, v, w : /\ u = BigEndian(p.splitInfo.compoundSize, 4)
                       /\ v = BigEndian(p.splitInfo.compoundID, 2)
                       /\ w = BigEndian(p.splitInfo.compoundIndex, 4)
    OBVIOUS
  <2>2. IsSeq(u) /\ Len(u) = 4 /\ IsSeq(v) /\ Len(v) = 2 /\ IsSeq(w) /\ Len(w) = 4
    BY <2>1, EndianIs
  <2>3. PICK y : y = u \o v
    OBVIOUS
  <2>4. IsConcat(y, u, v)
    BY <2>2, <2>3, ConcatIsSeq, Zenon
  <2>5. IsSeq(y) /\ Len(y) = 6
    BY <2>2, <2>4 DEF IsConcat
  <2>6. IsConcat(y \o w, y, w)
    BY <2>2, <2>5, ConcatIsSeq, Zenon
  <2>7. IsSeq(y \o w) /\ Len(y \o w) = 10
    BY <2>2, <2>5, <2>6 DEF IsConcat
  <2>8. f = IF p.hasSplit THEN y \o w ELSE <<>>
    BY <1>6, <2>1, <2>3
  <2> QED
    BY <2>7, <2>8, SmallIsSeq
<1>14. PICK s : s = a \o b
  OBVIOUS
<1>15. PICK t : t = s \o c
  OBVIOUS
<1>16. PICK u : u = t \o d
  OBVIOUS
<1>17. PICK v : v = u \o e
  OBVIOUS
<1>18. /\ IsSeq(s) /\ Len(s) = 3 /\ s[1] = a[1] /\ \A k \in 1 .. 2 : s[1 + k] = b[k]
  <2>1. IsConcat(s, a, b)
    BY <1>8, <1>9, <1>14, ConcatIsSeq, Zenon
  <2> QED
    BY <1>8, <1>9, <2>1 DEF IsConcat
<1>19. /\ IsSeq(t) /\ Len(t) = 3 + Len(c)
       /\ \A k \in 1 .. 3 : t[k] = s[k]
       /\ \A k \in 1 .. Len(c) : t[3 + k] = c[k]
  <2>1. IsConcat(t, s, c)
    BY <1>10, <1>15, <1>18, ConcatIsSeq, Zenon
  <2> QED
    BY <1>18, <2>1 DEF IsConcat
<1>20. PICK lc \in {0, 3}, ld \in {0, 3}, le \in {0, 4}, lf \in {0, 10} :
         lc = Len(c) /\ ld = Len(d) /\ le = Len(e) /\ lf = Len(f)
  BY <1>10, <1>11, <1>12, <1>13
<1>21. /\ IsSeq(u) /\ Len(u) = 3 + lc + ld
       /\ \A k \in 1 .. 3 + lc : u[k] = t[k]
       /\ \A k \in 1 .. ld : u[3 + lc + k] = d[k]
  <2>1. IsConcat(u, t, d)
    BY <1>11, <1>16, <1>19, ConcatIsSeq, Zenon
  <2> QED
    BY <1>19, <1>20, <2>1 DEF IsConcat
<1>22. /\ IsSeq(v) /\ Len(v) = 3 + lc + ld + le
       /\ \A k \in 1 .. 3 + lc + ld : v[k] = u[k]
       /\ \A k \in 1 .. le : v[3 + lc + ld + k] = e[k]
  <2>1. IsConcat(v, u, e)
    BY <1>12, <1>17, <1>21, ConcatIsSeq, Zenon
  <2> QED
    BY <1>20, <1>21, <2>1 DEF IsConcat
<1>23. x = v \o f
  BY <1>7, <1>14, <1>15, <1>16, <1>17, Zenon
<1>24. /\ IsSeq(x) /\ Len(x) = 3 + lc + ld + le + lf
       /\ \A k \in 1 .. 3 + lc + ld + le : x[k] = v[k]
  <2>1. IsConcat(x, v, f)
    BY <1>13, <1>22, <1>23, ConcatIsSeq, Zenon
  <2> QED
    BY <1>20, <1>22, <2>1 DEF IsConcat
<1>25. HeaderLength(p) = 3 + lc + ld + le + lf /\ HeaderLength(p) \in Nat
  <2>1. ~(IsSequenced(p) /\ IsOrdered(p))
    BY DEF IsSequenced, IsOrdered
  <2> QED
    BY <1>10, <1>11, <1>12, <1>13, <1>20, <2>1 DEF HeaderLength, IsSequencedOrOrdered
<1>26. \A k \in 1 .. 3 + lc + ld : x[k] = u[k]
  BY <1>20, <1>22, <1>24
<1>27. \A k \in 1 .. 3 + lc : x[k] = t[k]
  BY <1>20, <1>21, <1>26
<1>28. \A k \in 1 .. 3 : x[k] = s[k]
  BY <1>19, <1>20, <1>27
<1>29. x[1] = a[1] /\ \A k \in 1 .. 2 : x[1 + k] = b[k]
  BY <1>18, <1>28
<1>30. IsReliable(p) => \A k \in 1 .. 3 : x[3 + k] = c[k]
  BY <1>10, <1>19, <1>20, <1>27
<1>31. IsSequenced(p) => \A k \in 1 .. 3 : x[q + k] = d[k]
  <2>1. q = 3 + lc /\ (IsSequenced(p) => ld = 3)
    BY <1>10, <1>11, <1>20
  <2>2. ASSUME IsSequenced(p), NEW k \in 1 .. 3 PROVE x[q + k] = d[k]
    <3>1. ld = 3 /\ q = 3 + lc /\ lc \in Nat
      BY <1>20, <2>1, <2>2
    <3>2. 3 + lc + k \in 1 .. 3 + lc + ld /\ k \in 1 .. ld /\ q + k = 3 + lc + k
      BY <3>1
    <3> QED
      BY <1>21, <1>26, <3>2
  <2> QED
    BY <2>2
<1>32. IsSequencedOrOrdered(p) => \A k \in 1 .. 4 : x[o + k] = e[k]
  <2>1. o = 3 + lc + ld /\ (IsSequencedOrOrdered(p) => le = 4)
    BY <1>10, <1>11, <1>12, <1>20
  <2>2. ASSUME IsSequencedOrOrdered(p), NEW k \in 1 .. 4 PROVE x[o + k] = e[k]
    <3>1. /\ 3 + lc + ld + k \in 1 .. 3 + lc + ld + le /\ k \in 1 .. le
          /\ o + k = 3 + lc + ld + k
      BY <1>20, <2>1, <2>2
    <3> QED
      BY <1>22, <1>24, <3>1
  <2> QED
    BY <2>2
<1>33. IsSequencedOrOrdered(p) =>
         /\ \A k \in 1 .. 3 : x[o + k] = LittleEndian(p.orderedIndex, 3)[k]
         /\ x[o + 4] = p.orderChannel
  BY <1>12, <1>32
<1> QED
  BY <1>2, <1>3, <1>4, <1>8, <1>24, <1>25, <1>29, <1>30, <1>31, <1>33 DEF HeaderFields

LEMMA HeaderIsSeq ==
  ASSUME NEW p
  PROVE  IsSeq(Header(p)) /\ Len(Header(p)) = HeaderLength(p) /\ HeaderLength(p) \in Nat
<1>1. PICK q, o : /\ q = 3 + (IF IsReliable(p) THEN 3 ELSE 0)
                  /\ o = q + (IF IsSequenced(p) THEN 3 ELSE 0)
  OBVIOUS
<1>2. HeaderFields(p, Header(p), q, o)
  BY <1>1, HeaderIs
<1> QED
  BY <1>2 DEF HeaderFields

LEMMA AddressIs ==
  ASSUME NEW v, v.addr \in Seq(Byte), Len(v.addr) = 4,
         NEW e, e = Encoded("address", v)
  PROVE  /\ IsSeq(e) /\ Len(e) = 7 /\ e[1] = v.version
         /\ \A k \in 1 .. 4 : e[1 + k] = v.addr[k]
         /\ e[6] = ByteOf(v.port, 1) /\ e[7] = ByteOf(v.port, 0)
<1>1. PICK a, b, c : a = <<v.version>> /\ b = v.addr /\ c = BigEndian(v.port, 2)
  OBVIOUS
<1>2. PICK u : u = a \o b
  OBVIOUS
<1>3. e = u \o c
  BY <1>1, <1>2 DEF Encoded
<1>4. IsSeq(a) /\ Len(a) = 1 /\ a[1] = v.version
  BY <1>1, SmallIsSeq
<1>5. IsSeq(b) /\ Len(b) = 4
  BY <1>1, SeqIsSeq
<1>6. IsSeq(c) /\ Len(c) = 2 /\ c[1] = ByteOf(v.port, 1) /\ c[2] = ByteOf(v.port, 0)
  <2>1. 2 - 1 = 1 /\ 2 - 2 = 0 /\ 1 \in 1 .. 2 /\ 2 \in 1 .. 2 /\ 2 \in Nat
    OBVIOUS
  <2>2. c[1] = ByteOf(v.port, 2 - 1) /\ c[2] = ByteOf(v.port, 2 - 2)
    BY <1>1, <2>1, EndianIs
  <2> QED
    BY <1>1, <2>1, <2>2, EndianIs
<1>7. IsConcat(u, a, b)
  BY <1>2, <1>4, <1>5, ConcatIsSeq, Zenon
<1>8. IsSeq(u) /\ Len(u) = 5 /\ u[1] = a[1] /\ \A k \in 1 .. 4 : u[1 + k] = b[k]
  BY <1>4, <1>5, <1>7 DEF IsConcat
<1>9. IsConcat(e, u, c)
  BY <1>3, <1>6, <1>8, ConcatIsSeq, Zenon
<1>10. /\ IsSeq(e) /\ Len(e) = 7 /\ e[6] = c[1] /\ e[7] = c[2]
       /\ \A k \in 1 .. 5 : e[k] = u[k]
  <2>1. \A k \in 1 .. 2 : e[5 + k] = c[k]
    BY <1>6, <1>8, <1>9 DEF IsConcat
  <2> QED
    BY <1>6, <1>8, <1>9, <2>1 DEF IsConcat
<1>11. \A k \in 1 .. 4 : 1 + k \in 1 .. 5
  OBVIOUS
<1> QED
  BY <1>1, <1>4, <1>6, <1>8, <1>10, <1>11

LEMMA StringIs ==
  ASSUME NEW v \in Seq(Byte), NEW e, e = Encoded("string", v)
  PROVE  /\ IsSeq(e) /\ Len(e) = 2 + Len(v)
         /\ e[1] = ByteOf(Len(v), 1) /\ e[2] = ByteOf(Len(v), 0)
         /\ \A k \in 1 .. Len(v) : e[2 + k] = v[k]
<1>1. PICK c : c = BigEndian(Len(v), 2)
  OBVIOUS
<1>2. e = c \o v
  BY <1>1 DEF Encoded
<1>3. IsSeq(c) /\ Len(c) = 2 /\ c[1] = ByteOf(Len(v), 1) /\ c[2] = ByteOf(Len(v), 0)
  <2>1. 2 - 1 = 1 /\ 2 - 2 = 0 /\ 1 \in 1 .. 2 /\ 2 \in 1 .. 2 /\ 2 \in Nat
    OBVIOUS
  <2>2. c[1] = ByteOf(Len(v), 2 - 1) /\ c[2] = ByteOf(Len(v), 2 - 2)
    BY <1>1, <2>1, EndianIs
  <2> QED
    BY <1>1, <2>1, <2>2, EndianIs
<1>4. IsSeq(v) /\ Len(v) \in Nat
  BY SeqIsSeq
<1>5. IsConcat(e, c, v)
  BY <1>2, <1>3, <1>4, ConcatIsSeq, Zenon
<1>6. e[1] = c[1] /\ e[2] = c[2]
  BY <1>3, <1>5 DEF IsConcat
<1> QED
  BY <1>3, <1>4, <1>5, <1>6 DEF IsConcat

LEMMA EncodedIsSeq ==
  ASSUME NEW kind \in Kind, NEW v, kind # "magic" => ValueOK(kind, v)
  PROVE  IsSeq(Encoded(kind, v))
<1>1. CASE kind = "byte"
  BY <1>1, SmallIsSeq DEF Encoded
<1>2. CASE kind = "boolean"
  BY <1>2, SmallIsSeq DEF Encoded
<1>3. CASE kind = "short"
  <2>1. Encoded(kind, v) = BigEndian(v, 2)
    BY <1>3 DEF Encoded
  <2> QED
    BY <2>1, EndianIs
<1>4. CASE kind = "long"
  <2>1. Encoded(kind, v) = v /\ v \in Seq(Byte)
    BY <1>4 DEF Encoded, ValueOK
  <2> QED
    BY <2>1, SeqIsSeq
<1>5. CASE kind = "magic"
  <2>1. Encoded(kind, v) = Magic
    BY <1>5 DEF Encoded
  <2>2. Magic \in Seq(Nat)
    BY DEF Magic
  <2> QED
    BY <2>1, <2>2, SeqIsSeq
<1>6. CASE kind = "address"
  <2>1. v.addr \in Seq(Byte) /\ Len(v.addr) = 4
    <3>1. AddressOK(v)
      BY <1>6 DEF ValueOK
    <3> QED
      BY <3>1, AddrIs
  <2> QED
    BY <1>6, <2>1, AddressIs
<1>7. CASE kind = "string"
  <2>1. v \in Seq(Byte)
    BY <1>7 DEF ValueOK
  <2> QED
    BY <1>7, <2>1, StringIs
<1> QED
  BY <1>1, <1>2, <1>3, <1>4, <1>5, <1>6, <1>7 DEF Kind

\* What a simple packet puts in a field that has a kind of Kind.
LEMMA ValueIs ==
  ASSUME NEW m, SimpleOK(m), NEW k \in DOMAIN LayoutOf(m.name).put, NEW f,
         f = LayoutOf(m.name).put[k], f.name # ""
  PROVE  /\ f.name \in DOMAIN m.values /\ ValueOf(m, f) = m.values[f.name]
         /\ ValueOK(f.kind, m.values[f.name])
BY DEF SimpleOK, ValueOf

LEMMA NamelessIs ==
  ASSUME NEW m, SimpleOK(m)
  PROVE  "" \notin DOMAIN m.values
BY DEF SimpleOK

\* What the fields of a packet are, but for the padding of the first request.
LEMMA FieldsAre ==
  ASSUME NEW m, SimpleOK(m), NEW put, put = LayoutOf(m.name).put,
         NEW read, read = LayoutOf(m.name).read
  PROVE  /\ IsSeq(put) /\ IsSeq(read) /\ Len(read) = Len(put) /\ Len(put) # 0
         /\ \A k \in 1 .. Len(put) :
              Matches(put[k], read[k]) \/ (m.name = "OpenConnectionRequest1" /\ k = 3)
<1>1. CASE m.name # "OpenConnectionRequest1"
  <2>1. m.name \in SimpleName \ {"OpenConnectionRequest1"}
    BY <1>1 DEF SimpleOK
  <2>2. LayoutOK(LayoutOf(m.name))
    BY <2>1, LayoutIs
  <2> QED
    BY <2>2 DEF LayoutOK
<1>2. CASE m.name = "OpenConnectionRequest1"
  <2>1. /\ IsSeq(put) /\ IsSeq(read) /\ Len(put) = 3 /\ Len(read) = 3
        /\ Matches(put[1], read[1]) /\ Matches(put[2], read[2])
    BY <1>2, RequestIs
  <2> QED
    BY <1>2, <2>1
<1> QED
  BY <1>1, <1>2

\* The bytes of the fields, or of the packets of a datagram.
Segments(m) ==
  IF IsDatagram(m)
  THEN [k \in DOMAIN m.packets |-> Header(m.packets[k]) \o m.packets[k].payload]
  ELSE [k \in DOMAIN LayoutOf(m.name).put |->
          Encoded(LayoutOf(m.name).put[k].kind, ValueOf(m, LayoutOf(m.name).put[k]))]

\* What comes before them: the PID, and the number of a datagram.
Opening(m) ==
  IF IsDatagram(m) THEN <<128>> \o LittleEndian(m.sequenceNumber, 3)
  ELSE <<LayoutOf(m.name).pid>>

Pieces(m) == <<Opening(m)>> \o Segments(m)

LEMMA PacketIs ==
  ASSUME NEW p, PacketOK(p), NEW s, s = Header(p) \o p.payload
  PROVE  /\ IsConcat(s, Header(p), p.payload) /\ Len(s) = GetLength(p)
         /\ IsSeq(s) /\ Spells(s, Append(PutBytes(Header(p)), p.payload))
<1>1. PICK h, d : h = Header(p) /\ d = p.payload
  OBVIOUS
<1>2. IsSeq(h) /\ Len(h) = HeaderLength(p)
  BY <1>1, HeaderIsSeq
<1>3. IsSeq(d) /\ Len(d) = p.length
  BY <1>1, SeqIsSeq DEF PacketOK
<1>4. s = h \o d
  BY <1>1
<1>5. IsConcat(s, h, d)
  BY <1>2, <1>3, <1>4, ConcatIsSeq, Zenon
<1>6. PICK q, r : q = PutBytes(h) /\ r = Append(q, d)
  OBVIOUS
<1>7. Spells(h, q)
  BY <1>2, <1>6, SpellsSingly
<1>8. IsSeq(q)
  BY <1>7 DEF Spells
<1>9. IsAppend(r, q, d)
  BY <1>6, <1>8, AppendIsSeq, Zenon
<1>10. Spells(s, r)
  BY <1>3, <1>5, <1>7, <1>9, SpellsMore, Zenon
<1>11. IsSeq(s) /\ Len(s) = GetLength(p)
  BY <1>2, <1>3, <1>5 DEF IsConcat, GetLength
<1> QED
  BY <1>1, <1>5, <1>6, <1>10, <1>11

LEMMA SegmentsAre ==
  ASSUME NEW m \in Message
  PROVE  /\ IsSeq(Segments(m)) /\ \A k \in 1 .. Len(Segments(m)) : IsSeq(Segments(m)[k])
         /\ Len(Segments(m)) = IF IsDatagram(m) THEN Len(m.packets)
                               ELSE Len(LayoutOf(m.name).put)
<1>1. PICK s : s = Segments(m)
  OBVIOUS
<1>2. CASE IsDatagram(m)
  <2>1. PICK q : q = m.packets
    OBVIOUS
  <2>2. IsSeq(q) /\ \A p \in Range(q) : PacketOK(p)
    BY <1>2, <2>1, MessageAssumption DEF IsSeq
  <2>3. PICK n \in Nat : n = Len(q) /\ DOMAIN q = 1 .. n
    BY <2>2, IsSeqLen
  <2>4. s = [k \in 1 .. n |-> Header(q[k]) \o q[k].payload]
    BY <1>1, <1>2, <2>1, <2>3 DEF Segments
  <2>5. DOMAIN s = 1 .. n /\ s = [k \in 1 .. n |-> s[k]]
    BY <2>4
  <2>6. IsSeq(s) /\ Len(s) = n
    BY <2>5, MadeIsSeq
  <2>7. ASSUME NEW k \in 1 .. n PROVE IsSeq(s[k])
    <3>1. PICK p : p = q[k] /\ PacketOK(p)
      BY <2>2, <2>3 DEF Range
    <3>2. PICK x : x = Header(p) \o p.payload
      OBVIOUS
    <3>3. IsSeq(x)
      BY <3>1, <3>2, PacketIs
    <3> QED
      BY <2>4, <3>1, <3>2, <3>3
  <2> QED
    BY <1>1, <1>2, <2>1, <2>3, <2>6, <2>7
<1>3. CASE ~IsDatagram(m)
  <2>1. SimpleOK(m)
    BY <1>3, MessageAssumption
  <2>2. PICK put, read : put = LayoutOf(m.name).put /\ read = LayoutOf(m.name).read
    OBVIOUS
  <2>3. PICK n \in Nat : n = Len(put) /\ DOMAIN put = 1 .. n /\ IsSeq(put)
    BY <2>1, <2>2, FieldsAre, IsSeqLen
  <2>4. s = [k \in 1 .. n |-> Encoded(put[k].kind, ValueOf(m, put[k]))]
    BY <1>1, <1>3, <2>2, <2>3 DEF Segments
  <2>5. DOMAIN s = 1 .. n /\ s = [k \in 1 .. n |-> s[k]]
    BY <2>4
  <2>6. IsSeq(s) /\ Len(s) = n
    BY <2>5, MadeIsSeq
  <2>7. ASSUME NEW k \in 1 .. n PROVE IsSeq(s[k])
    <3>1. PICK f, v : f = put[k] /\ v = ValueOf(m, f)
      OBVIOUS
    <3>2. s[k] = Encoded(f.kind, v)
      BY <2>4, <3>1
    <3>3. CASE Matches(f, read[k])
      <4>1. f.kind # "magic" => f.name # ""
        BY <3>3, ZenonT(20) DEF Matches
      <4>2. f.kind # "magic" => ValueOK(f.kind, v)
        <5>1. k \in DOMAIN LayoutOf(m.name).put /\ f = LayoutOf(m.name).put[k]
          BY <2>2, <2>3, <3>1
        <5>2. f.name # "" => ValueOK(f.kind, m.values[f.name]) /\ v = m.values[f.name]
          BY <2>1, <3>1, <5>1, ValueIs
        <5> QED
          BY <4>1, <5>2
      <4> QED
        BY <3>2, <3>3, <4>2, EncodedIsSeq DEF Matches
    <3>4. CASE m.name = "OpenConnectionRequest1" /\ k = 3
      <4>1. f.kind = "padding" /\ f.name = ""
        BY <2>2, <3>1, <3>4, RequestIs
      <4>2. v = m.padding /\ m.padding \in Seq(Byte)
        BY <2>1, <3>1, <3>4, <4>1, NamelessIs DEF ValueOf, SimpleOK
      <4>3. s[k] = v
        BY <3>2, <4>1 DEF Encoded
      <4> QED
        BY <4>2, <4>3, SeqIsSeq
    <3> QED
      BY <2>1, <2>2, <2>3, <3>1, <3>3, <3>4, FieldsAre
  <2> QED
    BY <1>1, <1>3, <2>2, <2>3, <2>6, <2>7
<1> QED
  BY <1>2, <1>3

LEMMA OpeningIs ==
  ASSUME NEW m
  PROVE  /\ IsSeq(Opening(m))
         /\ ~IsDatagram(m) => Len(Opening(m)) = 1
         /\ IsDatagram(m) =>
              /\ Len(Opening(m)) = 4
              /\ \A k \in 1 .. 3 : Opening(m)[1 + k] = LittleEndian(m.sequenceNumber, 3)[k]
<1>1. CASE IsDatagram(m)
  <2>1. PICK a, b : a = <<128>> /\ b = LittleEndian(m.sequenceNumber, 3)
    OBVIOUS
  <2>2. IsSeq(a) /\ Len(a) = 1 /\ IsSeq(b) /\ Len(b) = 3
    BY <2>1, EndianIs, SmallIsSeq
  <2>3. PICK s : s = Opening(m) /\ s = a \o b
    BY <1>1, <2>1 DEF Opening
  <2>4. IsConcat(s, a, b)
    BY <2>2, <2>3, ConcatIsSeq, Zenon
  <2>5. IsSeq(s) /\ Len(s) = 4 /\ \A k \in 1 .. 3 : s[1 + k] = b[k]
    BY <2>2, <2>4 DEF IsConcat
  <2> QED
    BY <1>1, <2>1, <2>3, <2>5
<1>2. CASE ~IsDatagram(m)
  BY <1>2, SmallIsSeq DEF Opening
<1> QED
  BY <1>1, <1>2

LEMMA PiecesAre ==
  ASSUME NEW m \in Message
  PROVE  /\ IsConcat(Pieces(m), <<Opening(m)>>, Segments(m)) /\ IsSeq(Pieces(m))
         /\ Len(Pieces(m)) = 1 + Len(Segments(m)) /\ Pieces(m)[1] = Opening(m)
         /\ \A k \in 1 .. Len(Segments(m)) : Pieces(m)[1 + k] = Segments(m)[k]
<1>1. PICK a, b, s : a = <<Opening(m)>> /\ b = Segments(m) /\ s = Pieces(m) /\ s = a \o b
  BY DEF Pieces
<1>2. IsSeq(a) /\ Len(a) = 1 /\ a[1] = Opening(m)
  BY <1>1, SmallIsSeq
<1>3. IsSeq(b) /\ Len(b) \in Nat
  BY <1>1, SegmentsAre, IsSeqLen
<1>4. IsConcat(s, a, b)
  BY <1>1, <1>2, <1>3, ConcatIsSeq, Zenon
<1>5. /\ IsSeq(s) /\ Len(s) = 1 + Len(b) /\ s[1] = a[1]
      /\ \A k \in 1 .. Len(b) : s[1 + k] = b[k]
  BY <1>2, <1>3, <1>4 DEF IsConcat
<1> QED
  BY <1>1, <1>2, <1>4, <1>5

\* What the calls of put for a message put is what its pieces are.
LEMMA MessageIs ==
  ASSUME NEW m \in Message
  PROVE  \E v : Spells(v, Calls(m)) /\ Spells(v, Pieces(m))
<1>1. PICK head, segs : head = Opening(m) /\ segs = Segments(m)
  OBVIOUS
<1>2. IsSeq(head) /\ IsSeq(segs) /\ \A k \in 1 .. Len(segs) : IsSeq(segs[k])
  BY <1>1, OpeningIs, SegmentsAre
<1>3. PICK flat : flat = FlattenSeq(segs) /\ Spells(flat, segs)
  BY <1>2, FlattenSpells
<1>4. IsSeq(flat)
  BY <1>3 DEF Spells
<1>5. PICK v : v = head \o flat
  OBVIOUS
<1>6. IsConcat(v, head, flat)
  BY <1>2, <1>4, <1>5, ConcatIsSeq, Zenon
<1>7. Spells(v, Pieces(m))
  <2>1. Spells(head, <<head>>)
    BY <1>2, SpellsOnly
  <2>2. IsConcat(Pieces(m), <<head>>, segs)
    BY <1>1, PiecesAre
  <2> QED
    BY <1>3, <1>6, <2>1, <2>2, SpellsBoth, Zenon
<1>8. CASE IsDatagram(m)
  <2>1. PICK q : q = m.packets
    OBVIOUS
  <2>2. IsSeq(q) /\ \A p \in Range(q) : PacketOK(p)
    BY <1>8, <2>1, MessageAssumption DEF IsSeq
  <2>3. PICK n \in Nat : n = Len(q) /\ DOMAIN q = 1 .. n
    BY <2>2, IsSeqLen
  <2>4. PICK seqs : seqs = [k \in DOMAIN q |-> Append(PutBytes(Header(q[k])), q[k].payload)]
    OBVIOUS
  <2>5. IsSeq(seqs) /\ Len(seqs) = n
    <3>1. DOMAIN seqs = 1 .. n /\ seqs = [k \in 1 .. n |-> seqs[k]]
      BY <2>3, <2>4
    <3> QED
      BY <3>1, MadeIsSeq
  <2>6. segs = [k \in 1 .. n |-> Header(q[k]) \o q[k].payload]
    BY <1>1, <1>8, <2>1, <2>3 DEF Segments
  <2>7. Len(segs) = Len(seqs)
    BY <1>1, <1>8, <2>1, <2>3, <2>5, SegmentsAre
  <2>8. ASSUME NEW k \in 1 .. Len(segs) PROVE Spells(segs[k], seqs[k])
    <3>1. k \in 1 .. n /\ k \in DOMAIN q
      BY <2>3, <2>5, <2>7
    <3>2. PICK p : p = q[k] /\ PacketOK(p)
      BY <2>2, <2>3, <3>1 DEF Range
    <3>3. PICK x : x = Header(p) \o p.payload
      OBVIOUS
    <3>4. Spells(x, Append(PutBytes(Header(p)), p.payload))
      BY <3>2, <3>3, PacketIs
    <3>5. segs[k] = x
      BY <2>6, <3>1, <3>2, <3>3
    <3>6. seqs[k] = Append(PutBytes(Header(p)), p.payload)
      BY <2>4, <3>1, <3>2
    <3> QED
      BY <3>4, <3>5, <3>6
  <2>9. PICK calls : calls = FlattenSeq(seqs) /\ Spells(flat, calls)
    BY <1>2, <1>3, <2>5, <2>7, <2>8, FlattenBoth
  <2>10. PICK first : first = PutBytes(head) /\ Spells(head, first)
    BY <1>2, SpellsSingly
  <2>11. Calls(m) = first \o calls
    BY <1>1, <1>8, <2>1, <2>4, <2>9, <2>10 DEF Calls, DatagramCalls, Opening
  <2>12. IsSeq(first) /\ IsSeq(calls)
    BY <2>9, <2>10 DEF Spells
  <2>13. IsConcat(Calls(m), first, calls)
    BY <2>11, <2>12, ConcatIsSeq, Zenon
  <2>14. Spells(v, Calls(m))
    BY <1>6, <2>9, <2>10, <2>13, SpellsBoth, Zenon
  <2> QED
    BY <1>7, <2>14
<1>9. CASE ~IsDatagram(m)
  <2>1. Calls(m) = PutBytes(v)
    BY <1>1, <1>3, <1>5, <1>9 DEF Calls, FieldCalls, Opening, Segments
  <2>2. IsSeq(v)
    BY <1>6 DEF IsConcat
  <2>3. Spells(v, Calls(m))
    BY <2>1, <2>2, SpellsSingly
  <2> QED
    BY <1>7, <2>3
<1> QED
  BY <1>8, <1>9

LEMMA SumsExist ==
  ASSUME NEW n \in Nat, NEW g
  PROVE  \E f : f = [k \in 0 .. n |-> IF k = 0 THEN 0 ELSE f[k - 1] + g[k]]
<1> DEFINE Good(m) == \E f : f = [k \in 0 .. m |-> IF k = 0 THEN 0 ELSE f[k - 1] + g[k]]
           T == {m \in Nat : ~Good(m)}
<1>1. SUFFICES ASSUME T # {} PROVE FALSE
  BY <1>1
<1>2. PICK m \in T : \A y \in T : m <= y
  <2>1. T \in SUBSET Nat
    OBVIOUS
  <2> HIDE DEF T
  <2> QED
    BY <1>1, <2>1, LeastNatural
<1>3. CASE m = 0
  <2> DEFINE f == [k \in 0 .. 0 |-> 0]
  <2>1. f = [k \in 0 .. 0 |-> IF k = 0 THEN 0 ELSE f[k - 1] + g[k]]
    OBVIOUS
  <2> QED
    BY <1>3, <2>1
<1>4. CASE m # 0
  <2>1. m - 1 \in Nat /\ ~(m <= m - 1)
    BY <1>4
  <2>2. Good(m - 1)
    BY <1>2, <2>1
  <2>3. PICK f : f = [k \in 0 .. m - 1 |-> IF k = 0 THEN 0 ELSE f[k - 1] + g[k]]
    BY <2>2
  <2> DEFINE h == [k \in 0 .. m |-> IF k = m THEN f[m - 1] + g[m] ELSE f[k]]
  <2>4. \A k \in 0 .. m : h[k] = IF k = 0 THEN 0 ELSE h[k - 1] + g[k]
    <3> SUFFICES ASSUME NEW k \in 0 .. m
                 PROVE  h[k] = IF k = 0 THEN 0 ELSE h[k - 1] + g[k]
      OBVIOUS
    <3>1. CASE k = m
      BY <1>4, <2>1, <3>1
    <3>2. CASE k # m /\ k # 0
      <4>1. k \in 0 .. m - 1 /\ k - 1 \in 0 .. m - 1 /\ k - 1 # m /\ k - 1 \in 0 .. m
        BY <2>1, <3>2
      <4>2. f[k] = f[k - 1] + g[k]
        BY <2>3, <3>2, <4>1
      <4> QED
        BY <3>2, <4>1, <4>2
    <3>3. CASE k = 0
      <4>1. 0 \in 0 .. m - 1
        BY <2>1
      <4>2. f[0] = 0
        BY <2>3, <4>1
      <4> QED
        BY <1>4, <3>3, <4>2
    <3> QED
      BY <3>1, <3>2, <3>3
  <2>5. h = [k \in 0 .. m |-> IF k = 0 THEN 0 ELSE h[k - 1] + g[k]]
    BY <2>4
  <2> QED
    BY <2>5
<1> QED
  BY <1>3, <1>4

\* The sums of getTotalLength's loop.
IsSum(f, q) ==
  f = [k \in 0 .. Len(q) |-> IF k = 0 THEN 0 ELSE f[k - 1] + GetLength(q[k])]

LEMMA LengthIs ==
  ASSUME NEW q, Len(q) \in Nat
  PROVE  \E f : /\ PacketsLength(q) = f[Len(q)] /\ f[0] = 0
                /\ \A k \in 1 .. Len(q) : f[k] = f[k - 1] + GetLength(q[k])
<1> DEFINE s == CHOOSE f : f = [k \in 0 .. Len(q) |->
                                 IF k = 0 THEN 0 ELSE f[k - 1] + GetLength(q[k])]
           g == [k \in 1 .. Len(q) |-> GetLength(q[k])]
<1>1. PacketsLength(q) = s[Len(q)]
  BY DEF PacketsLength
<1>2. \E f : IsSum(f, q)
  <2>1. PICK f : f = [k \in 0 .. Len(q) |-> IF k = 0 THEN 0 ELSE f[k - 1] + g[k]]
    <3> HIDE DEF g
    <3> QED
      BY SumsExist
  <2>2. \A k \in 0 .. Len(q) : k # 0 => g[k] = GetLength(q[k])
    OBVIOUS
  <2> HIDE DEF g
  <2>3. [k \in 0 .. Len(q) |-> IF k = 0 THEN 0 ELSE f[k - 1] + g[k]]
          = [k \in 0 .. Len(q) |-> IF k = 0 THEN 0 ELSE f[k - 1] + GetLength(q[k])]
    BY <2>2
  <2> QED
    BY <2>1, <2>3 DEF IsSum
<1>3. IsSum(s, q)
  BY <1>2 DEF IsSum
<1> HIDE DEF s, g
<1>4. \A k \in 0 .. Len(q) : s[k] = IF k = 0 THEN 0 ELSE s[k - 1] + GetLength(q[k])
  BY <1>3 DEF IsSum
<1>5. \A k \in 1 .. Len(q) : k \in 0 .. Len(q) /\ k # 0
  OBVIOUS
<1>6. s[0] = 0 /\ \A k \in 1 .. Len(q) : s[k] = s[k - 1] + GetLength(q[k])
  BY <1>4, <1>5
<1> QED
  BY <1>1, <1>6

\* The pieces of a datagram have the length that getTotalLength says.
LEMMA DatagramLength ==
  ASSUME NEW m \in Message, IsDatagram(m), NEW w, Spells(w, Pieces(m))
  PROVE  Len(w) = TotalLength(m.packets)
<1>1. PICK q, r : q = m.packets /\ r = Pieces(m)
  OBVIOUS
<1>2. IsSeq(q) /\ \A p \in Range(q) : PacketOK(p)
  BY <1>1, MessageAssumption DEF IsSeq
<1>3. PICK n \in Nat : n = Len(q) /\ DOMAIN q = 1 .. n
  BY <1>2, IsSeqLen
<1>4. PICK g : /\ PacketsLength(q) = g[n] /\ g[0] = 0
               /\ \A k \in 1 .. n : g[k] = g[k - 1] + GetLength(q[k])
  BY <1>3, LengthIs
<1>5. PICK f : Lies(f, w, r) /\ f[Len(r)] = Len(w)
  BY <1>1 DEF Spells
<1>6. Len(r) = 1 + n /\ r[1] = Opening(m) /\ \A k \in 1 .. n : r[1 + k] = Segments(m)[k]
  <2>1. Len(Segments(m)) = n
    BY <1>1, <1>3, SegmentsAre
  <2> QED
    BY <1>1, <2>1, PiecesAre
<1>7. \A k \in 1 .. n : Len(r[1 + k]) = GetLength(q[k])
  <2> SUFFICES ASSUME NEW k \in 1 .. n PROVE Len(r[1 + k]) = GetLength(q[k])
    OBVIOUS
  <2>1. PICK p : p = q[k] /\ PacketOK(p)
    BY <1>2, <1>3 DEF Range
  <2>2. PICK s : s = Header(p) \o p.payload
    OBVIOUS
  <2>3. Segments(m)[k] = s
    BY <1>1, <1>3, <2>1, <2>2 DEF Segments
  <2>4. Len(s) = GetLength(p)
    BY <2>1, <2>2, PacketIs
  <2> QED
    BY <1>6, <2>1, <2>3, <2>4
<1>8. /\ f[0] = 0
      /\ \A k \in 1 .. 1 + n : /\ f[k - 1] \in Nat /\ Len(r[k]) \in Nat
                               /\ f[k] = f[k - 1] + Len(r[k])
  BY <1>5, <1>6 DEF Lies
<1>9. f[1] = 4
  <2>1. 1 \in 1 .. 1 + n /\ 1 - 1 = 0
    OBVIOUS
  <2>2. Len(r[1]) = 4
    BY <1>6, OpeningIs
  <2>3. f[1] = f[0] + Len(r[1])
    BY <1>8, <2>1
  <2> QED
    BY <1>8, <2>2, <2>3
<1> DEFINE a == [k \in 0 .. n |-> f[1 + k] - 4]
           b == [k \in 0 .. n |-> g[k]]
<1>10. \A k \in 0 .. n : a[k] = f[1 + k] - 4 /\ b[k] = g[k]
  OBVIOUS
<1> HIDE DEF a, b
<1>11. StepAlike(a, b, n)
  <2>1. a[0] = b[0]
    BY <1>4, <1>9, <1>10
  <2>2. ASSUME NEW k \in 1 .. n, a[k - 1] = b[k - 1] PROVE a[k] = b[k]
    <3>1. /\ k \in 0 .. n /\ k - 1 \in 0 .. n /\ 1 + (k - 1) = k
          /\ 1 + k \in 1 .. 1 + n /\ (1 + k) - 1 = k /\ k \in 1 .. 1 + n
      OBVIOUS
    <3>2. f[k] - 4 = g[k - 1] /\ f[k] \in Nat
      BY <1>8, <1>10, <2>2, <3>1
    <3>3. f[1 + k] = f[k] + GetLength(q[k])
      BY <1>7, <1>8, <3>1
    <3>4. g[k] = g[k - 1] + GetLength(q[k])
      BY <1>4
    <3>5. a[k] = f[1 + k] - 4 /\ b[k] = g[k]
      BY <1>10, <3>1
    <3>6. GetLength(q[k]) \in Nat
      BY <1>7, <1>8, <3>1
    <3> QED
      BY <3>2, <3>3, <3>4, <3>5, <3>6
  <2> QED
    BY <2>1, <2>2 DEF StepAlike
<1>12. a[n] = b[n]
  BY <1>11, SumsAgree
<1>13. TotalLength(q) = 4 + g[n]
  BY <1>4 DEF TotalLength
<1>14. f[1 + n] = Len(w) /\ Len(w) \in Nat
  BY <1>1, <1>5, <1>6, IsSeqLen DEF Spells
<1>15. f[1 + n] - 4 = g[n]
  BY <1>10, <1>12
<1> QED
  BY <1>1, <1>13, <1>14, <1>15

-----------------------------------------------------------------------------
(* Writing *)

\* What was put is what the first calls put, and the others are left.
WritingInv ==
  phase = "put" =>
    LET calls == Calls(message)
        n == Len(calls) - Len(todo)
    IN  /\ calls \in Seq(Seq(Byte)) /\ Len(todo) <= Len(calls)
        /\ \A k \in 1 .. Len(todo) : todo[k] = calls[n + k]
        /\ Spells(written, First(calls, n))
        /\ got = <<>>

TypeInv == message \in Message /\ order \in ReadOrder

LEMMA TypeInvHolds == Spec => []TypeInv
<1>1. Init => TypeInv
  BY DEF Init, TypeInv
<1>2. TypeInv /\ [Next]_vars => TypeInv'
  BY DEF TypeInv, Next, vars, PutNext, Arrive, ReadField, ReadNumber, ReadPacket, ReadEnds,
         ReadThrows
<1> QED
  BY <1>1, <1>2, PTL DEF Spec

LEMMA PutNextSpells ==
  ASSUME PutInv, WritingInv, PutNext
  PROVE  WritingInv'
<1>1. PICK c : c = Calls(message)
  OBVIOUS
<1>2. PICK n : n = Len(c) - Len(todo)
  OBVIOUS
<1>3. phase = "put" /\ todo # <<>> /\ todo \in Seq(Seq(Byte)) /\ StreamOK(stream)
  BY DEF PutNext, PutInv
<1>4. /\ c \in Seq(Seq(Byte)) /\ Len(todo) <= Len(c) /\ got = <<>>
      /\ \A k \in 1 .. Len(todo) : todo[k] = c[n + k]
      /\ Spells(written, First(c, n))
  BY <1>1, <1>2, <1>3 DEF WritingInv
<1>5. PICK r, x : r = Tail(todo) /\ x = Head(todo)
  OBVIOUS
<1>6. /\ r \in Seq(Seq(Byte)) /\ Len(r) = Len(todo) - 1 /\ x = todo[1] /\ x \in Seq(Byte)
      /\ \A k \in 1 .. Len(r) : r[k] = todo[k + 1]
  BY <1>3, <1>5
<1>7. /\ Len(c) \in Nat /\ Len(todo) \in Nat /\ Len(todo) # 0
      /\ n \in Nat /\ Len(c) - Len(r) = n + 1
  <2>1. Len(c) \in Nat /\ Len(todo) \in Nat /\ Len(todo) # 0
    BY <1>3, <1>4
  <2> QED
    BY <1>2, <1>4, <1>6, <2>1
<1>8. x = c[n + 1]
  BY <1>4, <1>6, <1>7
<1>9. \A k \in 1 .. Len(r) : r[k] = c[n + 1 + k]
  <2> SUFFICES ASSUME NEW k \in 1 .. Len(r) PROVE r[k] = c[n + 1 + k]
    OBVIOUS
  <2>1. k + 1 \in 1 .. Len(todo)
    BY <1>6, <1>7
  <2>2. n + (k + 1) = n + 1 + k
    BY <1>6, <1>7
  <2> QED
    BY <1>4, <1>6, <2>1, <2>2
<1>10. PICK v, w : v = written /\ w = written'
  OBVIOUS
<1>11. w = v \o x
  BY <1>5, <1>10 DEF PutNext
<1>12. IsSeq(v) /\ IsSeq(x)
  BY <1>4, <1>6, <1>10, SeqIsSeq DEF Spells
<1>13. IsConcat(w, v, x)
  BY <1>11, <1>12, ConcatIsSeq, Zenon
<1>14. PICK a, b : a = First(c, n) /\ b = First(c, n + 1)
  OBVIOUS
<1>15. IsAppend(b, a, x)
  BY <1>7, <1>8, <1>14, FirstMore
<1>16. Spells(v, a)
  BY <1>4, <1>10, <1>14
<1>17. Spells(w, b)
  BY <1>12, <1>13, <1>15, <1>16, SpellsMore, Zenon
<1>18. todo' = r /\ message' = message /\ got' = got
  BY <1>5 DEF PutNext
<1>19. Calls(message)' = c
  BY <1>1, <1>18
<1>20. Len(r) <= Len(c)
  BY <1>4, <1>6, <1>7
<1> QED
  BY <1>4, <1>7, <1>9, <1>10, <1>14, <1>17, <1>18, <1>19, <1>20 DEF WritingInv

LEMMA WritingInvHolds == Spec => []WritingInv
<1>1. Init => WritingInv
  <2> SUFFICES ASSUME Init PROVE WritingInv
    OBVIOUS
  <2>1. /\ message \in Message /\ todo = Calls(message) /\ written = <<>> /\ got = <<>>
    BY DEF Init
  <2>2. PICK c : c = Calls(message) /\ c \in Seq(Seq(Byte))
    BY <2>1, MessageAssumption
  <2>3. PICK n \in Nat : n = Len(c)
    BY <2>2
  <2>4. n - n = 0 /\ \A k \in 1 .. n : 0 + k = k
    OBVIOUS
  <2>5. Spells(<<>>, First(c, 0))
    BY FirstNone, NothingSpells
  <2> QED
    BY <2>1, <2>2, <2>3, <2>4, <2>5 DEF WritingInv
<1>2. PutInv /\ WritingInv /\ [Next]_vars => WritingInv'
  <2> SUFFICES ASSUME PutInv, WritingInv, [Next]_vars PROVE WritingInv'
    OBVIOUS
  <2>1. CASE PutNext
    BY <2>1, PutNextSpells
  <2>2. ASSUME NEW n \in 1 .. stream.size, Arrive(n) PROVE WritingInv'
    BY <2>2 DEF Arrive, WritingInv
  <2>3. CASE ReadField \/ ReadNumber \/ ReadPacket \/ ReadEnds \/ ReadThrows
    BY <2>3 DEF ReadField, ReadNumber, ReadPacket, ReadEnds, ReadThrows, WritingInv
  <2>4. CASE UNCHANGED vars
    BY <2>4 DEF vars, WritingInv
  <2> QED
    BY <2>1, <2>2, <2>3, <2>4 DEF Next
<1> QED
  BY <1>1, <1>2, PutInvHolds, PTL DEF Spec

\* When nothing is left to be put, what was put is the pieces of the message.
LEMMA AllPut ==
  ASSUME TypeInv, WritingInv, phase = "put", todo = <<>>
  PROVE  Spells(written, Pieces(message))
<1>1. PICK c : /\ c = Calls(message) /\ c \in Seq(Seq(Byte))
               /\ Spells(written, First(c, Len(c) - Len(todo)))
  BY DEF WritingInv
<1>2. Len(todo) = 0 /\ Len(c) \in Nat /\ Len(c) - Len(todo) = Len(c)
  BY <1>1
<1>3. Spells(written, c)
  BY <1>1, <1>2, SeqIsSeq, FirstAll
<1>4. PICK v : Spells(v, c) /\ Spells(v, Pieces(message))
  BY <1>1, MessageIs DEF TypeInv
<1>5. v = written
  BY <1>3, <1>4, SpellsOnce
<1> QED
  BY <1>4, <1>5

\* The size that sendDatagram takes for a datagram, before it is encoded, is the
\* size that the stream has when it is (Datagram.h:31, EncapsulatedPacket.h:87).
THEOREM LengthsAreExact == Spec => []LengthExact
<1>1. TypeInv /\ PutInv /\ WritingInv => LengthExact
  <2> SUFFICES ASSUME TypeInv, PutInv, WritingInv, phase = "put", todo = <<>>,
                      IsDatagram(message)
               PROVE  stream.size = TotalLength(message.packets)
    BY DEF LengthExact
  <2>1. Spells(written, Pieces(message)) /\ message \in Message
    BY AllPut DEF TypeInv
  <2>2. Len(written) = TotalLength(message.packets)
    BY <2>1, DatagramLength
  <2>3. StreamOK(stream) /\ Contents(stream) = written
    BY DEF PutInv
  <2> QED
    BY <2>2, <2>3, ContentsBytes
<1> QED
  BY <1>1, TypeInvHolds, PutInvHolds, WritingInvHolds, PTL

-----------------------------------------------------------------------------
(* Reading *)

\* The stream holds the first bytes of w.
Came(s, w) ==
  /\ s \in [cells : Seq(Byte), capacity : Nat, size : Nat, position : Nat]
  /\ Len(s.cells) = s.size /\ s.size <= Len(w)
  /\ \A k \in 1 .. s.size : s.cells[k] = w[k]

LEMMA CameIs ==
  ASSUME NEW w, NEW s, Came(s, w)
  PROVE  /\ s.cells \in Seq(Byte) /\ s.size \in Nat /\ s.position \in Nat
         /\ Len(s.cells) = s.size /\ s.size <= Len(w)
         /\ \A k \in 1 .. s.size : s.cells[k] = w[k]
BY DEF Came

LEMMA NextBytesAre ==
  ASSUME NEW w, NEW s, Came(s, w), NEW n \in Nat, CanRead(s, n)
  PROVE  /\ NextBytes(s, n) \in Seq(Byte) /\ Len(NextBytes(s, n)) = n
         /\ \A k \in 1 .. n : NextBytes(s, n)[k] = w[s.position + k]
<1>1. PICK c, a, i : c = s.cells /\ a = s.size /\ i = s.position
  OBVIOUS
<1>2. /\ c \in Seq(Byte) /\ a \in Nat /\ i \in Nat /\ Len(c) = a /\ i + n <= a
      /\ \A k \in 1 .. a : c[k] = w[k]
  BY <1>1, CameIs DEF CanRead
<1>3. \A k \in 1 .. n : i + k \in 1 .. a /\ i + k <= Len(c)
  BY <1>2
<1>4. PICK b : b = NextBytes(s, n)
  OBVIOUS
<1>5. b = [k \in 1 .. n |-> c[i + k]]
  <2>1. b = [k \in 1 .. n |-> IF i + k <= Len(c) THEN c[i + k] ELSE Unwritten]
    BY <1>1, <1>4 DEF NextBytes
  <2> QED
    BY <1>3, <2>1
<1>6. \A k \in 1 .. n : c[i + k] \in Byte /\ c[i + k] = w[i + k]
  BY <1>2, <1>3, ElementIsByte
<1>7. b \in [1 .. n -> Byte]
  BY <1>5, <1>6
<1>8. b \in Seq(Byte) /\ Len(b) = n
  BY <1>7, BytesAre
<1>9. \A k \in 1 .. n : b[k] = w[i + k]
  BY <1>5, <1>6
<1> QED
  BY <1>1, <1>4, <1>8, <1>9

LEMMA AdvanceIs ==
  ASSUME NEW w, NEW s, Came(s, w), NEW n \in Nat
  PROVE  /\ Came(Advance(s, n), w) /\ Advance(s, n).position = s.position + n
         /\ Advance(s, n).size = s.size
BY DEF Came, Advance

\* The position is not in front of the PID.
LEMMA BehindIs ==
  ASSUME NEW w, NEW s, Came(s, w)
  PROVE  /\ Came(Behind(s), w) /\ Behind(s).size = s.size
         /\ Behind(s).position = IF s.position = 0 THEN 1 ELSE s.position
<1>1. CASE s.position = 0
  <2>1. Behind(s) = Advance(s, 1)
    BY <1>1 DEF Behind
  <2>2. 1 \in Nat /\ 0 + 1 = 1
    OBVIOUS
  <2> QED
    BY <1>1, <2>1, <2>2, AdvanceIs
<1>2. CASE s.position # 0
  BY <1>2 DEF Behind
<1> QED
  BY <1>1, <1>2

\* Where the pieces of w end.
Offsets(w, q) == CHOOSE f : Lies(f, w, q) /\ f[Len(q)] = Len(w)

\* The bytes x are in w behind the first i.
HasAt(w, i, x) == \A j \in 1 .. Len(x) : w[i + j] = x[j]

Places(f, w, q) ==
  /\ Len(q) \in Nat /\ Len(w) \in Nat
  /\ f[0] = 0 /\ f[Len(q)] = Len(w)
  /\ \A k \in 1 .. Len(q) :
       /\ f[k - 1] \in Nat /\ Len(q[k]) \in Nat /\ f[k] \in Nat
       /\ f[k] = f[k - 1] + Len(q[k]) /\ f[k] <= Len(w)
       /\ HasAt(w, f[k - 1], q[k])

LEMMA OffsetsAre ==
  ASSUME NEW w, NEW q, Spells(w, q), NEW f, f = Offsets(w, q)
  PROVE  Places(f, w, q)
<1>1. \E g : Lies(g, w, q) /\ g[Len(q)] = Len(w)
  BY DEF Spells
<1>2. Lies(f, w, q) /\ f[Len(q)] = Len(w)
  BY <1>1 DEF Offsets
<1>3. Len(q) \in Nat /\ Len(w) \in Nat
  BY IsSeqLen DEF Spells
<1> QED
  BY <1>2, <1>3 DEF Lies, Places, HasAt

\* What has arrived is the first bytes of the pieces of the message.
Arrived ==
  phase # "put" =>
    /\ Spells(written, Pieces(message)) /\ Came(stream, written)
    /\ cut <=> stream.size < Len(written)

LEMMA ArriveIs ==
  ASSUME TypeInv, PutInv, WritingInv, NEW n \in 1 .. stream.size, Arrive(n)
  PROVE  Arrived' /\ stream'.position = 0 /\ got' = <<>>
<1>1. phase = "put" /\ todo = <<>> /\ got' = got /\ message' = message /\ written' = written
  BY DEF Arrive
<1>2. Spells(written, Pieces(message)) /\ got = <<>>
  BY <1>1, AllPut DEF WritingInv
<1>3. PICK w, s : w = written /\ s = stream'
  OBVIOUS
<1>4. /\ w \in Seq(Byte) /\ Len(w) = stream.size /\ Contents(stream) = w
  BY <1>1, <1>3, ContentsBytes DEF PutInv
<1>5. n \in Nat /\ n <= Len(w) /\ Len(w) \in Nat /\ n # 0
  BY <1>4
<1>6. PICK b : b = SubSeq(w, 1, n)
  OBVIOUS
<1>7. b \in Seq(Byte) /\ Len(b) = n /\ \A k \in 1 .. n : b[k] = w[k]
  BY <1>4, <1>5, <1>6
<1>8. s = StreamOf(b) /\ (cut' <=> n < Len(w))
  BY <1>3, <1>4, <1>6 DEF Arrive
<1>9. s = [cells |-> b, capacity |-> n, size |-> n, position |-> 0]
  BY <1>7, <1>8 DEF StreamOf
<1>10. Came(s, w) /\ s.position = 0 /\ s.size = n
  BY <1>5, <1>7, <1>9 DEF Came
<1> QED
  BY <1>1, <1>2, <1>3, <1>8, <1>10 DEF Arrived

-----------------------------------------------------------------------------
(* Reading a datagram *)

LEMMA TriadIs ==
  ASSUME NEW v \in Int
  PROVE  TriadFrom(LittleEndian(v, 3)) = v % 2 ^ 24
BY DEF TriadFrom, LittleEndian, ByteOf

\* The bytes of v are in b from i on.
TriadAt(b, i, v) ==
  /\ b \in Seq(Byte) /\ i \in Nat /\ i # 0 /\ i + 2 <= Len(b) /\ v \in Int
  /\ \A k \in 1 .. 3 : b[(i - 1) + k] = LittleEndian(v, 3)[k]

LEMMA TriadIn ==
  ASSUME NEW v, NEW b, NEW i, TriadAt(b, i, v)
  PROVE  TriadFrom(SubSeq(b, i, i + 2)) = v % 2 ^ 24
<1>1. PICK t, e : t = SubSeq(b, i, i + 2) /\ e = LittleEndian(v, 3)
  OBVIOUS
<1>2. t[1] = b[i] /\ t[2] = b[i + 1] /\ t[3] = b[i + 2]
  BY <1>1 DEF TriadAt
<1>3. (i - 1) + 1 = i /\ (i - 1) + 2 = i + 1 /\ (i - 1) + 3 = i + 2
  BY DEF TriadAt
<1>4. b[(i - 1) + 1] = e[1] /\ b[(i - 1) + 2] = e[2] /\ b[(i - 1) + 3] = e[3]
  BY <1>1 DEF TriadAt
<1>5. t[1] = e[1] /\ t[2] = e[2] /\ t[3] = e[3]
  BY <1>2, <1>3, <1>4
<1>6. TriadFrom(t) = TriadFrom(e)
  BY <1>5 DEF TriadFrom
<1> QED
  BY <1>1, <1>6, TriadIs DEF TriadAt

LEMMA CodeIs ==
  ASSUME NEW r \in Reliability
  PROVE  CodeOf(r) \in 0 .. 7 /\ Reliabilities[CodeOf(r) + 1] = r
<1>1. \E k \in 0 .. 7 : Reliabilities[k + 1] = r
  BY DEF Reliability, Reliabilities
<1> QED
  BY <1>1 DEF CodeOf

LEMMA FlagsAre ==
  ASSUME NEW c \in 0 .. 7, NEW x \in Int, x = c * 32 + 0
  PROVE  x \div 32 = c /\ ~ReadsSplit(x)
<1>1. x \div 32 = c
  OBVIOUS
<1>2. (x \div 16 % 2) * 16 # 1
  OBVIOUS
<1> QED
  BY <1>1, <1>2 DEF ReadsSplit

LEMMA LengthRead ==
  ASSUME NEW n \in Nat, n < 8192, NEW b, NEW flags,
         b[2] = BigEndian(n * 8, 2)[1], b[3] = BigEndian(n * 8, 2)[2]
  PROVE  LengthOf(flags, b) = n
<1>1. PICK v \in Int : v = n * 8 /\ 0 <= v /\ v < 65536
  OBVIOUS
<1>2. 2 - 1 = 1 /\ 2 - 2 = 0 /\ 1 \in 1 .. 2 /\ 2 \in 1 .. 2 /\ 2 \in Nat
  OBVIOUS
<1>3. BigEndian(v, 2)[1] = ByteOf(v, 2 - 1) /\ BigEndian(v, 2)[2] = ByteOf(v, 2 - 2)
  BY <1>2, EndianIs
<1>4. b[2] = ByteOf(v, 1) /\ b[3] = ByteOf(v, 0)
  BY <1>1, <1>2, <1>3
<1>5. ShortFrom(<<b[2], b[3]>>) = v
  <2>1. ShortFrom(<<b[2], b[3]>>) = 256 * b[2] + b[3]
    BY DEF ShortFrom
  <2> QED
    BY <1>1, <1>4, <2>1, ShortIs
<1>6. v \div 8 = n
  BY <1>1
<1> QED
  BY <1>5, <1>6 DEF LengthOf

\* The reliability decides alike of a packet and of what is read of its flags.
LEMMA AlikeIs ==
  ASSUME NEW p, NEW kind, kind.reliability = p.reliability,
         ~kind.hasSplit, ~p.hasSplit
  PROVE  /\ IsReliable(kind) <=> IsReliable(p)
         /\ IsSequenced(kind) <=> IsSequenced(p)
         /\ IsSequencedOrOrdered(kind) <=> IsSequencedOrOrdered(p)
         /\ HeaderLength(kind) = HeaderLength(p)
<1>1. /\ IsReliable(kind) <=> IsReliable(p)
      /\ IsSequenced(kind) <=> IsSequenced(p)
      /\ IsOrdered(kind) <=> IsOrdered(p)
  BY DEF IsReliable, IsSequenced, IsOrdered
<1> QED
  BY <1>1 DEF HeaderLength, IsSequencedOrOrdered

LEMMA HeaderLengthIs ==
  ASSUME NEW p
  PROVE  /\ HeaderLength(p) \in Nat /\ 3 <= HeaderLength(p)
         /\ LET q == 3 + (IF IsReliable(p) THEN 3 ELSE 0)
                o == q + (IF IsSequenced(p) THEN 3 ELSE 0)
            IN  /\ IsReliable(p) => 6 <= HeaderLength(p)
                /\ IsSequenced(p) => q + 3 <= HeaderLength(p)
                /\ IsSequencedOrOrdered(p) => o + 4 <= HeaderLength(p)
BY DEF HeaderLength, IsSequencedOrOrdered

\* decode reads a packet that is no part of a split one as it was written.
LEMMA PacketReads ==
  ASSUME NEW p, PacketOK(p), ~p.hasSplit, NEW w, NEW s, Came(s, w),
         NEW x, x = Header(p) \o p.payload,
         HasAt(w, s.position, x),
         CanRead(s, PacketWidth(s))
  PROVE  PacketIn(s) = Sent(p) /\ PacketWidth(s) = Len(x)
<1>1. PICK h, d, L : h = Header(p) /\ d = p.payload /\ L = p.length
  OBVIOUS
<1>2. /\ L \in Nat /\ L < 8192 /\ d \in Seq(Byte) /\ Len(d) = L
      /\ p.messageIndex \in Int /\ p.sequencedIndex \in Int /\ p.orderedIndex \in Int
      /\ p.reliability \in Reliability
  BY <1>1 DEF PacketOK
<1>3. IsConcat(x, h, d) /\ Len(x) = GetLength(p)
  BY <1>1, PacketIs
<1>4. PICK q, o : /\ q = 3 + (IF IsReliable(p) THEN 3 ELSE 0)
                  /\ o = q + (IF IsSequenced(p) THEN 3 ELSE 0)
  OBVIOUS
<1>5. PICK H \in Nat : H = HeaderLength(p) /\ 3 <= H
  BY HeaderLengthIs
<1>6. /\ Len(h) = H
      /\ h[1] = CodeOf(p.reliability) * 32 + 0
      /\ \A k \in 1 .. 2 : h[1 + k] = BigEndian(L * 8, 2)[k]
      /\ IsReliable(p) => \A k \in 1 .. 3 : h[3 + k] = LittleEndian(p.messageIndex, 3)[k]
      /\ IsSequenced(p) => \A k \in 1 .. 3 : h[q + k] = LittleEndian(p.sequencedIndex, 3)[k]
      /\ IsSequencedOrOrdered(p) =>
           /\ \A k \in 1 .. 3 : h[o + k] = LittleEndian(p.orderedIndex, 3)[k]
           /\ h[o + 4] = p.orderChannel
  <2>1. /\ Len(h) = HeaderLength(p)
        /\ h[1] = CodeOf(p.reliability) * 32 + (IF p.hasSplit THEN 16 ELSE 0)
        /\ \A k \in 1 .. 2 : h[1 + k] = BigEndian(p.length * 8, 2)[k]
        /\ IsReliable(p) => \A k \in 1 .. 3 : h[3 + k] = LittleEndian(p.messageIndex, 3)[k]
        /\ IsSequenced(p) => \A k \in 1 .. 3 : h[q + k] = LittleEndian(p.sequencedIndex, 3)[k]
        /\ IsSequencedOrOrdered(p) =>
             /\ \A k \in 1 .. 3 : h[o + k] = LittleEndian(p.orderedIndex, 3)[k]
             /\ h[o + 4] = p.orderChannel
    <3>1. HeaderFields(p, h, q, o)
      BY <1>1, <1>4, HeaderIs
    <3> QED
      BY <3>1, Zenon DEF HeaderFields
  <2>2. Len(h) = H /\ h[1] = CodeOf(p.reliability) * 32 + 0
    BY <1>5, <2>1
  <2>3. \A k \in 1 .. 2 : h[1 + k] = BigEndian(L * 8, 2)[k]
    BY <1>1, <2>1
  <2> QED
    BY <2>1, <2>2, <2>3
<1>7. /\ Len(x) = H + L /\ \A k \in 1 .. H : x[k] = h[k]
      /\ \A k \in 1 .. L : x[H + k] = d[k]
  <2>1. Len(d) = L /\ Len(h) = H
    BY <1>2, <1>6
  <2>2. Len(x) = Len(h) + Len(d)
    BY <1>3 DEF IsConcat
  <2>3. \A k \in 1 .. Len(h) : x[k] = h[k]
    BY <1>3 DEF IsConcat
  <2>4. \A k \in 1 .. Len(d) : x[Len(h) + k] = d[k]
    BY <1>3 DEF IsConcat
  <2> QED
    BY <2>1, <2>2, <2>3, <2>4
<1>8. CanRead(s, 3)
  BY DEF PacketWidth
<1>9. PICK a : /\ a = NextBytes(s, 3)
               /\ \A k \in 1 .. 3 : a[k] = h[k]
  <2>1. \A k \in 1 .. 3 : NextBytes(s, 3)[k] = w[s.position + k]
    BY <1>8, NextBytesAre
  <2>2. \A k \in 1 .. 3 : k \in 1 .. Len(x) /\ k \in 1 .. H
    BY <1>2, <1>5, <1>7
  <2>3. \A k \in 1 .. 3 : NextBytes(s, 3)[k] = h[k]
    BY <1>7, <2>1, <2>2 DEF HasAt
  <2> QED
    BY <2>3
<1>10. PICK flags \in Int : /\ flags = h[1] /\ flags \div 32 = CodeOf(p.reliability)
                             /\ ~ReadsSplit(flags)
  <2>1. PICK c \in 0 .. 7 : c = CodeOf(p.reliability)
    BY <1>2, CodeIs
  <2>2. h[1] = c * 32 + 0 /\ h[1] \in Int
    BY <1>6, <2>1
  <2> QED
    BY <2>1, <2>2, FlagsAre
<1>11. PICK kind : kind = [reliability |-> Reliabilities[flags \div 32 + 1],
                           hasSplit |-> ReadsSplit(flags)]
  OBVIOUS
<1>12. kind.reliability = p.reliability /\ ~kind.hasSplit
  BY <1>2, <1>10, <1>11, CodeIs
<1>13. /\ IsReliable(kind) <=> IsReliable(p)
       /\ IsSequenced(kind) <=> IsSequenced(p)
       /\ IsSequencedOrOrdered(kind) <=> IsSequencedOrOrdered(p)
       /\ HeaderLength(kind) = H
  BY <1>5, <1>12, AlikeIs
<1>14. LengthOf(flags, a) = L
  <2>1. a[2] = BigEndian(L * 8, 2)[1] /\ a[3] = BigEndian(L * 8, 2)[2]
    <3>1. h[1 + 1] = BigEndian(L * 8, 2)[1] /\ h[1 + 2] = BigEndian(L * 8, 2)[2]
      BY <1>6
    <3> QED
      BY <1>9, <3>1
  <2> QED
    BY <1>2, <2>1, LengthRead
<1>15. PacketWidth(s) = H + L
  <2>1. a[1] = flags
    BY <1>9, <1>10
  <2> QED
    BY <1>8, <1>9, <1>11, <1>13, <1>14, <2>1 DEF PacketWidth
<1>16. PICK n \in Nat : n = s.size - s.position /\ H + L <= n /\ CanRead(s, n)
  <2>1. PICK a1 \in Nat, i1 \in Nat : a1 = s.size /\ i1 = s.position
    BY CameIs
  <2>2. i1 + (H + L) <= a1
    BY <1>15, <2>1 DEF CanRead
  <2>3. PICK n1 \in Int : n1 = a1 - i1
    BY <2>1
  <2>4. n1 \in Nat /\ H + L <= n1 /\ i1 + n1 <= a1
    BY <1>2, <2>2, <2>3
  <2>5. n1 = s.size - s.position /\ CanRead(s, n1)
    BY <2>1, <2>3, <2>4 DEF CanRead
  <2> QED
    BY <2>4, <2>5
<1>17. PICK b : b = NextBytes(s, n)
  OBVIOUS
<1>18. b \in Seq(Byte) /\ Len(b) = n /\ \A k \in 1 .. H + L : b[k] = x[k]
  <2>1. b \in Seq(Byte) /\ Len(b) = n /\ \A k \in 1 .. n : b[k] = w[s.position + k]
    BY <1>16, <1>17, NextBytesAre
  <2>2. \A k \in 1 .. H + L : k \in 1 .. n
    BY <1>2, <1>16
  <2>3. \A k \in 1 .. H + L : w[s.position + k] = x[k]
    BY <1>7 DEF HasAt
  <2> SUFFICES ASSUME NEW k \in 1 .. H + L PROVE b[k] = x[k]
    BY <2>1
  <2>4. k \in 1 .. n
    BY <2>2
  <2> QED
    BY <2>1, <2>3, <2>4
<1>19. \A k \in 1 .. H : b[k] = h[k]
  <2>1. \A k \in 1 .. H : k \in 1 .. H + L
    BY <1>2
  <2> QED
    BY <1>7, <1>18, <2>1
<1>20. b[1] = flags /\ LengthOf(flags, b) = L
  <2>1. b[1] = h[1] /\ b[2] = a[2] /\ b[3] = a[3]
    BY <1>5, <1>9, <1>19
  <2> QED
    BY <1>10, <1>14, <2>1 DEF LengthOf
<1>21. IsReliable(p) => TriadFrom(SubSeq(b, 4, 4 + 2)) = p.messageIndex % 2 ^ 24
  <2> SUFFICES ASSUME IsReliable(p)
               PROVE  TriadFrom(SubSeq(b, 4, 4 + 2)) = p.messageIndex % 2 ^ 24
    OBVIOUS
  <2>1. 6 <= H
    BY <1>5, HeaderLengthIs
  <2>2. \A k \in 1 .. 3 : b[(4 - 1) + k] = LittleEndian(p.messageIndex, 3)[k]
    <3>1. \A k \in 1 .. 3 : 3 + k \in 1 .. H /\ (4 - 1) + k = 3 + k
      BY <2>1
    <3> QED
      BY <1>6, <1>19, <3>1
  <2> QED
    <3>1. 4 \in Nat /\ 4 + 2 <= Len(b)
      BY <1>2, <1>16, <1>18, <2>1
    <3>2. TriadAt(b, 4, p.messageIndex)
      BY <1>2, <1>18, <2>2, <3>1 DEF TriadAt
    <3> QED
      BY <3>2, TriadIn
<1>22. q \in {3, 6} /\ o \in {3, 6, 9}
  BY <1>4
<1>23. IsSequenced(p) => TriadFrom(SubSeq(b, q + 1, (q + 1) + 2)) = p.sequencedIndex % 2 ^ 24
  <2> SUFFICES ASSUME IsSequenced(p)
               PROVE  TriadFrom(SubSeq(b, q + 1, (q + 1) + 2)) = p.sequencedIndex % 2 ^ 24
    OBVIOUS
  <2>1. q + 3 <= H
    BY <1>4, <1>5, HeaderLengthIs
  <2>2. \A k \in 1 .. 3 : b[((q + 1) - 1) + k] = LittleEndian(p.sequencedIndex, 3)[k]
    <3>1. \A k \in 1 .. 3 : q + k \in 1 .. H /\ ((q + 1) - 1) + k = q + k
      BY <1>22, <2>1
    <3> QED
      BY <1>6, <1>19, <3>1
  <2>3. q + 1 \in Nat /\ q + 1 # 0 /\ (q + 1) + 2 <= Len(b)
    BY <1>2, <1>16, <1>18, <1>22, <2>1
  <2> QED
    <3>1. TriadAt(b, q + 1, p.sequencedIndex)
      BY <1>2, <1>18, <2>2, <2>3 DEF TriadAt
    <3> QED
      BY <3>1, TriadIn
<1>24. IsSequencedOrOrdered(p) =>
         /\ TriadFrom(SubSeq(b, o + 1, (o + 1) + 2)) = p.orderedIndex % 2 ^ 24
         /\ b[(o + 1) + 3] = p.orderChannel
  <2> SUFFICES ASSUME IsSequencedOrOrdered(p)
               PROVE  /\ TriadFrom(SubSeq(b, o + 1, (o + 1) + 2)) = p.orderedIndex % 2 ^ 24
                      /\ b[(o + 1) + 3] = p.orderChannel
    OBVIOUS
  <2>1. o + 4 <= H
    BY <1>4, <1>5, HeaderLengthIs
  <2>2. \A k \in 1 .. 3 : b[((o + 1) - 1) + k] = LittleEndian(p.orderedIndex, 3)[k]
    <3>1. \A k \in 1 .. 3 : o + k \in 1 .. H /\ ((o + 1) - 1) + k = o + k
      BY <1>22, <2>1
    <3> QED
      BY <1>6, <1>19, <3>1
  <2>3. o + 1 \in Nat /\ o + 1 # 0 /\ (o + 1) + 2 <= Len(b)
    BY <1>2, <1>16, <1>18, <1>22, <2>1
  <2>4. b[(o + 1) + 3] = h[o + 4]
    <3>1. (o + 1) + 3 = o + 4 /\ o + 4 \in 1 .. H
      BY <1>22, <2>1
    <3> QED
      BY <1>19, <3>1
  <2> QED
    <3>1. TriadAt(b, o + 1, p.orderedIndex)
      BY <1>2, <1>18, <2>2, <2>3 DEF TriadAt
    <3>2. b[(o + 1) + 3] = p.orderChannel
      BY <1>6, <2>4
    <3> QED
      BY <3>1, <3>2, TriadIn
<1>25. SubSeq(b, H + 1, H + L) = d
  <2>1. PICK t : t = SubSeq(b, H + 1, H + L)
    OBVIOUS
  <2>2. t \in Seq(Byte) /\ Len(t) = L /\ \A k \in 1 .. L : t[k] = b[H + k]
    BY <1>2, <1>16, <1>18, <2>1
  <2>3. \A k \in 1 .. L : H + k \in 1 .. H + L
    BY <1>2
  <2>4. \A k \in 1 .. Len(t) : t[k] = d[k]
    BY <1>7, <1>18, <2>2, <2>3
  <2> QED
    BY <1>2, <2>1, <2>2, <2>4, SameElements
<1>26. PacketIn(s) =
         [reliability |-> kind.reliability, length |-> LengthOf(flags, b),
          messageIndex |-> IF IsReliable(kind) THEN TriadFrom(SubSeq(b, 4, 4 + 2)) ELSE NoIndex,
          sequencedIndex |-> IF IsSequenced(kind)
                             THEN TriadFrom(SubSeq(b, q + 1, (q + 1) + 2)) ELSE NoIndex,
          orderedIndex |-> IF IsSequencedOrOrdered(kind)
                           THEN TriadFrom(SubSeq(b, o + 1, (o + 1) + 2)) ELSE NoIndex,
          orderChannel |-> IF IsSequencedOrOrdered(kind) THEN b[(o + 1) + 3] ELSE 255,
          payload |-> SubSeq(b, H + 1, H + LengthOf(flags, b))]
  <2>1. q + 1 = 4 + (IF IsReliable(kind) THEN 3 ELSE 0)
    BY <1>4, <1>13
  <2>2. o + 1 = (q + 1) + (IF IsSequenced(kind) THEN 3 ELSE 0)
    BY <1>4, <1>13, <1>22
  <2> DEFINE bytes == NextBytes(s, s.size - s.position)
             kd == [reliability |-> Reliabilities[bytes[1] \div 32 + 1],
                    hasSplit |-> ReadsSplit(bytes[1])]
             i == 4 + (IF IsReliable(kd) THEN 3 ELSE 0)
             j == i + (IF IsSequenced(kd) THEN 3 ELSE 0)
  <2>3. bytes = b
    BY <1>16, <1>17
  <2>4. bytes[1] = flags
    BY <1>20, <2>3
  <2>5. kd = kind
    BY <1>11, <2>4
  <2>6. i = q + 1 /\ j = o + 1
    BY <2>1, <2>2, <2>5
  <2>7. PacketIn(s) =
         [reliability |-> kd.reliability, length |-> LengthOf(bytes[1], bytes),
          messageIndex |-> IF IsReliable(kd) THEN TriadFrom(SubSeq(bytes, 4, 4 + 2)) ELSE NoIndex,
          sequencedIndex |-> IF IsSequenced(kd)
                             THEN TriadFrom(SubSeq(bytes, i, i + 2)) ELSE NoIndex,
          orderedIndex |-> IF IsSequencedOrOrdered(kd)
                           THEN TriadFrom(SubSeq(bytes, j, j + 2)) ELSE NoIndex,
          orderChannel |-> IF IsSequencedOrOrdered(kd) THEN bytes[j + 3] ELSE 255,
          payload |-> SubSeq(bytes, HeaderLength(kd) + 1,
                             HeaderLength(kd) + LengthOf(bytes[1], bytes))]
    BY Zenon DEF PacketIn
  <2> HIDE DEF bytes, kd, i, j
  <2> QED
    BY <1>13, <2>3, <2>4, <2>5, <2>6, <2>7
<1>27. PacketIn(s) = Sent(p)
  BY <1>1, <1>12, <1>13, <1>20, <1>21, <1>23, <1>24, <1>25, <1>26 DEF Sent
<1> QED
  BY <1>7, <1>15, <1>27

\* The packets of a datagram are pieces of it, behind its first four bytes.
DatagramPlaces(m, w, f) ==
  LET q == m.packets
  IN  /\ IsSeq(q) /\ Len(w) \in Nat
      /\ f[1] = 4 /\ f[1 + Len(q)] = Len(w)
      /\ \A k \in 1 .. 3 : w[1 + k] = LittleEndian(m.sequenceNumber, 3)[k]
      /\ \A k \in 1 .. Len(q) :
           LET x == Header(q[k]) \o q[k].payload
           IN  /\ PacketOK(q[k]) /\ Len(x) \in Nat /\ 3 <= Len(x)
               /\ f[k] \in Nat /\ f[k + 1] = f[k] + Len(x) /\ f[k + 1] <= Len(w)
               /\ HasAt(w, f[k], x)

LEMMA DatagramPlacesAre ==
  ASSUME NEW m \in Message, IsDatagram(m), NEW w, Spells(w, Pieces(m)),
         NEW f, f = Offsets(w, Pieces(m))
  PROVE  DatagramPlaces(m, w, f)
<1>1. PICK q, r : q = m.packets /\ r = Pieces(m)
  OBVIOUS
<1>2. IsSeq(q) /\ \A p \in Range(q) : PacketOK(p)
  BY <1>1, MessageAssumption DEF IsSeq
<1>3. PICK n \in Nat : n = Len(q) /\ DOMAIN q = 1 .. n
  BY <1>2, IsSeqLen
<1>4. Len(r) = 1 + n /\ r[1] = Opening(m) /\ \A k \in 1 .. n : r[1 + k] = Segments(m)[k]
  <2>1. Len(Segments(m)) = n
    BY <1>1, <1>3, SegmentsAre
  <2> QED
    BY <1>1, <2>1, PiecesAre
<1>5. /\ Len(r) \in Nat /\ Len(w) \in Nat
      /\ f[0] = 0 /\ f[Len(r)] = Len(w)
      /\ \A k \in 1 .. Len(r) :
           /\ f[k - 1] \in Nat /\ Len(r[k]) \in Nat /\ f[k] \in Nat
           /\ f[k] = f[k - 1] + Len(r[k]) /\ f[k] <= Len(w)
           /\ HasAt(w, f[k - 1], r[k])
  <2>1. Places(f, w, r)
    BY <1>1, OffsetsAre
  <2> QED
    BY <2>1 DEF Places
<1>6. f[1] = 4 /\ \A k \in 1 .. 3 : w[1 + k] = LittleEndian(m.sequenceNumber, 3)[k]
  <2>1. 1 \in 1 .. Len(r) /\ 1 - 1 = 0
    BY <1>3, <1>4
  <2>2. PICK e : e = r[1]
    OBVIOUS
  <2>3. Len(e) = 4 /\ \A k \in 1 .. 3 : e[1 + k] = LittleEndian(m.sequenceNumber, 3)[k]
    BY <1>4, <2>2, OpeningIs
  <2>4. f[1] = 0 + 4 /\ \A j \in 1 .. 4 : w[0 + j] = e[j]
    <3>1. f[1] = f[0] + Len(r[1]) /\ HasAt(w, f[0], r[1])
      BY <1>5, <2>1
    <3>2. HasAt(w, 0, e)
      BY <1>5, <2>2, <3>1
    <3> QED
      BY <1>5, <2>2, <2>3, <3>1, <3>2 DEF HasAt
  <2>5. \A k \in 1 .. 3 : 1 + k \in 1 .. 4 /\ 0 + (1 + k) = 1 + k
    OBVIOUS
  <2>6. \A k \in 1 .. 3 : w[1 + k] = e[1 + k]
    BY <2>4, <2>5
  <2> QED
    BY <2>3, <2>4, <2>6
<1>7. ASSUME NEW k \in 1 .. n, NEW x, x = Header(q[k]) \o q[k].payload
      PROVE  /\ PacketOK(q[k]) /\ Len(x) \in Nat /\ 3 <= Len(x)
             /\ f[k] \in Nat /\ f[k + 1] = f[k] + Len(x) /\ f[k + 1] <= Len(w)
             /\ HasAt(w, f[k], x)
  <2>1. PICK p : p = q[k] /\ PacketOK(p)
    BY <1>2, <1>3 DEF Range
  <2>2. x = Header(p) \o p.payload
    BY <1>7, <2>1
  <2>3. Len(x) = GetLength(p)
    BY <2>1, <2>2, PacketIs
  <2>4. 3 <= HeaderLength(p) /\ HeaderLength(p) \in Nat /\ p.length \in Nat
    BY <2>1, HeaderLengthIs DEF PacketOK
  <2>5. 3 <= Len(x)
    BY <2>3, <2>4 DEF GetLength
  <2>6. k + 1 \in 1 .. Len(r) /\ (k + 1) - 1 = k /\ 1 + k = k + 1
    BY <1>3, <1>4
  <2>7. r[k + 1] = x
    <3>1. Segments(m)[k] = x
      BY <1>1, <1>3, <2>1, <2>2 DEF Segments
    <3> QED
      BY <1>4, <2>6, <3>1
  <2>8. /\ f[k] \in Nat /\ Len(x) \in Nat /\ f[k + 1] = f[k] + Len(x) /\ f[k + 1] <= Len(w)
        /\ HasAt(w, f[k], x)
    BY <1>5, <2>6, <2>7
  <2> QED
    BY <2>1, <2>5, <2>8
<1>8. f[1 + n] = Len(w)
  BY <1>4, <1>5
<1> QED
  <2>1. \A k \in 1 .. n :
           LET x == Header(q[k]) \o q[k].payload
           IN  /\ PacketOK(q[k]) /\ Len(x) \in Nat /\ 3 <= Len(x)
               /\ f[k] \in Nat /\ f[k + 1] = f[k] + Len(x) /\ f[k + 1] <= Len(w)
               /\ HasAt(w, f[k], x)
    BY <1>7
  <2> QED
    BY <1>1, <1>2, <1>3, <1>5, <1>6, <1>8, <2>1, Zenon DEF DatagramPlaces

\* The bytes that are taken for a packet are at least those of its flags and length.
LEMMA PacketWidthIs ==
  ASSUME NEW w, NEW s, Came(s, w), CanRead(s, PacketWidth(s))
  PROVE  CanRead(s, 3) /\ PacketWidth(s) \in Nat
<1>1. CanRead(s, 3)
  BY DEF PacketWidth
<1>2. PICK a : a = NextBytes(s, 3)
  OBVIOUS
<1>3. a \in Seq(Byte) /\ Len(a) = 3
  <2>1. 3 \in Nat
    OBVIOUS
  <2> QED
    BY <1>1, <1>2, <2>1, NextBytesAre
<1>4. PICK b, c \in Nat : b = a[2] /\ c = a[3]
  <2>1. a[2] \in Byte /\ a[3] \in Byte
    <3>1. 2 \in 1 .. Len(a) /\ 3 \in 1 .. Len(a)
      BY <1>3
    <3> QED
      BY <1>3, <3>1, ElementIsByte
  <2>2. \A v \in Byte : v \in Nat
    BY DEF Byte
  <2> QED
    BY <2>1, <2>2
<1>5. LengthOf(a[1], a) \in Nat
  <2>1. ShortFrom(<<a[2], a[3]>>) = 256 * b + c
    BY <1>4 DEF ShortFrom
  <2>2. (256 * b + c) \div 8 \in Nat
    BY <1>4
  <2> QED
    BY <2>1, <2>2 DEF LengthOf
<1>6. PICK kind : kind = [reliability |-> Reliabilities[a[1] \div 32 + 1],
                          hasSplit |-> ReadsSplit(a[1])]
  OBVIOUS
<1>7. HeaderLength(kind) \in Nat
  BY HeaderLengthIs
<1>8. PacketWidth(s) = HeaderLength(kind) + LengthOf(a[1], a)
  BY <1>1, <1>2, <1>6 DEF PacketWidth
<1> QED
  BY <1>1, <1>5, <1>7, <1>8

\* One of the first k packets is a part of a split one.
Broken(q, k) == \E j \in 1 .. k : j <= Len(q) /\ q[j].hasSplit

\* The number of a datagram and, up to the first part of a split packet, its
\* packets are got as they were sent, and the position is behind the last of them.
PacketsRead(m, f, s, g) ==
  LET q == m.packets
      r == Len(g)
  IN  /\ IsSeq(g)
      /\ r = 0 => s.position = 0
      /\ r # 0 => g[1] = m.sequenceNumber % 2 ^ 24
      /\ \A k \in 1 .. r - 1 : \/ k <= Len(q) /\ g[k + 1] = Sent(q[k])
                               \/ Broken(q, k)
      /\ r # 0 /\ ~Broken(q, r - 1) => r - 1 <= Len(q) /\ s.position = f[r]

LEMMA NumberIs ==
  ASSUME NEW m \in Message, IsDatagram(m), NEW w, NEW f, DatagramPlaces(m, w, f),
         NEW s, Came(s, w), s.position = 0, CanRead(Behind(s), 3),
         NEW g, g = <<TriadFrom(NextBytes(Behind(s), 3))>>,
         NEW t, t = Advance(Behind(s), 3)
  PROVE  Came(t, w) /\ PacketsRead(m, f, t, g)
<1>1. PICK v : v = Behind(s) /\ Came(v, w) /\ v.position = 1
  BY BehindIs
<1>2. PICK a, e : a = NextBytes(v, 3) /\ e = LittleEndian(m.sequenceNumber, 3)
  OBVIOUS
<1>3. \A k \in 1 .. 3 : a[k] = w[1 + k]
  BY <1>1, <1>2, NextBytesAre
<1>4. f[1] = 4 /\ \A k \in 1 .. 3 : w[1 + k] = e[k]
  BY <1>2 DEF DatagramPlaces
<1>5. a[1] = e[1] /\ a[2] = e[2] /\ a[3] = e[3]
  BY <1>3, <1>4
<1>6. TriadFrom(a) = TriadFrom(e)
  BY <1>5 DEF TriadFrom
<1>7. m.sequenceNumber \in Int
  BY MessageAssumption
<1>8. TriadFrom(a) = m.sequenceNumber % 2 ^ 24
  BY <1>2, <1>6, <1>7, TriadIs
<1>9. IsSeq(g) /\ Len(g) = 1 /\ g[1] = m.sequenceNumber % 2 ^ 24
  BY <1>1, <1>2, <1>8, SmallIsSeq
<1>10. Came(t, w) /\ t.position = 1 + 3
  <2>1. t = Advance(v, 3) /\ 3 \in Nat
    BY <1>1
  <2>2. Came(Advance(v, 3), w) /\ Advance(v, 3).position = v.position + 3
    BY <1>1, <2>1, AdvanceIs, Zenon
  <2> QED
    BY <1>1, <2>1, <2>2
<1>11. Len(m.packets) \in Nat
  BY IsSeqLen DEF DatagramPlaces
<1>12. 1 - 1 = 0 /\ 1 .. 0 = {} /\ 0 <= Len(m.packets)
  BY <1>11
<1> QED
  BY <1>4, <1>9, <1>10, <1>12 DEF PacketsRead

LEMMA RoundIs ==
  ASSUME NEW m \in Message, IsDatagram(m), NEW w, NEW f, DatagramPlaces(m, w, f),
         NEW s, Came(s, w), NEW g, g # <<>>, PacketsRead(m, f, s, g),
         CanRead(s, PacketWidth(s)),
         NEW h, h = Append(g, PacketIn(s)), NEW t, t = Advance(s, PacketWidth(s))
  PROVE  Came(t, w) /\ PacketsRead(m, f, t, h)
<1>1. PICK q : q = m.packets
  OBVIOUS
<1>2. PICK n \in Nat : n = Len(q)
  BY <1>1, IsSeqLen DEF DatagramPlaces
<1>3. PICK r \in Nat : r = Len(g) /\ r # 0
  <2>1. IsSeq(g)
    BY DEF PacketsRead
  <2>2. g \in Seq(Range(g))
    BY <2>1 DEF IsSeq
  <2> QED
    BY <2>2
<1>4. /\ IsSeq(g) /\ g[1] = m.sequenceNumber % 2 ^ 24
      /\ \A k \in 1 .. r - 1 : (k <= n /\ g[k + 1] = Sent(q[k])) \/ Broken(q, k)
      /\ ~Broken(q, r - 1) => r - 1 <= n /\ s.position = f[r]
  BY <1>1, <1>2, <1>3 DEF PacketsRead
<1>5. PICK x : x = PacketIn(s)
  OBVIOUS
<1>6. IsAppend(h, g, x)
  BY <1>4, <1>5, AppendIsSeq, Zenon
<1>7. /\ IsSeq(h) /\ Len(h) = r + 1 /\ h[r + 1] = x
      /\ \A k \in 1 .. r : h[k] = g[k]
  BY <1>3, <1>6 DEF IsAppend
<1>8. CanRead(s, 3) /\ PacketWidth(s) \in Nat
  BY PacketWidthIs
<1>9. Came(t, w) /\ t.position = s.position + PacketWidth(s)
  BY <1>8, AdvanceIs
<1>10. ASSUME ~Broken(q, r)
       PROVE  r <= n /\ x = Sent(q[r]) /\ t.position = f[r + 1]
  <2>1. ~Broken(q, r - 1)
    <3>1. \A j \in 1 .. r - 1 : j \in 1 .. r
      BY <1>3
    <3> QED
      BY <1>10, <3>1 DEF Broken
  <2>2. r - 1 <= n /\ s.position = f[r]
    BY <1>4, <2>1
  <2>3. r # n + 1
    <3> SUFFICES ASSUME r = n + 1 PROVE FALSE
      OBVIOUS
    <3>1. s.position = Len(w)
      <4>1. f[1 + n] = Len(w) /\ 1 + n = n + 1
        BY <1>1, <1>2 DEF DatagramPlaces
      <4> QED
        BY <2>2, <4>1
    <3>2. s.size <= Len(w) /\ s.size \in Nat /\ Len(w) \in Nat
      BY CameIs DEF DatagramPlaces
    <3> QED
      BY <1>8, <3>1, <3>2 DEF CanRead
  <2>4. r \in 1 .. n
    BY <1>2, <1>3, <2>2, <2>3
  <2>5. PICK p, y : p = q[r] /\ y = Header(p) \o p.payload
    OBVIOUS
  <2>6. /\ PacketOK(p) /\ f[r + 1] = f[r] + Len(y)
        /\ HasAt(w, f[r], y)
    BY <1>1, <1>2, <2>4, <2>5 DEF DatagramPlaces
  <2>7. ~p.hasSplit
    BY <1>2, <1>10, <2>4, <2>5 DEF Broken
  <2>8. PacketIn(s) = Sent(p) /\ PacketWidth(s) = Len(y)
    <3>1. HasAt(w, s.position, y)
      BY <2>2, <2>6
    <3>2. PacketOK(p) /\ ~p.hasSplit /\ y = Header(p) \o p.payload
      BY <2>5, <2>6, <2>7
    <3>3. Came(s, w) /\ CanRead(s, PacketWidth(s))
      OBVIOUS
    <3> QED
      BY ONLY <3>1, <3>2, <3>3, PacketReads
  <2> QED
    BY <1>5, <1>9, <2>2, <2>4, <2>5, <2>6, <2>8
<1>11. ASSUME NEW k \in 1 .. r
       PROVE  (k <= n /\ h[k + 1] = Sent(q[k])) \/ Broken(q, k)
  <2>1. CASE k = r
    BY <1>7, <1>10, <2>1
  <2>2. CASE k # r
    <3>1. k \in 1 .. r - 1 /\ k + 1 \in 1 .. r
      BY <1>3, <2>2
    <3> QED
      BY <1>4, <1>7, <3>1
  <2> QED
    BY <2>1, <2>2
<1>12. (r + 1) - 1 = r /\ r + 1 # 0 /\ 1 \in 1 .. r
  BY <1>3
<1>13. h[1] = m.sequenceNumber % 2 ^ 24
  BY <1>4, <1>7, <1>12
<1> QED
  BY <1>1, <1>2, <1>7, <1>9, <1>10, <1>11, <1>12, <1>13 DEF PacketsRead

-----------------------------------------------------------------------------
(* What was read of a datagram *)

DatagramRead ==
  phase # "put" /\ IsDatagram(message) =>
    /\ PacketsRead(message, Offsets(written, Pieces(message)), stream, got)
    /\ phase = "done" => got # <<>> /\ Feof(stream)

\* A message that is being read, and its pieces.
LEMMA WhereItIs ==
  ASSUME TypeInv, Arrived, DatagramRead, phase = "read", IsDatagram(message),
         NEW f, f = Offsets(written, Pieces(message))
  PROVE  /\ Came(stream, written) /\ DatagramPlaces(message, written, f)
         /\ PacketsRead(message, f, stream, got)
<1>1. Spells(written, Pieces(message)) /\ Came(stream, written) /\ message \in Message
  BY DEF Arrived, TypeInv
<1>2. DatagramPlaces(message, written, f)
  BY <1>1, DatagramPlacesAre
<1> QED
  BY <1>1, <1>2 DEF DatagramRead

LEMMA ReadNumberKeeps ==
  ASSUME TypeInv, Arrived, DatagramRead, ReadNumber
  PROVE  Came(stream', written) /\ DatagramRead'
<1>1. PICK m, w, s, f : /\ m = message /\ w = written /\ s = stream
                        /\ f = Offsets(written, Pieces(message))
  OBVIOUS
<1>2. /\ phase = "read" /\ IsDatagram(m) /\ m \in Message /\ got = <<>>
      /\ CanRead(Behind(s), 3)
  BY <1>1 DEF ReadNumber, TypeInv
<1>3. Came(s, w) /\ DatagramPlaces(m, w, f) /\ PacketsRead(m, f, s, got)
  BY <1>1, <1>2, WhereItIs
<1>4. s.position = 0
  <2>1. Len(got) = 0
    BY <1>2
  <2> QED
    BY <1>3, <2>1 DEF PacketsRead
<1>5. PICK g, t : g = got' /\ t = stream'
  OBVIOUS
<1>6. g = <<TriadFrom(NextBytes(Behind(s), 3))>> /\ t = Advance(Behind(s), 3)
  BY <1>1, <1>5 DEF ReadNumber
<1>7. Came(t, w) /\ PacketsRead(m, f, t, g)
  BY ONLY <1>2, <1>3, <1>4, <1>6, NumberIs
<1>8. message' = m /\ written' = w /\ phase' = "read"
  BY <1>1, <1>2 DEF ReadNumber
<1>9. Offsets(written, Pieces(message))' = f
  BY <1>1, <1>8
<1> QED
  BY <1>1, <1>5, <1>7, <1>8, <1>9 DEF DatagramRead

LEMMA ReadPacketKeeps ==
  ASSUME TypeInv, Arrived, DatagramRead, ReadPacket
  PROVE  Came(stream', written) /\ DatagramRead'
<1>1. PICK m, w, s, f, g : /\ m = message /\ w = written /\ s = stream /\ g = got
                           /\ f = Offsets(written, Pieces(message))
  OBVIOUS
<1>2. /\ phase = "read" /\ IsDatagram(m) /\ m \in Message /\ g # <<>>
      /\ CanRead(s, PacketWidth(s))
  BY <1>1 DEF ReadPacket, TypeInv
<1>3. Came(s, w) /\ DatagramPlaces(m, w, f) /\ PacketsRead(m, f, s, g)
  BY <1>1, <1>2, WhereItIs
<1>4. PICK h, t : h = got' /\ t = stream'
  OBVIOUS
<1>5. h = Append(g, PacketIn(s)) /\ t = Advance(s, PacketWidth(s))
  BY <1>1, <1>4 DEF ReadPacket
<1>6. Came(t, w) /\ PacketsRead(m, f, t, h)
  BY ONLY <1>2, <1>3, <1>5, RoundIs
<1>7. message' = m /\ written' = w /\ phase' = "read"
  BY <1>1, <1>2 DEF ReadPacket
<1>8. Offsets(written, Pieces(message))' = f
  BY <1>1, <1>7
<1> QED
  BY <1>1, <1>4, <1>6, <1>7, <1>8 DEF DatagramRead

\* The parts of the two properties that are about datagrams.
LEMMA DatagramAsSent ==
  ASSUME NEW m, NEW f, NEW s, NEW g, PacketsRead(m, f, s, g)
  PROVE  /\ g # <<>> => g[1] = m.sequenceNumber % 2 ^ 24
         /\ \A k \in 1 .. Len(g) - 1 :
              \/ k <= Len(m.packets) /\ g[k + 1] = Sent(m.packets[k])
              \/ \E j \in 1 .. k : j <= Len(m.packets) /\ m.packets[j].hasSplit
<1>1. IsSeq(g) /\ (g # <<>> => Len(g) # 0)
  <2>1. g \in Seq(Range(g))
    BY DEF PacketsRead, IsSeq
  <2> QED
    BY <2>1 DEF IsSeq
<1> QED
  BY <1>1 DEF PacketsRead, Broken

LEMMA DatagramNoticed ==
  ASSUME NEW m \in Message, IsDatagram(m), NEW w, NEW f, DatagramPlaces(m, w, f),
         NEW s, Came(s, w), NEW g, PacketsRead(m, f, s, g), g # <<>>, Feof(s),
         \A k \in DOMAIN m.packets : ~m.packets[k].hasSplit
  PROVE  /\ Len(g) <= Len(m.packets) + 1
         /\ ~(s.size < Len(w)) => Len(g) = Len(m.packets) + 1
<1>1. PICK q : q = m.packets
  OBVIOUS
<1>2. PICK n \in Nat : n = Len(q) /\ DOMAIN q = 1 .. n
  BY <1>1, IsSeqLen DEF DatagramPlaces
<1>3. PICK r \in Nat : r = Len(g) /\ r # 0
  <2>1. g \in Seq(Range(g))
    BY DEF PacketsRead, IsSeq
  <2> QED
    BY <2>1
<1>4. ~Broken(q, r - 1)
  <2> SUFFICES ASSUME NEW j \in 1 .. r - 1, j <= Len(q) PROVE ~q[j].hasSplit
    BY DEF Broken
  <2>1. j \in 1 .. n
    BY <1>2, <1>3
  <2> QED
    BY <1>1, <1>2, <2>1
<1>5. r - 1 <= n /\ s.position = f[r]
  BY <1>1, <1>2, <1>3, <1>4 DEF PacketsRead
<1>6. ASSUME ~(s.size < Len(w)), r # n + 1 PROVE FALSE
  <2>1. r \in 1 .. n
    BY <1>2, <1>3, <1>5, <1>6
  <2>2. PICK x : x = Header(q[r]) \o q[r].payload
    OBVIOUS
  <2>3. /\ Len(x) \in Nat /\ 3 <= Len(x) /\ f[r] \in Nat
        /\ f[r + 1] = f[r] + Len(x) /\ f[r + 1] <= Len(w) /\ Len(w) \in Nat
    BY <1>1, <1>2, <2>1, <2>2 DEF DatagramPlaces
  <2>4. s.size \in Nat /\ s.position = s.size
    BY CameIs DEF Feof
  <2> QED
    BY <1>5, <1>6, <2>3, <2>4
<1> QED
  BY <1>1, <1>2, <1>3, <1>5, <1>6

-----------------------------------------------------------------------------
(* Reading a field *)

\* The value v is read back from its bytes, in whole.
ReadBack(kind, v, s, perm) ==
  LET n == Width(kind, s)
  IN  /\ n \in Nat /\ n = Len(Encoded(kind, v))
      /\ kind # "magic" => /\ s.position + n <= s.size
                           /\ SameValue(kind, Decoded(kind, NextBytes(s, n), perm), v)

\* The bytes x of the value v come next, there are as many as are read for its
\* kind, and they are b.
Comes(s, w, kind, v, x, n, b) ==
  /\ Came(s, w) /\ HasAt(w, s.position, x) /\ Readable(kind, s) /\ kind # "magic"
  /\ x = Encoded(kind, v) /\ n \in Nat /\ n = Width(kind, s) /\ Len(x) = n
  /\ b = NextBytes(s, n)

LEMMA SameBytes ==
  ASSUME NEW s, NEW w, NEW kind, NEW v, NEW x, NEW n, NEW b, Comes(s, w, kind, v, x, n, b)
  PROVE  /\ b \in Seq(Byte) /\ Len(b) = n /\ \A k \in 1 .. n : b[k] = x[k]
<1>1. Came(s, w) /\ n \in Nat /\ CanRead(s, n)
  BY DEF Comes, Readable
<1>2. b \in Seq(Byte) /\ Len(b) = n /\ \A k \in 1 .. n : b[k] = w[s.position + k]
  <2>1. b = NextBytes(s, n)
    BY DEF Comes
  <2> QED
    BY <1>1, <2>1, NextBytesAre
<1>3. \A k \in 1 .. n : w[s.position + k] = x[k]
  BY DEF Comes, HasAt
<1> QED
  BY <1>2, <1>3

LEMMA BackIs ==
  ASSUME NEW s, NEW w, NEW kind, NEW v, NEW x, NEW n, NEW b, Comes(s, w, kind, v, x, n, b),
         NEW perm, SameValue(kind, Decoded(kind, b, perm), v)
  PROVE  ReadBack(kind, v, s, perm)
BY DEF Comes, Readable, CanRead, ReadBack

\* What the stream s holds at its position.
Holds(s, w, kind, v) ==
  Came(s, w) /\ HasAt(w, s.position, Encoded(kind, v)) /\ Readable(kind, s)

LEMMA ByteBack ==
  ASSUME NEW s, NEW w, NEW v \in Byte, NEW perm, Holds(s, w, "byte", v)
  PROVE  ReadBack("byte", v, s, perm)
<1>1. PICK x : x = Encoded("byte", v) /\ x = <<v % 256>>
  BY DEF Encoded
<1>2. v % 256 = v
  BY DEF Byte
<1>3. PICK n \in Nat : n = 1
  OBVIOUS
<1>4. Len(x) = n /\ x[1] = v
  BY <1>1, <1>2, <1>3
<1>5. PICK b : b = NextBytes(s, n)
  OBVIOUS
<1>6. Comes(s, w, "byte", v, x, n, b)
  BY <1>1, <1>3, <1>4, <1>5 DEF Holds, Comes, Width
<1>7. b[1] = x[1]
  BY <1>3, <1>6, SameBytes
<1>8. SameValue("byte", Decoded("byte", b, perm), v)
  BY <1>4, <1>7 DEF SameValue, Decoded
<1> QED
  BY <1>6, <1>8, BackIs

LEMMA BooleanBack ==
  ASSUME NEW s, NEW w, NEW v \in BOOLEAN, NEW perm, Holds(s, w, "boolean", v)
  PROVE  ReadBack("boolean", v, s, perm)
<1>1. PICK x : x = Encoded("boolean", v) /\ x = <<IF v THEN 1 ELSE 0>>
  BY DEF Encoded
<1>2. PICK n \in Nat : n = 1
  OBVIOUS
<1>3. Len(x) = n /\ x[1] = IF v THEN 1 ELSE 0
  BY <1>1, <1>2
<1>4. PICK b : b = NextBytes(s, n)
  OBVIOUS
<1>5. Comes(s, w, "boolean", v, x, n, b)
  BY <1>1, <1>2, <1>3, <1>4 DEF Holds, Comes, Width
<1>6. b[1] = x[1]
  BY <1>2, <1>5, SameBytes
<1>7. (b[1] = 1) = v
  BY <1>3, <1>6
<1>8. Decoded("boolean", b, perm) = (b[1] = 1)
  BY DEF Decoded
<1>9. SameValue("boolean", Decoded("boolean", b, perm), v)
  BY <1>7, <1>8 DEF SameValue
<1> QED
  BY <1>5, <1>9, BackIs

LEMMA ShortBytes ==
  ASSUME NEW v \in Short, NEW x, x = BigEndian(v, 2)
  PROVE  Len(x) = 2 /\ 256 * x[1] + x[2] = v
<1>1. 2 - 1 = 1 /\ 2 - 2 = 0 /\ 1 \in 1 .. 2 /\ 2 \in 1 .. 2 /\ 2 \in Nat
  OBVIOUS
<1>2. Len(x) = 2 /\ x[1] = ByteOf(v, 2 - 1) /\ x[2] = ByteOf(v, 2 - 2)
  BY <1>1, EndianIs
<1>3. v \in Int /\ 0 <= v /\ v < 65536
  BY ShortBounds
<1>4. 256 * ByteOf(v, 1) + ByteOf(v, 0) = v
  BY <1>3, ShortIs
<1> QED
  BY <1>1, <1>2, <1>4

LEMMA ShortBack ==
  ASSUME NEW s, NEW w, NEW v \in Short, NEW perm, Holds(s, w, "short", v)
  PROVE  ReadBack("short", v, s, perm)
<1>1. PICK x : x = Encoded("short", v) /\ x = BigEndian(v, 2)
  BY DEF Encoded
<1>2. PICK n \in Nat : n = 2
  OBVIOUS
<1>3. Len(x) = n /\ 256 * x[1] + x[2] = v
  BY <1>1, <1>2, ShortBytes
<1>4. PICK b : b = NextBytes(s, n)
  OBVIOUS
<1>5. Comes(s, w, "short", v, x, n, b)
  BY <1>1, <1>2, <1>3, <1>4 DEF Holds, Comes, Width
<1>6. b[1] = x[1] /\ b[2] = x[2]
  BY <1>2, <1>5, SameBytes
<1>7. ShortFrom(b) = v
  BY <1>3, <1>6 DEF ShortFrom
<1>8. SameValue("short", Decoded("short", b, perm), v)
  BY <1>7 DEF SameValue, Decoded
<1> QED
  BY <1>5, <1>8, BackIs

LEMMA LongBack ==
  ASSUME NEW s, NEW w, NEW v \in Seq(Byte), Len(v) = 8, NEW perm, Holds(s, w, "long", v)
  PROVE  ReadBack("long", v, s, perm)
<1>1. Encoded("long", v) = v
  BY DEF Encoded
<1>2. PICK n \in Nat : n = 8
  OBVIOUS
<1>3. PICK b : b = NextBytes(s, n)
  OBVIOUS
<1>4. Comes(s, w, "long", v, v, n, b)
  BY <1>1, <1>2, <1>3 DEF Holds, Comes, Width
<1>5. b \in Seq(Byte) /\ Len(b) = n /\ \A k \in 1 .. n : b[k] = v[k]
  BY <1>4, SameBytes
<1>6. b = v
  <2>1. Len(b) = Len(v) /\ \A k \in 1 .. Len(b) : b[k] = v[k]
    BY <1>2, <1>5
  <2> QED
    BY <1>5, <2>1, SameElements
<1>7. SameValue("long", Decoded("long", b, perm), v)
  BY <1>6 DEF SameValue, Decoded
<1> QED
  BY <1>4, <1>7, BackIs

\* The four bytes of an address may be read in any order of ReadOrder.
LEMMA AddressBack ==
  ASSUME NEW s, NEW w, NEW v, AddressOK(v), NEW perm \in ReadOrder,
         Holds(s, w, "address", v)
  PROVE  ReadBack("address", v, s, perm)
<1>1. v.addr \in Seq(Byte) /\ Len(v.addr) = 4 /\ v.port \in Short
  BY AddrIs
<1>2. PICK x : x = Encoded("address", v)
  OBVIOUS
<1>3. PICK n \in Nat : n = 7
  OBVIOUS
<1>4. /\ Len(x) = n /\ \A k \in 1 .. 4 : x[1 + k] = v.addr[k]
      /\ x[6] = ByteOf(v.port, 1) /\ x[7] = ByteOf(v.port, 0)
  BY <1>1, <1>2, <1>3, AddressIs
<1>5. PICK b : b = NextBytes(s, n)
  OBVIOUS
<1>6. Comes(s, w, "address", v, x, n, b)
  BY <1>2, <1>3, <1>4, <1>5 DEF Holds, Comes, Width
<1>7. \A k \in 1 .. n : b[k] = x[k]
  BY <1>6, SameBytes
<1>8. PICK d : d = [version |-> 4, addr |-> [k \in 1 .. 4 |-> b[1 + perm[k]]],
                    port |-> ShortFrom(<<b[6], b[7]>>)]
  OBVIOUS
<1>9. Decoded("address", b, perm) = d
  BY <1>8 DEF Decoded
<1>10. d.port = v.port
  <2>1. v.port \in Int /\ 0 <= v.port /\ v.port < 65536
    BY <1>1, ShortBounds
  <2>2. 256 * ByteOf(v.port, 1) + ByteOf(v.port, 0) = v.port
    BY <2>1, ShortIs
  <2>3. b[6] = x[6] /\ b[7] = x[7]
    BY <1>3, <1>7
  <2>4. d.port = 256 * b[6] + b[7]
    BY <1>8 DEF ShortFrom
  <2> QED
    BY <1>4, <2>2, <2>3, <2>4
<1>11. d.addr = [k \in 1 .. 4 |-> v.addr[perm[k]]]
  <2>1. \A k \in 1 .. 4 : perm[k] \in 1 .. 4
    BY OrderAssumption
  <2>2. \A j \in 1 .. 4 : 1 + j \in 1 .. n /\ b[1 + j] = v.addr[j]
    BY <1>3, <1>4, <1>7
  <2>3. \A k \in 1 .. 4 : b[1 + perm[k]] = v.addr[perm[k]]
    BY <2>1, <2>2
  <2>4. d.addr = [k \in 1 .. 4 |-> b[1 + perm[k]]]
    BY <1>8
  <2> QED
    BY <2>3, <2>4
<1>12. SameValue("address", Decoded("address", b, perm), v)
  BY <1>9, <1>10, <1>11 DEF SameValue
<1> QED
  BY <1>6, <1>12, BackIs

LEMMA RestIs ==
  ASSUME NEW b \in Seq(Byte), NEW l \in Nat, Len(b) = 2 + l
  PROVE  /\ SubSeq(b, 3, Len(b)) \in Seq(Byte) /\ Len(SubSeq(b, 3, Len(b))) = l
         /\ \A k \in 1 .. l : SubSeq(b, 3, Len(b))[k] = b[2 + k]
<1>1. SubSeq(b, 3, Len(b)) = SubSeq(b, 2 + 1, 2 + l)
  OBVIOUS
<1>2. PICK i \in Nat : i = 2
  OBVIOUS
<1>3. PICK t : t = SubSeq(b, i + 1, i + l)
  OBVIOUS
<1>4. t \in Seq(Byte) /\ Len(t) = l /\ \A k \in 1 .. l : t[k] = b[i + k]
  BY <1>2, <1>3
<1> QED
  BY <1>1, <1>2, <1>3, <1>4

LEMMA StringBack ==
  ASSUME NEW s, NEW w, NEW v \in Seq(Byte), Len(v) < 65536, NEW perm,
         Holds(s, w, "string", v)
  PROVE  ReadBack("string", v, s, perm)
<1>1. PICK x, l : x = Encoded("string", v) /\ l = Len(v)
  OBVIOUS
<1>2. /\ l \in Nat /\ Len(x) = 2 + l /\ x[1] = ByteOf(l, 1) /\ x[2] = ByteOf(l, 0)
      /\ \A k \in 1 .. l : x[2 + k] = v[k]
  BY <1>1, StringIs
<1>3. Came(s, w) /\ HasAt(w, s.position, x) /\ CanRead(s, Width("string", s))
  BY <1>1 DEF Holds, Readable
<1>4. CASE ~CanRead(s, 2)
  <2>1. Width("string", s) = 2 + 0
    BY <1>4 DEF Width
  <2> QED
    BY <1>3, <1>4, <2>1
<1>5. CASE CanRead(s, 2)
  <2>1. PICK i \in Nat : i = 2
    OBVIOUS
  <2>2. PICK c : c = NextBytes(s, i)
    OBVIOUS
  <2>3. c[1] = x[1] /\ c[2] = x[2]
    <3>1. 1 \in 1 .. i /\ 2 \in 1 .. i /\ 1 \in 1 .. Len(x) /\ 2 \in 1 .. Len(x)
      BY <1>2, <2>1
    <3>2. \A k \in 1 .. i : c[k] = w[s.position + k]
      BY <1>3, <1>5, <2>1, <2>2, NextBytesAre
    <3> QED
      BY <1>3, <3>1, <3>2 DEF HasAt
  <2>4. ShortFrom(c) = l
    <3>1. l \in Int /\ 0 <= l /\ l < 65536
      BY <1>1, <1>2
    <3>2. 256 * ByteOf(l, 1) + ByteOf(l, 0) = l
      BY <3>1, ShortIs
    <3> QED
      BY <1>2, <2>3, <3>2 DEF ShortFrom
  <2>5. PICK n \in Nat : n = 2 + l
    BY <1>2
  <2>6. Width("string", s) = n
    BY <1>5, <2>1, <2>2, <2>4, <2>5 DEF Width
  <2>7. PICK b : b = NextBytes(s, n)
    OBVIOUS
  <2>8. Comes(s, w, "string", v, x, n, b)
    BY <1>1, <1>2, <2>5, <2>6, <2>7 DEF Holds, Comes
  <2>9. b \in Seq(Byte) /\ Len(b) = n /\ \A k \in 1 .. n : b[k] = x[k]
    BY <2>8, SameBytes
  <2>10. SubSeq(b, 3, Len(b)) = v
    <3> DEFINE t == SubSeq(b, 3, Len(b))
    <3>1. Len(b) = 2 + l
      BY <2>5, <2>9
    <3>2. t \in Seq(Byte) /\ Len(t) = l /\ \A k \in 1 .. l : t[k] = b[2 + k]
      BY <1>2, <2>9, <3>1, RestIs
    <3> HIDE DEF t
    <3>3. \A k \in 1 .. l : 2 + k \in 1 .. n
      BY <1>2, <2>5
    <3>4. \A k \in 1 .. l : b[2 + k] = v[k]
      <4> SUFFICES ASSUME NEW k \in 1 .. l PROVE b[2 + k] = v[k]
        OBVIOUS
      <4>1. b[2 + k] = x[2 + k]
        BY <2>9, <3>3
      <4>2. x[2 + k] = v[k]
        BY <1>2
      <4> QED
        BY <4>1, <4>2
    <3>5. \A k \in 1 .. Len(t) : t[k] = v[k]
      BY <3>2, <3>4
    <3>6. t = v
      BY <1>1, <3>2, <3>5, SameElements
    <3> QED
      BY <3>6 DEF t
  <2>11. SameValue("string", Decoded("string", b, perm), v)
    BY <2>10 DEF SameValue, Decoded
  <2> QED
    BY <2>8, <2>11, BackIs
<1> QED
  BY <1>4, <1>5

LEMMA FieldBack ==
  ASSUME NEW s, NEW w, NEW kind \in Kind, NEW v, NEW perm \in ReadOrder,
         kind # "magic" => ValueOK(kind, v), Holds(s, w, kind, v)
  PROVE  ReadBack(kind, v, s, perm)
<1>1. CASE kind = "byte"
  BY <1>1, ByteBack DEF ValueOK
<1>2. CASE kind = "boolean"
  BY <1>2, BooleanBack DEF ValueOK
<1>3. CASE kind = "short"
  BY <1>3, ShortBack DEF ValueOK
<1>4. CASE kind = "long"
  BY <1>4, LongBack DEF ValueOK
<1>5. CASE kind = "magic"
  <2>1. Encoded(kind, v) = Magic /\ Width(kind, s) = 16
    BY <1>5 DEF Encoded, Width
  <2>2. Len(Magic) = 16 /\ 16 \in Nat
    BY DEF Magic
  <2> HIDE DEF Magic
  <2> QED
    BY <1>5, <2>1, <2>2 DEF ReadBack
<1>6. CASE kind = "address"
  BY <1>6, AddressBack DEF ValueOK
<1>7. CASE kind = "string"
  BY <1>7, StringBack DEF ValueOK
<1> QED
  BY <1>1, <1>2, <1>3, <1>4, <1>5, <1>6, <1>7 DEF Kind

-----------------------------------------------------------------------------
(* What was read of the fields *)

Measured(m) == m.name = "OpenConnectionRequest1"

LEMMA LastIs ==
  ASSUME NEW m, SimpleOK(m), ~Measured(m), NEW put, put = LayoutOf(m.name).put
  PROVE  put[Len(put)].kind # "magic"
<1>1. m.name \in SimpleName \ {"OpenConnectionRequest1"}
  BY DEF SimpleOK, Measured
<1>2. LayoutOK(LayoutOf(m.name))
  BY <1>1, LayoutIs
<1> QED
  BY <1>2 DEF LayoutOK

\* The padding of the first request is read as its size, which is kept.
LEMMA MTUIsNew ==
  ASSUME NEW m, SimpleOK(m), Measured(m)
  PROVE  "MTU" \notin DOMAIN m.values
<1>1. PICK put : put = LayoutOf(m.name).put
  OBVIOUS
<1>2. /\ IsSeq(put) /\ Len(put) = 3 /\ put[1].name = "" /\ put[2].name = "protocolVersion"
      /\ put[3].name = ""
  BY <1>1, RequestIs DEF Measured
<1>3. DOMAIN put = 1 .. 3
  BY <1>2, IsSeqLen
<1>4. \A k \in DOMAIN put : put[k].name # "MTU"
  <2> SUFFICES ASSUME NEW k \in 1 .. 3 PROVE put[k].name # "MTU"
    BY <1>3
  <2>1. k = 1 \/ k = 2 \/ k = 3
    OBVIOUS
  <2> QED
    BY <1>2, <2>1
<1>5. DOMAIN m.values = {put[k].name : k \in {j \in DOMAIN put : put[j].name # ""}}
  BY <1>1, Zenon DEF SimpleOK
<1> QED
  BY <1>4, <1>5

\* What is put in the field f has the type of the field, and is kept under the
\* name of r, if it is kept.
PutOK(m, f, r) ==
  /\ f.kind \in Kind /\ r.kind = f.kind
  /\ f.kind # "magic" => ValueOK(f.kind, ValueOf(m, f))
  /\ r.name \in DOMAIN m.values =>
       f.kind # "magic" /\ r.name # "" /\ ValueOf(m, f) = m.values[r.name]

LEMMA PutIs ==
  ASSUME NEW m, SimpleOK(m), NEW f,
         \E k \in DOMAIN LayoutOf(m.name).put : f = LayoutOf(m.name).put[k],
         NEW r, Matches(f, r)
  PROVE  PutOK(m, f, r)
<1>1. f.kind \in Kind /\ r.kind = f.kind /\ (r.name = f.name \/ r.name = "")
  BY DEF Matches
<1>2. f.name = "" <=> f.kind = "magic"
  BY Zenon DEF Matches
<1>3. f.name # "" => ValueOK(f.kind, m.values[f.name]) /\ ValueOf(m, f) = m.values[f.name]
  BY ValueIs
<1>4. "" \notin DOMAIN m.values
  BY NamelessIs
<1> QED
  BY <1>1, <1>2, <1>3, <1>4 DEF PutOK

\* The fields of a simple packet are pieces of it, behind its PID.
FieldPlaces(m, w, f) ==
  LET put == LayoutOf(m.name).put
      read == LayoutOf(m.name).read
  IN  /\ IsSeq(put) /\ IsSeq(read) /\ Len(read) = Len(put) /\ Len(put) # 0
      /\ Len(w) \in Nat /\ f[1] = 1 /\ f[Len(put) + 1] = Len(w)
      /\ \A k \in 1 .. Len(put) :
           LET x == Encoded(put[k].kind, ValueOf(m, put[k]))
           IN  /\ Len(x) \in Nat /\ f[k] \in Nat
               /\ f[k + 1] = f[k] + Len(x) /\ HasAt(w, f[k], x)
               /\ \/ Matches(put[k], read[k])
                  \/ Measured(m) /\ k = 3

LEMMA FieldPlacesAre ==
  ASSUME NEW m \in Message, ~IsDatagram(m), NEW w, Spells(w, Pieces(m)),
         NEW f, f = Offsets(w, Pieces(m))
  PROVE  FieldPlaces(m, w, f)
<1>1. PICK put, read, r : /\ put = LayoutOf(m.name).put /\ read = LayoutOf(m.name).read
                          /\ r = Pieces(m)
  OBVIOUS
<1>2. SimpleOK(m)
  BY MessageAssumption
<1>3. /\ IsSeq(put) /\ IsSeq(read) /\ Len(read) = Len(put) /\ Len(put) # 0
      /\ \A k \in 1 .. Len(put) : Matches(put[k], read[k]) \/ (Measured(m) /\ k = 3)
  BY <1>1, <1>2, FieldsAre DEF Measured
<1>4. PICK n \in Nat : n = Len(put) /\ DOMAIN put = 1 .. n
  BY <1>3, IsSeqLen
<1>5. Len(r) = 1 + n /\ r[1] = Opening(m) /\ \A k \in 1 .. n : r[1 + k] = Segments(m)[k]
  <2>1. Len(Segments(m)) = n
    BY <1>1, <1>4, SegmentsAre
  <2> QED
    BY <1>1, <2>1, PiecesAre
<1>6. /\ Len(r) \in Nat /\ Len(w) \in Nat
      /\ f[0] = 0 /\ f[Len(r)] = Len(w)
      /\ \A k \in 1 .. Len(r) :
           /\ f[k - 1] \in Nat /\ Len(r[k]) \in Nat /\ f[k] \in Nat
           /\ f[k] = f[k - 1] + Len(r[k]) /\ f[k] <= Len(w)
           /\ HasAt(w, f[k - 1], r[k])
  <2>1. Places(f, w, r)
    BY <1>1, OffsetsAre
  <2> QED
    BY <2>1 DEF Places
<1>7. f[1] = 1
  <2>1. 1 \in 1 .. Len(r) /\ 1 - 1 = 0
    BY <1>4, <1>5
  <2>2. Len(r[1]) = 1
    BY <1>5, OpeningIs
  <2>3. f[1] = f[0] + Len(r[1])
    BY <1>6, <2>1
  <2> QED
    BY <1>6, <2>2, <2>3
<1>8. ASSUME NEW k \in 1 .. n, NEW x, x = Encoded(put[k].kind, ValueOf(m, put[k]))
      PROVE  /\ Len(x) \in Nat /\ f[k] \in Nat
             /\ f[k + 1] = f[k] + Len(x) /\ HasAt(w, f[k], x)
  <2>1. k + 1 \in 1 .. Len(r) /\ (k + 1) - 1 = k /\ 1 + k = k + 1
    BY <1>4, <1>5
  <2>2. Segments(m)[k] = x
    BY <1>1, <1>4, <1>8 DEF Segments
  <2>3. r[k + 1] = x
    BY <1>5, <2>1, <2>2
  <2> QED
    BY <1>6, <2>1, <2>3
<1>9. f[n + 1] = Len(w)
  <2>1. n + 1 = Len(r)
    BY <1>4, <1>5
  <2> QED
    BY <1>6, <2>1
<1>10. \A k \in 1 .. Len(put) :
         LET x == Encoded(put[k].kind, ValueOf(m, put[k]))
         IN  /\ Len(x) \in Nat /\ f[k] \in Nat
             /\ f[k + 1] = f[k] + Len(x) /\ HasAt(w, f[k], x)
             /\ \/ Matches(put[k], read[k])
                \/ Measured(m) /\ k = 3
  BY <1>3, <1>4, <1>8
<1>11. f[Len(put) + 1] = Len(w)
  BY <1>4, <1>9
<1> QED
  BY <1>1, <1>3, <1>6, <1>7, <1>10, <1>11, Zenon DEF FieldPlaces

\* The fields are got as they were put, and the position is behind the last of
\* them; but for the request that is measured, it is not behind what arrived
\* when all are read.
FieldsOK(m, f, s, g) ==
  LET read == LayoutOf(m.name).read
      r == Len(g)
  IN  /\ IsSeq(g) /\ r <= Len(read)
      /\ r = 0 <=> s.position = 0
      /\ r # 0 /\ (r < Len(read) \/ ~Measured(m)) => s.position = f[r + 1]
      /\ r = Len(read) /\ ~Measured(m) => s.position <= s.size
      /\ \A k \in 1 .. r : read[k].name \in DOMAIN m.values =>
           SameValue(read[k].kind, g[k], m.values[read[k].name])

LEMMA LeftIs ==
  ASSUME NEW q, IsSeq(q), NEW r \in Nat, NEW l, l = SubSeq(q, r + 1, Len(q))
  PROVE  /\ l # <<>> => r < Len(q) /\ Head(l) = q[r + 1]
         /\ l = <<>> => Len(q) <= r
<1>1. PICK S : q \in Seq(S)
  BY DEF IsSeq
<1>2. PICK n \in Nat : n = Len(q)
  BY <1>1
<1>3. CASE r < n
  <2>1. l \in Seq(S) /\ Len(l) = n - r /\ l[1] = q[r + 1]
    BY <1>1, <1>2, <1>3
  <2>2. l # <<>>
    <3>1. Len(l) # 0
      BY <1>3, <2>1
    <3>2. Len(<<>>) = 0
      OBVIOUS
    <3> QED
      BY <3>1, <3>2
  <2>3. Head(l) = l[1]
    BY <2>1, <2>2
  <2> QED
    BY <1>2, <1>3, <2>1, <2>2, <2>3
<1>4. CASE ~(r < n)
  <2>1. l \in Seq(S) /\ Len(l) = 0
    BY <1>1, <1>2, <1>4
  <2> QED
    BY <1>2, <1>4, <2>1
<1> QED
  BY <1>3, <1>4

LEMMA FieldIs ==
  ASSUME NEW m \in Message, ~IsDatagram(m), NEW w, NEW f, FieldPlaces(m, w, f),
         NEW s, Came(s, w), NEW g, FieldsOK(m, f, s, g), order \in ReadOrder,
         NEW field, Len(g) < Len(LayoutOf(m.name).read),
         field = LayoutOf(m.name).read[Len(g) + 1],
         NEW v, v = Behind(s), Readable(field.kind, v),
         NEW h, h = Append(g, FieldValue(field, v)),
         NEW t, t = Advance(v, Width(field.kind, v))
  PROVE  Came(t, w) /\ FieldsOK(m, f, t, h)
<1>1. PICK put, read : put = LayoutOf(m.name).put /\ read = LayoutOf(m.name).read
  OBVIOUS
<1>2. SimpleOK(m)
  BY MessageAssumption
<1>3. IsSeq(put) /\ IsSeq(read) /\ Len(read) = Len(put) /\ f[1] = 1
  BY <1>1 DEF FieldPlaces
<1>4. PICK n \in Nat : n = Len(put) /\ n = Len(read) /\ DOMAIN put = 1 .. n
  BY <1>3, IsSeqLen
<1>5. /\ IsSeq(g) /\ (Len(g) = 0 <=> s.position = 0)
      /\ Len(g) # 0 /\ Len(g) < Len(read) => s.position = f[Len(g) + 1]
      /\ \A k \in 1 .. Len(g) : read[k].name \in DOMAIN m.values =>
           SameValue(read[k].kind, g[k], m.values[read[k].name])
  BY <1>1 DEF FieldsOK
<1>6. PICK r \in Nat : r = Len(g)
  BY <1>5, IsSeqLen
<1>7. PICK k \in 1 .. n : k = r + 1 /\ field = read[k]
  BY <1>1, <1>4, <1>6
<1>8. Came(v, w) /\ v.size = s.size /\ v.position = f[k] /\ v.position # 0 /\ v.position \in Nat
  <2>1. /\ Came(v, w) /\ v.size = s.size
        /\ v.position = IF s.position = 0 THEN 1 ELSE s.position
    BY BehindIs
  <2>2. v.position \in Nat
    BY <2>1, CameIs
  <2>3. CASE r = 0
    <3>1. s.position = 0 /\ k = 1
      BY <1>5, <1>6, <1>7, <2>3
    <3> QED
      BY <1>3, <2>1, <2>2, <3>1
  <2>4. CASE r # 0
    <3>1. s.position # 0 /\ s.position = f[k]
      BY <1>1, <1>5, <1>6, <1>7, <2>4
    <3> QED
      BY <2>1, <2>2, <3>1
  <2> QED
    BY <2>3, <2>4
<1>9. PICK a : a = FieldValue(field, v) /\ h = Append(g, a)
  OBVIOUS
<1>10. IsAppend(h, g, a)
  BY <1>5, <1>9, AppendIsSeq, Zenon
<1>11. IsSeq(h) /\ Len(h) = k /\ h[k] = a /\ \A j \in 1 .. r : h[j] = g[j]
  BY <1>6, <1>7, <1>10 DEF IsAppend
<1>12. PICK N : N = Width(field.kind, v)
  OBVIOUS
<1>13. PICK val, x : val = ValueOf(m, put[k]) /\ x = Encoded(put[k].kind, val)
  OBVIOUS
<1>14. /\ Len(x) \in Nat /\ f[k] \in Nat /\ f[k + 1] = f[k] + Len(x) /\ HasAt(w, f[k], x)
       /\ Matches(put[k], read[k]) \/ (Measured(m) /\ k = 3)
  BY <1>1, <1>4, <1>13 DEF FieldPlaces
<1>15. ASSUME N \in Nat,
              k < n \/ ~Measured(m) => N = Len(x),
              k = n /\ ~Measured(m) => v.position + N <= v.size,
              read[k].name \in DOMAIN m.values =>
                SameValue(read[k].kind, a, m.values[read[k].name])
       PROVE  Came(t, w) /\ FieldsOK(m, f, t, h)
  <2>1. Came(t, w) /\ t.position = v.position + N /\ t.size = v.size
    <3>1. t = Advance(v, N)
      BY <1>12
    <3> QED
      BY <1>8, <1>15, <3>1, AdvanceIs
  <2>2. t.position # 0
    BY <1>8, <1>15, <2>1
  <2>3. k < n \/ ~Measured(m) => t.position = f[k + 1]
    BY <1>8, <1>14, <1>15, <2>1
  <2>4. k = n /\ ~Measured(m) => t.position <= t.size
    BY <1>15, <2>1
  <2>5. ASSUME NEW j \in 1 .. k, read[j].name \in DOMAIN m.values
        PROVE  SameValue(read[j].kind, h[j], m.values[read[j].name])
    <3>1. CASE j = k
      BY <1>11, <1>15, <2>5, <3>1
    <3>2. CASE j # k
      <4>1. j \in 1 .. r /\ j \in 1 .. Len(g)
        BY <1>6, <1>7, <3>2
      <4>2. h[j] = g[j]
        BY <1>11, <4>1
      <4> QED
        BY <1>5, <2>5, <4>1, <4>2
    <3> QED
      BY <3>1, <3>2
  <2>6. k # 0 /\ k <= n
    BY <1>7
  <2> QED
    BY <1>1, <1>4, <1>11, <2>1, <2>2, <2>3, <2>4, <2>5, <2>6 DEF FieldsOK
<1>16. CASE Matches(put[k], read[k])
  <2>1. PICK kind : kind = put[k].kind
    OBVIOUS
  <2>2. /\ kind \in Kind /\ field.kind = kind /\ (kind # "magic" => ValueOK(kind, val))
        /\ read[k].name \in DOMAIN m.values =>
             kind # "magic" /\ read[k].name # "" /\ val = m.values[read[k].name]
    <3>1. PICK pf, rf : pf = LayoutOf(m.name).put[k] /\ rf = read[k]
      OBVIOUS
    <3>2. k \in DOMAIN LayoutOf(m.name).put /\ Matches(pf, rf)
      BY <1>1, <1>4, <1>16, <3>1
    <3>3. \E j \in DOMAIN LayoutOf(m.name).put : pf = LayoutOf(m.name).put[j]
      BY <3>1, <3>2
    <3>4. PutOK(m, pf, rf)
      BY <1>2, <3>2, <3>3, PutIs
    <3> QED
      BY <1>1, <1>7, <1>13, <2>1, <3>1, <3>4 DEF PutOK
  <2>3. Holds(v, w, kind, val)
    BY <1>8, <1>13, <1>14, <2>1, <2>2 DEF Holds
  <2>4. ReadBack(kind, val, v, order)
    BY <2>2, <2>3, FieldBack
  <2>5. /\ N \in Nat /\ N = Len(x)
        /\ kind # "magic" => /\ v.position + N <= v.size
                             /\ SameValue(kind, Decoded(kind, NextBytes(v, N), order), val)
    BY <1>12, <1>13, <2>1, <2>2, <2>4 DEF ReadBack
  <2>6. ASSUME k = n, ~Measured(m) PROVE kind # "magic"
    BY <1>1, <1>2, <1>4, <2>1, <2>6, LastIs
  <2>7. ASSUME read[k].name \in DOMAIN m.values
        PROVE  SameValue(read[k].kind, a, m.values[read[k].name])
    <3>1. field.name # "" /\ field.kind # "rest" /\ kind # "magic"
      BY <1>7, <2>2, <2>7 DEF Kind
    <3>2. a = Decoded(kind, NextBytes(v, N), order)
      BY <1>9, <1>12, <2>2, <3>1 DEF FieldValue
    <3> QED
      BY <1>7, <2>2, <2>5, <2>7, <3>1, <3>2
  <2> QED
    BY <1>15, <2>5, <2>6, <2>7
<1>17. CASE Measured(m) /\ k = 3
  <2>1. Len(read) = 3 /\ read[3].kind = "rest" /\ read[3].name = "MTU"
    BY <1>1, <1>17, RequestIs DEF Measured
  <2>2. N = 0
    BY <1>7, <1>12, <1>17, <2>1 DEF Width
  <2>3. read[k].name \notin DOMAIN m.values
    BY <1>2, <1>17, <2>1, MTUIsNew
  <2> QED
    BY <1>4, <1>15, <1>17, <2>1, <2>2, <2>3
<1> QED
  BY <1>14, <1>16, <1>17

LEMMA FieldsNoticed ==
  ASSUME NEW m \in Message, ~IsDatagram(m), ~Measured(m), NEW w, NEW f, FieldPlaces(m, w, f),
         NEW s, Came(s, w), NEW g, FieldsOK(m, f, s, g), Len(g) = Len(LayoutOf(m.name).read)
  PROVE  ~(s.size < Len(w))
<1>1. PICK n \in Nat : n = Len(LayoutOf(m.name).put) /\ n # 0 /\ n = Len(g)
  BY IsSeqLen DEF FieldPlaces
<1>2. s.position = f[n + 1] /\ s.position <= s.size
  BY <1>1 DEF FieldsOK
<1>3. f[n + 1] = Len(w) /\ Len(w) \in Nat
  BY <1>1 DEF FieldPlaces
<1>4. s.size \in Nat
  BY CameIs
<1> QED
  BY <1>2, <1>3, <1>4

-----------------------------------------------------------------------------
(* What was read of a simple packet *)

FieldsRead ==
  phase # "put" /\ ~IsDatagram(message) =>
    /\ FieldsOK(message, Offsets(written, Pieces(message)), stream, got)
    /\ phase = "done" => Len(got) = Len(LayoutOf(message.name).read)

LEMMA ReadFieldKeeps ==
  ASSUME TypeInv, Arrived, FieldsRead, ReadField
  PROVE  Came(stream', written) /\ FieldsRead'
<1>1. PICK m, w, s, f, g : /\ m = message /\ w = written /\ s = stream /\ g = got
                           /\ f = Offsets(written, Pieces(message))
  OBVIOUS
<1>2. phase = "read" /\ ~IsDatagram(m) /\ m \in Message /\ order \in ReadOrder
  BY <1>1 DEF ReadField, TypeInv
<1>3. Spells(w, Pieces(m)) /\ Came(s, w) /\ FieldsOK(m, f, s, g)
  BY <1>1, <1>2 DEF Arrived, FieldsRead
<1>4. FieldPlaces(m, w, f)
  BY <1>1, <1>2, <1>3, FieldPlacesAre
<1>5. PICK read, left : /\ read = LayoutOf(m.name).read
                        /\ left = SubSeq(read, Len(g) + 1, Len(read))
  OBVIOUS
<1>6. FieldsLeft = left
  BY <1>1, <1>5 DEF FieldsLeft
<1>7. IsSeq(read) /\ Len(g) \in Nat
  BY <1>3, <1>4, <1>5, IsSeqLen DEF FieldPlaces, FieldsOK
<1>8. left # <<>>
  BY <1>6 DEF ReadField
<1>9. Len(g) < Len(read) /\ Head(left) = read[Len(g) + 1]
  BY <1>5, <1>7, <1>8, LeftIs
<1>10. PICK field, v : field = read[Len(g) + 1] /\ v = Behind(s)
  OBVIOUS
<1>11. PICK h, t : h = got' /\ t = stream'
  OBVIOUS
<1>12. /\ Readable(field.kind, v) /\ h = Append(g, FieldValue(field, v))
       /\ t = Advance(v, Width(field.kind, v))
  BY <1>1, <1>6, <1>9, <1>10, <1>11 DEF ReadField
<1>13. Came(t, w) /\ FieldsOK(m, f, t, h)
  BY ONLY <1>2, <1>3, <1>4, <1>5, <1>9, <1>10, <1>12, FieldIs
<1>14. message' = m /\ written' = w /\ phase' = "read"
  BY <1>1, <1>2 DEF ReadField
<1>15. Offsets(written, Pieces(message))' = f
  BY <1>1, <1>14
<1> QED
  BY <1>1, <1>11, <1>13, <1>14, <1>15 DEF FieldsRead

-----------------------------------------------------------------------------
(* Reading, from the arrival on *)

\* What was read of the message that arrived.
ReadingInv == Arrived /\ DatagramRead /\ FieldsRead

LEMMA ArriveReads ==
  ASSUME TypeInv, PutInv, WritingInv, NEW n \in 1 .. stream.size, Arrive(n)
  PROVE  ReadingInv'
<1>1. Arrived' /\ stream'.position = 0 /\ got' = <<>>
  BY ArriveIs
<1>2. message' = message /\ written' = written /\ phase' = "read"
  BY DEF Arrive
<1>3. PICK f, s : f = Offsets(written, Pieces(message)) /\ s = stream'
  OBVIOUS
<1>4. Offsets(written, Pieces(message))' = f
  BY <1>2, <1>3
<1>5. IsSeq(<<>>) /\ Len(<<>>) = 0
  BY SmallIsSeq
<1>6. PacketsRead(message, f, s, <<>>)
  BY <1>1, <1>3, <1>5 DEF PacketsRead
<1>7. DatagramRead'
  BY <1>1, <1>2, <1>3, <1>4, <1>6 DEF DatagramRead
<1>8. ASSUME ~IsDatagram(message) PROVE FieldsOK(message, f, s, <<>>)
  <2>1. PICK m, read, k : m = message /\ read = LayoutOf(m.name).read /\ k = Len(read)
    OBVIOUS
  <2>2. k \in Nat /\ k # 0
    <3>1. SimpleOK(m)
      BY <1>8, <2>1, MessageAssumption DEF TypeInv
    <3> QED
      BY <2>1, <3>1, FieldsAre, IsSeqLen
  <2> QED
    BY <1>1, <1>3, <1>5, <2>1, <2>2 DEF FieldsOK
<1>9. FieldsRead'
  BY <1>1, <1>2, <1>3, <1>4, <1>8 DEF FieldsRead
<1> QED
  BY <1>1, <1>7, <1>9 DEF ReadingInv

LEMMA ReadEndsKeeps ==
  ASSUME TypeInv, ReadingInv, ReadEnds
  PROVE  ReadingInv'
<1>1. /\ phase = "read" /\ phase' = "done" /\ message' = message /\ written' = written
      /\ stream' = stream /\ got' = got /\ cut' = cut
      /\ IF IsDatagram(message) THEN got # <<>> /\ Feof(stream) ELSE FieldsLeft = <<>>
  BY DEF ReadEnds
<1>2. Arrived'
  BY <1>1 DEF ReadingInv, Arrived
<1>3. DatagramRead'
  BY <1>1 DEF ReadingInv, DatagramRead
<1>4. ASSUME ~IsDatagram(message) PROVE Len(got) = Len(LayoutOf(message.name).read)
  <2>1. PICK m, g, read : m = message /\ g = got /\ read = LayoutOf(m.name).read
    OBVIOUS
  <2>2. FieldsOK(m, Offsets(written, Pieces(message)), stream, g)
    BY <1>1, <1>4, <2>1 DEF ReadingInv, FieldsRead
  <2>3. IsSeq(g) /\ Len(g) <= Len(read)
    BY <2>1, <2>2 DEF FieldsOK
  <2>4. IsSeq(read) /\ Len(read) \in Nat
    <3>1. SimpleOK(m)
      BY <1>4, <2>1, MessageAssumption DEF TypeInv
    <3> QED
      BY <2>1, <3>1, FieldsAre, IsSeqLen
  <2>5. Len(g) \in Nat
    BY <2>3, IsSeqLen
  <2>6. SubSeq(read, Len(g) + 1, Len(read)) = <<>>
    BY <1>1, <1>4, <2>1 DEF FieldsLeft
  <2>7. Len(read) <= Len(g)
    BY <2>4, <2>5, <2>6, LeftIs
  <2> QED
    BY <2>1, <2>3, <2>4, <2>5, <2>7
<1>5. FieldsRead'
  BY <1>1, <1>4 DEF ReadingInv, FieldsRead
<1> QED
  BY <1>2, <1>3, <1>5 DEF ReadingInv

\* Whatever was cut off, what is read is what was written.
LEMMA ReadingInvHolds == Spec => []ReadingInv
<1>1. Init => ReadingInv
  BY DEF Init, ReadingInv, Arrived, DatagramRead, FieldsRead
<1>2. TypeInv /\ PutInv /\ WritingInv /\ ReadingInv /\ [Next]_vars => ReadingInv'
  <2> SUFFICES ASSUME TypeInv, PutInv, WritingInv, ReadingInv, [Next]_vars
               PROVE  ReadingInv'
    OBVIOUS
  <2>1. CASE PutNext
    BY <2>1 DEF PutNext, ReadingInv, Arrived, DatagramRead, FieldsRead
  <2>2. ASSUME NEW n \in 1 .. stream.size, Arrive(n) PROVE ReadingInv'
    BY <2>2, ArriveReads
  <2>3. ASSUME ReadField \/ ReadNumber \/ ReadPacket, Came(stream', written)
        PROVE  Arrived'
    <3>1. PICK t : t = stream' /\ t.size = stream.size
      <4>1. PICK s : s = stream
        OBVIOUS
      <4>2. \A v, k : Advance(v, k).size = v.size
        BY DEF Advance
      <4>3. Behind(s).size = s.size
        BY <4>2 DEF Behind
      <4> QED
        BY <2>3, <4>1, <4>2, <4>3 DEF ReadField, ReadNumber, ReadPacket
    <3>2. /\ phase = "read" /\ message' = message /\ written' = written /\ cut' = cut
      BY <2>3 DEF ReadField, ReadNumber, ReadPacket
    <3> QED
      BY <2>3, <3>1, <3>2 DEF ReadingInv, Arrived
  <2>4. CASE ReadField
    <3>1. Came(stream', written) /\ FieldsRead'
      BY <2>4, ReadFieldKeeps DEF ReadingInv
    <3>2. DatagramRead'
      BY <2>4 DEF ReadField, DatagramRead
    <3> QED
      BY <2>3, <2>4, <3>1, <3>2 DEF ReadingInv
  <2>5. CASE ReadNumber
    <3>1. Came(stream', written) /\ DatagramRead'
      BY <2>5, ReadNumberKeeps DEF ReadingInv
    <3>2. FieldsRead'
      BY <2>5 DEF ReadNumber, FieldsRead
    <3> QED
      BY <2>3, <2>5, <3>1, <3>2 DEF ReadingInv
  <2>6. CASE ReadPacket
    <3>1. Came(stream', written) /\ DatagramRead'
      BY <2>6, ReadPacketKeeps DEF ReadingInv
    <3>2. FieldsRead'
      BY <2>6 DEF ReadPacket, FieldsRead
    <3> QED
      BY <2>3, <2>6, <3>1, <3>2 DEF ReadingInv
  <2>7. CASE ReadEnds
    BY <2>7, ReadEndsKeeps
  <2>8. CASE ReadThrows
    BY <2>8 DEF ReadThrows, ReadingInv, Arrived, DatagramRead, FieldsRead
  <2>9. CASE UNCHANGED vars
    BY <2>9 DEF vars, ReadingInv, Arrived, DatagramRead, FieldsRead
  <2> QED
    BY <2>1, <2>2, <2>4, <2>5, <2>6, <2>7, <2>8, <2>9 DEF Next
<1> QED
  BY <1>1, <1>2, TypeInvHolds, PutInvHolds, WritingInvHolds, PTL DEF Spec

\* A field or an encapsulated packet that a receiver reads is the one that was put
\* at its place, in every order in which a build reads the bytes of an address,
\* up to the first part of a split packet, which decode does not know for one
\* (EncapsulatedPacket.h:26-54, PacketSerializer.cpp:25-34, Packet.h:23-26).
THEOREM FieldsAreAsSent == Spec => []ReadsAsSent
<1>1. TypeInv /\ PutInv /\ WritingInv /\ ReadingInv => ReadsAsSent
  <2> SUFFICES ASSUME TypeInv, WritingInv, ReadingInv PROVE ReadsAsSent
    OBVIOUS
  <2>1. CASE phase = "put"
    <3>1. got = <<>>
      BY <2>1 DEF WritingInv
    <3>2. Len(<<>>) = 0 /\ DOMAIN <<>> = {}
      OBVIOUS
    <3> QED
      BY <3>1, <3>2 DEF ReadsAsSent
  <2>2. CASE phase # "put" /\ IsDatagram(message)
    <3>1. PICK f : PacketsRead(message, f, stream, got)
      BY <2>2 DEF ReadingInv, DatagramRead
    <3> QED
      BY <2>2, <3>1, DatagramAsSent DEF ReadsAsSent
  <2>3. CASE phase # "put" /\ ~IsDatagram(message)
    <3>1. PICK f : FieldsOK(message, f, stream, got)
      BY <2>3 DEF ReadingInv, FieldsRead
    <3>2. /\ IsSeq(got)
          /\ \A k \in 1 .. Len(got) :
               LayoutOf(message.name).read[k].name \in DOMAIN message.values =>
                 SameValue(LayoutOf(message.name).read[k].kind, got[k],
                           message.values[LayoutOf(message.name).read[k].name])
      BY <3>1 DEF FieldsOK
    <3>3. DOMAIN got = 1 .. Len(got)
      BY <3>2, IsSeqLen
    <3> QED
      BY <2>3, <3>2, <3>3 DEF ReadsAsSent
  <2> QED
    BY <2>1, <2>2, <2>3
<1> QED
  BY <1>1, TypeInvHolds, PutInvHolds, WritingInvHolds, ReadingInvHolds, PTL

\* A simple packet that lacks its end is not read as a whole one, but for the
\* padding of the first request.  A datagram without parts of split packets is
\* read to its end if it is whole, and no packet is read that was not in it
\* (Datagram.h:16-23, BinaryStream.cpp:75-77).
THEOREM CutsAreNoticed == Spec => []CutNoticed
<1>1. TypeInv /\ ReadingInv => CutNoticed
  <2> SUFFICES ASSUME TypeInv, ReadingInv, phase = "done"
               PROVE  IF IsDatagram(message)
                      THEN \/ \E k \in DOMAIN message.packets : message.packets[k].hasSplit
                           \/ /\ IsWhole => Len(got) = Len(message.packets) + 1
                              /\ Len(got) <= Len(message.packets) + 1
                      ELSE IsWhole \/ message.name = "OpenConnectionRequest1"
    BY DEF CutNoticed
  <2>1. PICK m, w, f : /\ m = message /\ w = written
                       /\ f = Offsets(written, Pieces(message))
    OBVIOUS
  <2>2. /\ m \in Message /\ Spells(w, Pieces(m)) /\ Came(stream, w)
        /\ cut <=> stream.size < Len(w)
    BY <2>1 DEF TypeInv, ReadingInv, Arrived
  <2>3. CASE IsDatagram(m)
    <3>1. PacketsRead(m, f, stream, got) /\ got # <<>> /\ Feof(stream)
      BY <2>1, <2>3 DEF ReadingInv, DatagramRead
    <3>2. DatagramPlaces(m, w, f)
      BY <2>1, <2>2, <2>3, DatagramPlacesAre
    <3>3. ASSUME \A k \in DOMAIN m.packets : ~m.packets[k].hasSplit
          PROVE  /\ Len(got) <= Len(m.packets) + 1
                 /\ ~(stream.size < Len(w)) => Len(got) = Len(m.packets) + 1
      BY <2>2, <2>3, <3>1, <3>2, <3>3, DatagramNoticed
    <3> QED
      BY <2>1, <2>2, <2>3, <3>3 DEF IsWhole
  <2>4. CASE ~IsDatagram(m) /\ ~Measured(m)
    <3>1. FieldsOK(m, f, stream, got) /\ Len(got) = Len(LayoutOf(m.name).read)
      BY <2>1, <2>4 DEF ReadingInv, FieldsRead
    <3>2. FieldPlaces(m, w, f)
      BY <2>1, <2>2, <2>4, FieldPlacesAre
    <3>3. ~(stream.size < Len(w))
      BY <2>2, <2>4, <3>1, <3>2, FieldsNoticed
    <3> QED
      BY <2>1, <2>2, <2>4, <3>3 DEF IsWhole
  <2>5. CASE ~IsDatagram(m) /\ Measured(m)
    BY <2>1, <2>5 DEF Measured
  <2> QED
    BY <2>3, <2>4, <2>5
<1> QED
  BY <1>1, TypeInvHolds, ReadingInvHolds, PTL

=============================================================================
