------------------------ MODULE BufferAndWheelProofs ------------------------
(***************************************************************************)
(* Proofs about the two data structures of the network library, which share *)
(* nothing but this module.                                                 *)
(*                                                                         *)
(* MsgBuffer: each member function gets a lemma of the same shape: a buffer *)
(* that satisfies IsBuffer still does after the call, its content is the    *)
(* one the call promises, and its size is bounded.                          *)
(*                                                                         *)
(* TimingWheel: a reference lets go at a tick that its wheel, its slot and  *)
(* the turns so far determine; rotation and cascade do not change it, and   *)
(* the front slot of the second wheel holds what is due.                    *)
(***************************************************************************)
EXTENDS MsgBuffer, TimingWheel, SequenceTheorems, WellFoundedInduction, TLAPS

-----------------------------------------------------------------------------
(* MsgBuffer.                                                              *)

\* A function on 1..n is a sequence of length n.
LEMMA FunctionIsSeq ==
  ASSUME NEW S, NEW n \in Nat, NEW f \in [1..n -> S]
  PROVE  f \in Seq(S) /\ Len(f) = n
BY SeqDef

\* What one call brings (Append, ReadFd, ...) is a string of bytes, not empty.
LEMMA DataType == \A data \in Data : data \in Seq(Byte) /\ Len(data) \in 1..MaxData
BY LengthAssumption, FunctionIsSeq DEF Data

\* The numbers of a buffer, without its record and its sequence.
LEMMA Sizes ==
  ASSUME NEW b, IsBuffer(b)
  PROVE  /\ b.head \in Nat /\ b.tail \in Nat /\ b.initCap \in Nat /\ Size(b) \in Nat
         /\ b.mem \in Seq(Byte)
         /\ b.head <= b.tail /\ b.tail <= Size(b)
         /\ ReadableBytes(b) = b.tail - b.head /\ ReadableBytes(b) \in Nat
         /\ WritableBytes(b) = Size(b) - b.tail /\ WritableBytes(b) \in Nat
         /\ Size(b) = b.initCap + Offset /\ b.initCap >= Offset
BY LenProperties DEF IsBuffer, ReadableBytes, WritableBytes, Size

\* The readable bytes lie one behind the other between head_ and tail_.
LEMMA ContentType ==
  ASSUME NEW b, IsBuffer(b)
  PROVE  /\ Content(b) \in Seq(Byte)
         /\ Len(Content(b)) = ReadableBytes(b)
         /\ \A i \in 1..ReadableBytes(b), j \in Int :
              j = b.head + i => Content(b)[i] = b.mem[j]
<1>1. \A i \in (b.head + 1)..b.tail : b.mem[i] \in Byte
  BY Sizes, ElementOfSeq DEF Size
<1>2. b.head + 1 \in Int /\ b.tail \in Int
  BY Sizes
<1>3. /\ Content(b) \in Seq(Byte)
      /\ Len(Content(b)) = IF b.head + 1 <= b.tail THEN b.tail - (b.head + 1) + 1 ELSE 0
      /\ \A i \in 1..(b.tail - (b.head + 1) + 1) : Content(b)[i] = b.mem[b.head + 1 + i - 1]
  BY <1>1, <1>2, SubSeqProperties DEF Content
<1>4. Len(Content(b)) = ReadableBytes(b)
  BY <1>3, Sizes
<1>5. ASSUME NEW i \in 1..ReadableBytes(b), NEW j \in Int, j = b.head + i
      PROVE  Content(b)[i] = b.mem[j]
  <2>0. b.head \in Nat /\ b.tail \in Nat /\ ReadableBytes(b) = b.tail - b.head
    BY Sizes
  <2>1. i \in 1..(b.tail - (b.head + 1) + 1) /\ b.head + 1 + i - 1 = j
    BY <1>5, <2>0
  <2> QED BY <1>3, <2>1
<1> QED BY <1>3, <1>4, <1>5

\* The readable bytes are c if c is what lies between head_ and tail_.
LEMMA ContentIs ==
  ASSUME NEW b, IsBuffer(b), NEW c \in Seq(Byte), Len(c) = ReadableBytes(b),
         \A i \in 1..ReadableBytes(b), j \in Int : j = b.head + i => b.mem[j] = c[i]
  PROVE  Content(b) = c
<1>1. ASSUME NEW i \in 1..ReadableBytes(b)
      PROVE  Content(b)[i] = c[i]
  <2>1. \E j \in Int : j = b.head + i
    BY Sizes
  <2> QED BY <2>1, ContentType
<1> QED BY <1>1, ContentType, SeqEqual

\* Strings are joined in any order.
AnyOrder(s, t, u) == (s \o t) \o u = s \o (t \o u)

LEMMA Associates == \A s, t, u \in Seq(Byte) : AnyOrder(s, t, u)
BY ConcatAssociative DEF AnyOrder

\* Concatenation, position by position.
LEMMA ConcatAt ==
  ASSUME NEW s \in Seq(Byte), NEW t \in Seq(Byte)
  PROVE  /\ s \o t \in Seq(Byte)
         /\ Len(s \o t) = Len(s) + Len(t)
         /\ \A i \in 1..Len(s) : (s \o t)[i] = s[i]
         /\ \A i \in 1..(Len(s) + Len(t)), k \in Int :
              i > Len(s) /\ k = i - Len(s) => (s \o t)[i] = t[k]
<1>1. Len(s) \in Nat /\ Len(t) \in Nat
  BY LenProperties
<1>2. /\ s \o t \in Seq(Byte)
      /\ Len(s \o t) = Len(s) + Len(t)
      /\ \A i \in 1..(Len(s) + Len(t)) :
           (s \o t)[i] = IF i <= Len(s) THEN s[i] ELSE t[i - Len(s)]
  BY ConcatProperties
<1> QED BY <1>1, <1>2

\* The constructor gives an empty buffer with len writable bytes.
LEMMA FreshBuffer ==
  ASSUME NEW len \in Nat, len >= Offset
  PROVE  /\ IsBuffer(MsgBuffer(len))
         /\ Content(MsgBuffer(len)) = <<>>
         /\ WritableBytes(MsgBuffer(len)) = len
         /\ Size(MsgBuffer(len)) = len + Offset
<1> DEFINE m == [i \in 1..(len + Offset) |-> Zero]
<1>1. m \in Seq(Byte) /\ Len(m) = len + Offset
  <2>1. m \in [1..(len + Offset) -> Byte]
    BY ByteAssumption
  <2> HIDE DEF m
  <2> QED BY <2>1, FunctionIsSeq, LengthAssumption
<1>2. MsgBuffer(len) = Buffer(Offset, Offset, len, m)
  BY DEF MsgBuffer
<1> HIDE DEF m
<1> DEFINE b == MsgBuffer(len)
<1> HIDE DEF b
<1>3. b = Buffer(Offset, Offset, len, m)
  BY <1>2 DEF b
<1>4. b.head = Offset /\ b.tail = Offset /\ b.initCap = len /\ b.mem = m
  BY <1>3 DEF Buffer
<1>5. b \in [head : Nat, tail : Nat, initCap : Nat, mem : Seq(Byte)]
  BY <1>1, <1>3, LengthAssumption DEF Buffer
<1>6. Size(b) = len + Offset
  BY <1>1, <1>4 DEF Size
<1>7. IsBuffer(b)
  BY <1>4, <1>5, <1>6, LengthAssumption DEF IsBuffer
<1>8. Content(b) = <<>>
  BY <1>4, LengthAssumption, SubSeqEmpty DEF Content
<1>9. WritableBytes(b) = len
  BY <1>4, <1>6, LengthAssumption DEF WritableBytes
<1> QED BY <1>6, <1>7, <1>8, <1>9 DEF b

\* memcpy into buffer_ does not change its length.
LEMMA CopiedType ==
  ASSUME NEW b, IsBuffer(b), NEW at \in Nat, NEW data \in Seq(Byte)
  PROVE  /\ Copied(b, at, data) \in Seq(Byte)
         /\ Len(Copied(b, at, data)) = Size(b)
<1>1. \A i \in 1..Size(b) : b.mem[i] \in Byte
  BY Sizes, ElementOfSeq DEF Size
<1>2. \A i \in 1..Size(b) : (at < i /\ i <= at + Len(data)) => data[i - at] \in Byte
  BY Sizes, ElementOfSeq, LenProperties
<1>3. Copied(b, at, data) \in [1..Size(b) -> Byte]
  BY <1>1, <1>2 DEF Copied
<1> QED BY <1>3, Sizes, FunctionIsSeq

\* memcpy changes the bytes it covers and no other.
LEMMA CopiedAt ==
  ASSUME NEW b, NEW at, NEW data
  PROVE  /\ \A i \in 1..Size(b), k \in Int :
              at < i /\ i <= at + Len(data) /\ k = i - at => Copied(b, at, data)[i] = data[k]
         /\ \A i \in 1..Size(b) :
              ~(at < i /\ i <= at + Len(data)) => Copied(b, at, data)[i] = b.mem[i]
BY DEF Copied

\* What is copied at tail_ is read behind what was there.
LEMMA WrittenIsBehind ==
  ASSUME NEW b, IsBuffer(b), NEW data \in Seq(Byte), Len(data) <= WritableBytes(b)
  PROVE  /\ IsBuffer(Written(b, data))
         /\ Content(Written(b, data)) = Content(b) \o data
         /\ Size(Written(b, data)) = Size(b)
         /\ WritableBytes(Written(b, data)) = WritableBytes(b) - Len(data)
         /\ ReadableBytes(Written(b, data)) = ReadableBytes(b) + Len(data)
<1> DEFINE w == Written(b, data)
           m == Copied(b, b.tail, data)
           n == Len(data)
<1>1. /\ b.head \in Nat /\ b.tail \in Nat /\ b.initCap \in Nat /\ Size(b) \in Nat
      /\ b.head <= b.tail /\ b.tail <= Size(b)
      /\ ReadableBytes(b) = b.tail - b.head
      /\ WritableBytes(b) = Size(b) - b.tail
      /\ Size(b) = b.initCap + Offset /\ b.initCap >= Offset
  BY Sizes
<1>2. n \in Nat /\ n <= Size(b) - b.tail
  BY <1>1, LenProperties
<1>3. /\ m \in Seq(Byte) /\ Len(m) = Size(b)
      /\ \A i \in 1..Size(b), k \in Int :
           b.tail < i /\ i <= b.tail + n /\ k = i - b.tail => m[i] = data[k]
      /\ \A i \in 1..Size(b) : ~(b.tail < i /\ i <= b.tail + n) => m[i] = b.mem[i]
  BY <1>1, CopiedType, CopiedAt
<1>4. w = Buffer(b.head, b.tail + n, b.initCap, m)
  BY DEF Written
<1> HIDE DEF w, m, n
<1>5. /\ IsBuffer(w)
      /\ w.head = b.head /\ w.tail = b.tail + n /\ w.mem = m
      /\ Size(w) = Size(b)
      /\ ReadableBytes(w) = ReadableBytes(b) + n
      /\ WritableBytes(w) = WritableBytes(b) - n
  <2>0. m \in Seq(Byte) /\ Len(m) = Size(b)
    BY <1>3
  <2>1. b.tail + n \in Nat /\ b.head <= b.tail + n /\ b.tail + n <= Len(m)
    BY <1>1, <1>2, <2>0
  <2>2. /\ w.head = b.head /\ w.tail = b.tail + n /\ w.initCap = b.initCap /\ w.mem = m
    BY <1>4 DEF Buffer
  <2>3. w \in [head : Nat, tail : Nat, initCap : Nat, mem : Seq(Byte)]
    BY <1>1, <1>4, <2>0, <2>1 DEF Buffer
  <2>4. Size(w) = Size(b)
    BY <2>0, <2>2 DEF Size
  <2>5. IsBuffer(w)
    <3>1. w.head <= w.tail /\ w.tail <= Size(w) /\ Size(w) = w.initCap + Offset /\ w.initCap >= Offset
      BY <1>1, <2>0, <2>1, <2>2, <2>4
    <3> QED BY <2>3, <3>1 DEF IsBuffer
  <2> QED BY <1>1, <1>2, <2>2, <2>4, <2>5 DEF ReadableBytes, WritableBytes
<1>6. /\ Content(b) \o data \in Seq(Byte)
      /\ Len(Content(b) \o data) = ReadableBytes(b) + n
      /\ \A i \in 1..ReadableBytes(b) : (Content(b) \o data)[i] = Content(b)[i]
      /\ \A i \in 1..(ReadableBytes(b) + n), k \in Int :
           i > ReadableBytes(b) /\ k = i - ReadableBytes(b) => (Content(b) \o data)[i] = data[k]
  <2>1. /\ Content(b) \in Seq(Byte) /\ Len(Content(b)) = ReadableBytes(b)
    BY ContentType
  <2>2. /\ Content(b) \o data \in Seq(Byte)
        /\ Len(Content(b) \o data) = Len(Content(b)) + Len(data)
        /\ \A i \in 1..Len(Content(b)) : (Content(b) \o data)[i] = Content(b)[i]
        /\ \A i \in 1..(Len(Content(b)) + Len(data)), k \in Int :
             i > Len(Content(b)) /\ k = i - Len(Content(b)) => (Content(b) \o data)[i] = data[k]
    BY <2>1, ConcatAt
  <2> QED BY <2>1, <2>2 DEF n
<1>7. ASSUME NEW i \in 1..(ReadableBytes(b) + n), NEW j \in Int, j = b.head + i
      PROVE  m[j] = (Content(b) \o data)[i]
  <2>1. j \in 1..Size(b)
    BY SMTT(20), <1>1, <1>2, <1>7
  <2>2. CASE i <= ReadableBytes(b)
    <3>1. ~(b.tail < j) /\ i \in 1..ReadableBytes(b)
      BY <1>1, <1>7, <2>2
    <3> QED BY <3>1, <1>3, <1>6, <1>7, <2>1, ContentType
  <2>3. CASE ~(i <= ReadableBytes(b))
    <3>1. PICK k \in Int : k = j - b.tail
      BY <1>1
    <3>2. /\ b.head \in Nat /\ b.tail \in Nat /\ n \in Nat
          /\ ReadableBytes(b) = b.tail - b.head
      BY <1>1, <1>2
    <3>3. i \in Int /\ i > ReadableBytes(b) /\ i <= ReadableBytes(b) + n
      BY <1>7, <2>3, <3>2
    <3>4. b.tail < j /\ j <= b.tail + n
      BY <1>7, <3>2, <3>3
    <3>5. k = i - ReadableBytes(b)
      BY <1>7, <3>1, <3>2, <3>3
    <3> QED BY <3>1, <3>3, <3>4, <3>5, <1>3, <1>6, <2>1
  <2> QED BY <2>2, <2>3
<1>8. Content(w) = Content(b) \o data
  <2>1. \A i \in 1..ReadableBytes(w), j \in Int :
          j = w.head + i => w.mem[j] = (Content(b) \o data)[i]
    BY <1>5, <1>7
  <2> QED BY <1>5, <1>6, <2>1, ContentIs
<1> QED BY <1>5, <1>8 DEF w, n

\* The move happens only towards the front, so std::copy overwrites no char it
\* still has to read.
LEMMA MovedToFront ==
  ASSUME NEW b, IsBuffer(b), NEW len \in Nat,
         WritableBytes(b) < len, b.head + WritableBytes(b) >= len + Offset
  PROVE  /\ IsBuffer(MoveToFront(b))
         /\ Content(MoveToFront(b)) = Content(b)
         /\ Size(MoveToFront(b)) = Size(b)
         /\ WritableBytes(MoveToFront(b)) >= len
         /\ Offset < b.head
<1> DEFINE w == MoveToFront(b)
           m == Copied(b, Offset, Content(b))
           n == ReadableBytes(b)
<1>1. /\ b.head \in Nat /\ b.tail \in Nat /\ b.initCap \in Nat /\ Size(b) \in Nat
      /\ b.head <= b.tail /\ b.tail <= Size(b)
      /\ n = b.tail - b.head /\ n \in Nat
      /\ WritableBytes(b) = Size(b) - b.tail
      /\ Size(b) = b.initCap + Offset /\ b.initCap >= Offset
      /\ Offset \in Nat
  BY Sizes, LengthAssumption
<1>2. Offset < b.head
  BY <1>1
<1>3. /\ Content(b) \in Seq(Byte) /\ Len(Content(b)) = n
      /\ m \in Seq(Byte) /\ Len(m) = Size(b)
      /\ \A i \in 1..Size(b), k \in Int :
           Offset < i /\ i <= Offset + n /\ k = i - Offset => m[i] = Content(b)[k]
  <2>1. Content(b) \in Seq(Byte) /\ Len(Content(b)) = n
    BY ContentType
  <2>2. /\ m \in Seq(Byte) /\ Len(m) = Size(b)
        /\ \A i \in 1..Size(b), k \in Int :
             Offset < i /\ i <= Offset + Len(Content(b)) /\ k = i - Offset => m[i] = Content(b)[k]
    <3>1. m \in Seq(Byte) /\ Len(m) = Size(b)
      BY <1>1, <2>1, CopiedType
    <3> QED BY <3>1, CopiedAt
  <2> HIDE DEF m, n
  <2> QED BY <2>1, <2>2
<1>4. w = Buffer(Offset, Offset + n, b.initCap, m)
  BY DEF MoveToFront
<1> HIDE DEF w, m, n
<1>5. w.head = Offset /\ w.tail = Offset + n /\ w.initCap = b.initCap /\ w.mem = m
  BY <1>4 DEF Buffer
<1>6. w \in [head : Nat, tail : Nat, initCap : Nat, mem : Seq(Byte)]
  <2>1. Offset \in Nat /\ Offset + n \in Nat /\ b.initCap \in Nat
    BY <1>1
  <2>2. m \in Seq(Byte)
    BY <1>3
  <2> QED BY <1>4, <2>1, <2>2 DEF Buffer
<1>7. Size(w) = Size(b)
  BY <1>3, <1>5 DEF Size
<1>8. IsBuffer(w)
  <2>1. w.head <= w.tail /\ w.tail <= Size(w)
    BY <1>1, <1>2, <1>5, <1>7
  <2>2. Size(w) = w.initCap + Offset /\ w.initCap >= Offset
    BY <1>1, <1>5, <1>7
  <2> QED BY <1>6, <2>1, <2>2 DEF IsBuffer
<1>9. ReadableBytes(w) = n /\ WritableBytes(w) >= len
  <2>1. ReadableBytes(w) = w.tail - w.head /\ WritableBytes(w) = Size(w) - w.tail
    BY DEF ReadableBytes, WritableBytes
  <2> QED BY <1>1, <1>5, <1>7, <2>1
<1>10. ASSUME NEW i \in 1..n, NEW j \in Int, j = Offset + i
       PROVE  m[j] = Content(b)[i]
  <2>1. /\ Offset \in Nat /\ n \in Nat /\ Size(b) \in Nat
        /\ Offset + n <= Size(b)
    BY <1>1, <1>2
  <2>2. Offset < j /\ j <= Offset + n /\ i = j - Offset
    BY SMTT(60), <1>10, <2>1
  <2>3. j \in 1..Size(b)
    BY SMTT(60), <1>10, <2>1, <2>2
  <2> QED BY SMTT(60), <2>2, <2>3, <1>3
<1>11. Content(w) = Content(b)
  <2>1. \A i \in 1..ReadableBytes(w), j \in Int : j = w.head + i => w.mem[j] = Content(b)[i]
    BY <1>5, <1>9, <1>10
  <2> QED BY <1>3, <1>8, <1>9, <2>1, ContentIs
<1> QED BY <1>2, <1>7, <1>8, <1>9, <1>11 DEF w

\* EnsureWritableBytes makes room, keeps the content, and grows the vector only
\* when it is short of bytes, to twice what is needed at most.
LEMMA Ensured ==
  ASSUME NEW b, IsBuffer(b), NEW len \in Nat
  PROVE  /\ IsBuffer(EnsureWritableBytes(b, len))
         /\ Content(EnsureWritableBytes(b, len)) = Content(b)
         /\ ReadableBytes(EnsureWritableBytes(b, len)) = ReadableBytes(b)
         /\ WritableBytes(EnsureWritableBytes(b, len)) >= len
         /\ Size(EnsureWritableBytes(b, len)) >= Size(b)
         /\ \/ Size(EnsureWritableBytes(b, len)) = Size(b)
            \/ Size(EnsureWritableBytes(b, len))
                 <= 2 * (ReadableBytes(b) + len + Offset) + Offset
<1> DEFINE e == EnsureWritableBytes(b, len)
<1>1. /\ ReadableBytes(b) = b.tail - b.head /\ ReadableBytes(b) \in Nat
      /\ WritableBytes(b) = Size(b) - b.tail /\ WritableBytes(b) \in Nat
      /\ b.head \in Nat /\ b.tail \in Nat /\ Size(b) \in Nat
      /\ b.head <= b.tail /\ b.tail <= Size(b)
      /\ Size(b) = b.initCap + Offset /\ b.initCap \in Nat /\ b.initCap >= Offset
      /\ Offset \in Nat
  BY Sizes, LengthAssumption
<1>2. CASE WritableBytes(b) >= len
  <2>1. e = b
    BY <1>2 DEF EnsureWritableBytes
  <2> HIDE DEF e
  <2> QED BY <1>1, <1>2, <2>1 DEF e
<1>3. CASE WritableBytes(b) < len /\ b.head + WritableBytes(b) >= len + Offset
  <2>1. e = MoveToFront(b)
    BY <1>1, <1>3 DEF EnsureWritableBytes
  <2>2. /\ IsBuffer(e) /\ Content(e) = Content(b)
        /\ Size(e) = Size(b) /\ WritableBytes(e) >= len
    BY <1>3, <2>1, MovedToFront
  <2> HIDE DEF e
  <2>3. ReadableBytes(e) = ReadableBytes(b)
    BY <2>2, ContentType
  <2> QED BY <1>1, <2>2, <2>3 DEF e
<1>4. CASE WritableBytes(b) < len /\ ~(b.head + WritableBytes(b) >= len + Offset)
  <2> DEFINE new == GrownLength(b, len)
             f == MsgBuffer(new)
  <2>1. e = Written(f, Content(b))
    BY <1>1, <1>4 DEF EnsureWritableBytes
  <2>2. /\ new \in Nat /\ new >= Offset
        /\ new >= ReadableBytes(b) + len
        /\ new + Offset >= Size(b)
        /\ new <= 2 * (ReadableBytes(b) + len + Offset)
    BY <1>1, <1>4 DEF GrownLength
  <2> HIDE DEF new
  <2>3. IsBuffer(f) /\ Content(f) = <<>> /\ WritableBytes(f) = new /\ Size(f) = new + Offset
    BY <2>2, FreshBuffer
  <2>4. Content(b) \in Seq(Byte) /\ Len(Content(b)) = ReadableBytes(b)
    BY ContentType
  <2> HIDE DEF f, e
  <2>5. Len(Content(b)) <= WritableBytes(f)
    BY <1>1, <2>2, <2>3, <2>4
  <2>6. /\ IsBuffer(e) /\ Content(e) = Content(f) \o Content(b)
        /\ Size(e) = Size(f) /\ WritableBytes(e) = WritableBytes(f) - Len(Content(b))
    BY <2>1, <2>3, <2>4, <2>5, WrittenIsBehind
  <2>7. Content(e) = Content(b)
    BY <2>3, <2>4, <2>6, ConcatEmptySeq
  <2>8. ReadableBytes(e) = ReadableBytes(b)
    BY <2>6, <2>7, ContentType
  <2>9. WritableBytes(e) >= len /\ Size(e) >= Size(b)
    BY <1>1, <2>2, <2>3, <2>4, <2>6
  <2>10. Size(e) <= 2 * (ReadableBytes(b) + len + Offset) + Offset
    BY <1>1, <2>2, <2>3, <2>6
  <2> QED BY <2>6, <2>7, <2>8, <2>9, <2>10 DEF e
<1> QED BY <1>1, <1>2, <1>3, <1>4

\* Append makes room and adds its bytes behind; a buffer that grows holds at
\* most twice what it needs.
LEMMA AppendIsBehind ==
  ASSUME NEW b, IsBuffer(b), NEW data \in Seq(Byte)
  PROVE  /\ IsBuffer(AppendData(b, data))
         /\ Content(AppendData(b, data)) = Content(b) \o data
         /\ ReadableBytes(AppendData(b, data)) = ReadableBytes(b) + Len(data)
         /\ Size(AppendData(b, data)) >= Size(b)
         /\ \/ Size(AppendData(b, data)) = Size(b)
            \/ Size(AppendData(b, data))
                 <= 2 * (ReadableBytes(b) + Len(data) + Offset) + Offset
<1> DEFINE e == EnsureWritableBytes(b, Len(data))
<1>1. Len(data) \in Nat
  BY LenProperties
<1>2. /\ IsBuffer(e) /\ Content(e) = Content(b) /\ ReadableBytes(e) = ReadableBytes(b)
      /\ WritableBytes(e) >= Len(data) /\ Size(e) >= Size(b)
      /\ \/ Size(e) = Size(b)
         \/ Size(e) <= 2 * (ReadableBytes(b) + Len(data) + Offset) + Offset
  BY <1>1, Ensured
<1>3. AppendData(b, data) = Written(e, data)
  BY DEF AppendData
<1> HIDE DEF e
<1>4. Len(data) <= WritableBytes(e)
  BY <1>1, <1>2, Sizes
<1>5. /\ IsBuffer(Written(e, data))
      /\ Content(Written(e, data)) = Content(e) \o data
      /\ Size(Written(e, data)) = Size(e)
      /\ ReadableBytes(Written(e, data)) = ReadableBytes(e) + Len(data)
  BY <1>2, <1>4, WrittenIsBehind
<1> QED BY <1>2, <1>3, <1>5

\* The resize of RetrieveAll never happens: the vector is never longer than
\* twice initCap_, because initCap_ is set anew whenever it grows.
LEMMA AllRetrieved ==
  ASSUME NEW b, IsBuffer(b)
  PROVE  /\ IsBuffer(RetrieveAll(b))
         /\ Content(RetrieveAll(b)) = <<>>
         /\ Size(RetrieveAll(b)) = Size(b)
<1> DEFINE w == RetrieveAll(b)
<1>1. /\ b.initCap \in Nat /\ Size(b) = b.initCap + Offset /\ b.initCap >= Offset
      /\ Offset \in Nat /\ b.mem \in Seq(Byte)
  BY Sizes, LengthAssumption
<1>2. ~(Size(b) > b.initCap * 2)
  BY <1>1
<1>3. w = Buffer(Offset, Offset, b.initCap, b.mem)
  BY <1>2 DEF RetrieveAll
<1> HIDE DEF w
<1>4. w.head = Offset /\ w.tail = Offset /\ w.initCap = b.initCap /\ w.mem = b.mem
  BY <1>3 DEF Buffer
<1>5. w \in [head : Nat, tail : Nat, initCap : Nat, mem : Seq(Byte)]
  BY <1>1, <1>3 DEF Buffer
<1>6. Size(w) = Size(b)
  BY <1>4 DEF Size
<1>7. IsBuffer(w)
  BY <1>1, <1>4, <1>5, <1>6 DEF IsBuffer
<1>8. Content(w) = <<>>
  BY <1>1, <1>4, SubSeqEmpty DEF Content
<1> QED BY <1>6, <1>7, <1>8 DEF w

\* Retrieve takes len bytes ahead, or all there are.
LEMMA RetrieveTakesAhead ==
  ASSUME NEW b, IsBuffer(b), NEW len \in Nat
  PROVE  /\ IsBuffer(Retrieve(b, len))
         /\ Content(Retrieve(b, len)) = SubSeq(Content(b), len + 1, Len(Content(b)))
         /\ Size(Retrieve(b, len)) = Size(b)
<1> DEFINE w == Retrieve(b, len)
           c == Content(b)
<1>1. /\ b.head \in Nat /\ b.tail \in Nat /\ b.initCap \in Nat /\ Size(b) \in Nat
      /\ b.head <= b.tail /\ b.tail <= Size(b) /\ b.mem \in Seq(Byte)
      /\ ReadableBytes(b) = b.tail - b.head
      /\ Size(b) = b.initCap + Offset /\ b.initCap >= Offset
      /\ Offset \in Nat
  BY Sizes, LengthAssumption
<1>2. c \in Seq(Byte) /\ Len(c) = ReadableBytes(b)
  BY ContentType
<1>3. CASE len >= ReadableBytes(b)
  <2>1. w = RetrieveAll(b)
    BY <1>3 DEF Retrieve
  <2> HIDE DEF w, c
  <2>2. SubSeq(c, len + 1, Len(c)) = <<>>
    BY <1>1, <1>2, <1>3, SubSeqEmpty
  <2> QED BY <2>1, <2>2, AllRetrieved DEF w, c
<1>4. CASE ~(len >= ReadableBytes(b))
  <2>1. w = Buffer(b.head + len, b.tail, b.initCap, b.mem)
    BY <1>4 DEF Retrieve
  <2> HIDE DEF w, c
  <2>2. w.head = b.head + len /\ w.tail = b.tail /\ w.initCap = b.initCap /\ w.mem = b.mem
    BY <2>1 DEF Buffer
  <2>3. w \in [head : Nat, tail : Nat, initCap : Nat, mem : Seq(Byte)]
    BY <1>1, <2>1 DEF Buffer
  <2>4. Size(w) = Size(b)
    BY <2>2 DEF Size
  <2>5. IsBuffer(w) /\ ReadableBytes(w) = ReadableBytes(b) - len
    BY <1>1, <1>4, <2>2, <2>3, <2>4 DEF IsBuffer, ReadableBytes
  <2> DEFINE d == SubSeq(c, len + 1, Len(c))
  <2>6. /\ d \in Seq(Byte) /\ Len(d) = ReadableBytes(w)
        /\ \A i \in 1..ReadableBytes(w), k \in Int : k = len + i => d[i] = c[k]
    <3>1. \A i \in (len + 1)..Len(c) : c[i] \in Byte
      BY <1>2, ElementOfSeq
    <3>2. len + 1 \in Int /\ Len(c) \in Int
      BY <1>1, <1>2
    <3>3. /\ d \in Seq(Byte)
          /\ Len(d) = IF len + 1 <= Len(c) THEN Len(c) - (len + 1) + 1 ELSE 0
          /\ \A i \in 1..(Len(c) - (len + 1) + 1) : d[i] = c[len + 1 + i - 1]
      BY <3>1, <3>2, SubSeqProperties
    <3> HIDE DEF d
    <3>4. Len(d) = ReadableBytes(w)
      BY <1>1, <1>2, <1>4, <2>5, <3>3
    <3>5. ASSUME NEW i \in 1..ReadableBytes(w), NEW k \in Int, k = len + i
          PROVE  d[i] = c[k]
      <4>1. i \in 1..(Len(c) - (len + 1) + 1) /\ len + 1 + i - 1 = k
        BY <1>1, <1>2, <2>5, <3>5
      <4> QED BY <3>3, <4>1
    <3> QED BY <3>3, <3>4, <3>5
  <2> HIDE DEF d
  <2>7. ASSUME NEW i \in 1..ReadableBytes(w), NEW j \in Int, j = w.head + i
        PROVE  w.mem[j] = d[i]
    <3>1. PICK k \in Int : k = len + i
      OBVIOUS
    <3>2. k \in 1..ReadableBytes(b) /\ j = b.head + k
      BY <1>1, <1>4, <2>2, <2>5, <2>7, <3>1
    <3>3. c[k] = b.mem[j]
      BY <3>2, ContentType DEF c
    <3> QED BY <2>2, <2>6, <3>1, <3>3
  <2>8. Content(w) = d
    BY <2>5, <2>6, <2>7, ContentIs
  <2> QED BY <2>4, <2>5, <2>8 DEF w, c, d
<1> QED BY <1>3, <1>4

\* Unwrite takes the last len bytes.
LEMMA UnwriteTakesBehind ==
  ASSUME NEW b, IsBuffer(b), NEW len \in Nat, len <= ReadableBytes(b)
  PROVE  /\ IsBuffer(Unwrite(b, len))
         /\ Content(Unwrite(b, len)) = SubSeq(Content(b), 1, Len(Content(b)) - len)
         /\ Size(Unwrite(b, len)) = Size(b)
<1> DEFINE w == Unwrite(b, len)
           c == Content(b)
           n == Len(c) - len
           d == SubSeq(c, 1, n)
<1>1. /\ b.head \in Nat /\ b.tail \in Nat /\ b.initCap \in Nat /\ Size(b) \in Nat
      /\ b.head <= b.tail /\ b.tail <= Size(b) /\ b.mem \in Seq(Byte)
      /\ ReadableBytes(b) = b.tail - b.head
      /\ Size(b) = b.initCap + Offset /\ b.initCap >= Offset
  BY Sizes
<1>2. c \in Seq(Byte) /\ Len(c) = ReadableBytes(b)
  BY ContentType
<1>3. w = Buffer(b.head, b.tail - len, b.initCap, b.mem)
  BY DEF Unwrite
<1> HIDE DEF w, c
<1>4. w.head = b.head /\ w.tail = b.tail - len /\ w.initCap = b.initCap /\ w.mem = b.mem
  BY <1>3 DEF Buffer
<1>5. b.tail - len \in Nat
  BY <1>1
<1>6. w \in [head : Nat, tail : Nat, initCap : Nat, mem : Seq(Byte)]
  BY <1>1, <1>3, <1>5 DEF Buffer
<1>7. Size(w) = Size(b)
  BY <1>4 DEF Size
<1>8. IsBuffer(w) /\ ReadableBytes(w) = ReadableBytes(b) - len
  BY <1>1, <1>4, <1>6, <1>7 DEF IsBuffer, ReadableBytes
<1>9. n \in Nat /\ n = ReadableBytes(w) /\ n <= Len(c)
  BY <1>1, <1>2, <1>8
<1>10. d \in Seq(Byte) /\ Len(d) = n /\ \A i \in 1..n : d[i] = c[i]
  <2>1. \A i \in 1..n : c[i] \in Byte
    BY <1>1, <1>2, <1>9, ElementOfSeq
  <2>2. 1 \in Int /\ n \in Int
    BY <1>9
  <2> HIDE DEF n
  <2>3. /\ d \in Seq(Byte)
        /\ Len(d) = IF 1 <= n THEN n - 1 + 1 ELSE 0
        /\ \A i \in 1..(n - 1 + 1) : d[i] = c[1 + i - 1]
    BY <2>1, <2>2, SubSeqProperties
  <2> HIDE DEF d
  <2>4. ASSUME NEW i \in 1..n
        PROVE  d[i] = c[i]
    <3>1. i \in 1..(n - 1 + 1) /\ 1 + i - 1 = i
      BY <1>9
    <3> QED BY <2>3, <3>1
  <2> QED BY <1>9, <2>3, <2>4
<1> HIDE DEF d, n
<1>11. ASSUME NEW i \in 1..ReadableBytes(w), NEW j \in Int, j = w.head + i
       PROVE  w.mem[j] = d[i]
  <2>1. i \in 1..ReadableBytes(b) /\ i \in 1..n /\ j = b.head + i
    BY <1>1, <1>2, <1>4, <1>9, <1>11
  <2> QED BY <1>4, <1>10, <2>1, ContentType DEF c
<1>12. Content(w) = d
  BY <1>8, <1>9, <1>10, <1>11, ContentIs
<1> QED BY <1>7, <1>8, <1>12 DEF w, c, d, n

\* ReadFd adds what readv read behind, the part in extBuffer included.
LEMMA ReadFdIsBehind ==
  ASSUME NEW b, IsBuffer(b), NEW data \in Seq(Byte)
  PROVE  /\ IsBuffer(ReadFd(b, data))
         /\ Content(ReadFd(b, data)) = Content(b) \o data
         /\ Size(ReadFd(b, data)) >= Size(b)
         /\ \/ Size(ReadFd(b, data)) = Size(b)
            \/ Size(ReadFd(b, data))
                 <= 2 * (ReadableBytes(b) + Len(data) + Offset) + Offset
<1> DEFINE room == WritableBytes(b)
           first == SubSeq(data, 1, room)
           rest == SubSeq(data, room + 1, Len(data))
           f == Written(b, first)
<1>1. /\ room \in Nat /\ Len(data) \in Nat /\ ReadableBytes(b) \in Nat
      /\ Size(b) \in Nat
  BY Sizes, LenProperties
<1>2. CASE Len(data) <= room
  <2>1. ReadFd(b, data) = Written(b, data)
    BY <1>2 DEF ReadFd
  <2> HIDE DEF first, rest, f
  <2>2. /\ IsBuffer(Written(b, data)) /\ Content(Written(b, data)) = Content(b) \o data
        /\ Size(Written(b, data)) = Size(b)
    BY <1>2, WrittenIsBehind
  <2> HIDE DEF room
  <2> QED BY <1>1, <2>1, <2>2
<1>3. CASE ~(Len(data) <= room)
  <2>1. ReadFd(b, data) = AppendData(f, rest)
    BY <1>3 DEF ReadFd
  <2> HIDE DEF room
  <2>2. /\ first \in Seq(Byte) /\ Len(first) = room
        /\ rest \in Seq(Byte) /\ Len(rest) = Len(data) - room
    <3>1. \A i \in 1..room : data[i] \in Byte
      BY <1>1, <1>3, ElementOfSeq
    <3>2. \A i \in (room + 1)..Len(data) : data[i] \in Byte
      BY <1>1, <1>3, ElementOfSeq
    <3>3. 1 \in Int /\ room \in Int /\ room + 1 \in Int /\ Len(data) \in Int
      BY <1>1
    <3>4. first \in Seq(Byte) /\ Len(first) = IF 1 <= room THEN room - 1 + 1 ELSE 0
      BY <3>1, <3>3, SubSeqProperties
    <3>5. /\ rest \in Seq(Byte)
          /\ Len(rest) = IF room + 1 <= Len(data) THEN Len(data) - (room + 1) + 1 ELSE 0
      BY <3>2, <3>3, SubSeqProperties
    <3> HIDE DEF first, rest
    <3> QED BY <1>1, <1>3, <3>4, <3>5
  <2>3. first \o rest = data
    <3>1. 1 \in 1..(Len(data) + 1) /\ room \in (1 - 1)..Len(data) /\ Len(data) \in room..Len(data)
      BY <1>1, <1>3
    <3> QED BY <3>1, ConcatAdjacentSubSeq, SubSeqFull
  <2> HIDE DEF first, rest, f
  <2>4. /\ IsBuffer(f) /\ Content(f) = Content(b) \o first /\ Size(f) = Size(b)
        /\ ReadableBytes(f) = ReadableBytes(b) + room
    <3>1. Len(first) <= WritableBytes(b)
      BY <1>1, <2>2 DEF room
    <3> QED BY <2>2, <3>1, WrittenIsBehind DEF f
  <2>5. /\ IsBuffer(AppendData(f, rest))
        /\ Content(AppendData(f, rest)) = Content(f) \o rest
        /\ Size(AppendData(f, rest)) >= Size(f)
        /\ \/ Size(AppendData(f, rest)) = Size(f)
           \/ Size(AppendData(f, rest)) <= 2 * (ReadableBytes(f) + Len(rest) + Offset) + Offset
    BY <2>2, <2>4, AppendIsBehind
  <2>6. Content(f) \o rest = Content(b) \o data
    <3>1. Content(b) \in Seq(Byte)
      BY ContentType
    <3>2. AnyOrder(Content(b), first, rest)
      BY <2>2, <3>1, Associates
    <3> QED BY Zenon, <2>3, <2>4, <3>2 DEF AnyOrder
  <2>7. ReadableBytes(f) + Len(rest) = ReadableBytes(b) + Len(data)
    BY SMTT(60), <1>1, <2>2, <2>4
  <2> QED BY SMTT(60), <2>1, <2>4, <2>5, <2>6, <2>7
<1> QED BY <1>2, <1>3

\* AddInFront, when the bytes fit in front of head_.
LEMMA InFrontIsAhead ==
  ASSUME NEW b, IsBuffer(b), NEW data \in Seq(Byte), b.head >= Len(data)
  PROVE  /\ IsBuffer(InFront(b, data))
         /\ Content(InFront(b, data)) = data \o Content(b)
         /\ Size(InFront(b, data)) = Size(b)
<1> DEFINE h == b.head
           t == b.tail
           z == Size(b)
           w == InFront(b, data)
           n == Len(data)
           m == Copied(b, h - n, data)
           c == Content(b)
           r == ReadableBytes(b)
<1>1. /\ h \in Nat /\ t \in Nat /\ z \in Nat
      /\ h <= t /\ t <= z
      /\ r = t - h /\ r \in Nat
  BY Sizes
<1>cap. b.initCap \in Nat /\ z = b.initCap + Offset /\ b.initCap >= Offset
  BY Sizes
<1>2. n \in Nat /\ h - n \in Nat /\ h >= n
  BY <1>1, LenProperties
<1>3. /\ m \in Seq(Byte) /\ Len(m) = z
      /\ \A i \in 1..z, k \in Int :
           h - n < i /\ i <= h - n + n /\ k = i - (h - n) => m[i] = data[k]
      /\ \A i \in 1..z : ~(h - n < i /\ i <= h - n + n) => m[i] = b.mem[i]
  BY <1>2, CopiedType, CopiedAt
<1>4. w = Buffer(h - n, t, b.initCap, m)
  BY DEF InFront
<1> HIDE DEF w, m, n, c, r, h, t, z
<1>5. w.head = h - n /\ w.tail = t /\ w.initCap = b.initCap /\ w.mem = m
  BY <1>4 DEF Buffer
<1>6. w \in [head : Nat, tail : Nat, initCap : Nat, mem : Seq(Byte)]
  BY <1>1, <1>cap, <1>2, <1>3, <1>4 DEF Buffer
<1>7. Size(w) = z
  BY <1>3, <1>5 DEF Size
<1>8. IsBuffer(w) /\ ReadableBytes(w) = n + r
  BY <1>1, <1>cap, <1>2, <1>5, <1>6, <1>7 DEF IsBuffer, ReadableBytes
<1>9. /\ c \in Seq(Byte) /\ Len(c) = r
      /\ \A i \in 1..r, j \in Int : j = h + i => c[i] = b.mem[j]
  BY ContentType DEF c, r, h
<1>10. /\ data \o c \in Seq(Byte)
       /\ Len(data \o c) = n + r
       /\ \A i \in 1..n : (data \o c)[i] = data[i]
       /\ \A i \in 1..(n + r), k \in Int :
            i > n /\ k = i - n => (data \o c)[i] = c[k]
  BY <1>9, ConcatAt DEF n
<1>11. ASSUME NEW i \in 1..(n + r), NEW j \in Int, j = h - n + i
       PROVE  m[j] = (data \o c)[i]
  <2>0. i \in Int /\ 1 <= i /\ i <= n + r
    BY <1>1, <1>2
  <2>1. j \in 1..z /\ h - n < j
    BY <1>1, <1>2, <1>11, <2>0
  <2>2. CASE i <= n
    <3>1. j <= h - n + n /\ i = j - (h - n) /\ i \in 1..n
      BY <1>1, <1>2, <1>11, <2>0, <2>2
    <3> QED BY <3>1, <2>1, <1>3, <1>10
  <2>3. CASE ~(i <= n)
    <3>1. PICK k \in Int : k = i - n
      BY <1>2
    <3>2. ~(j <= h - n + n) /\ k \in 1..r /\ j = h + k /\ i > n
      BY <1>1, <1>2, <1>11, <2>0, <2>3, <3>1
    <3>3. m[j] = b.mem[j]
      BY <3>2, <2>1, <1>3
    <3>4. (data \o c)[i] = c[k]
      BY <3>1, <3>2, <1>10
    <3> QED BY <3>2, <3>3, <3>4, <1>9
  <2> QED BY <2>2, <2>3
<1>12. Content(w) = data \o c
  <2>1. \A i \in 1..ReadableBytes(w), j \in Int :
          j = w.head + i => w.mem[j] = (data \o c)[i]
    BY <1>5, <1>8, <1>11
  <2> QED BY <1>8, <1>10, <2>1, ContentIs
<1> QED BY <1>7, <1>8, <1>12 DEF w, c, z

\* The bytes move back first, then the new ones are copied in front of them.
LEMMA ShiftedBackIsAhead ==
  ASSUME NEW b, IsBuffer(b), NEW data \in Seq(Byte), Len(data) <= WritableBytes(b)
  PROVE  /\ IsBuffer(ShiftedBack(b, data))
         /\ Content(ShiftedBack(b, data)) = data \o Content(b)
         /\ Size(ShiftedBack(b, data)) = Size(b)
<1> DEFINE h == b.head
           t == b.tail
           z == Size(b)
           w == ShiftedBack(b, data)
           n == Len(data)
           c == Content(b)
           r == ReadableBytes(b)
           m1 == Copied(b, h + n, c)
           v == Buffer(h, t, b.initCap, m1)
           m == Copied(v, h, data)
<1>1. /\ h \in Nat /\ t \in Nat /\ z \in Nat
      /\ h <= t /\ t <= z
      /\ r = t - h /\ r \in Nat
      /\ WritableBytes(b) = z - t
  BY Sizes
<1>cap. b.initCap \in Nat /\ z = b.initCap + Offset /\ b.initCap >= Offset
  BY Sizes
<1>2. n \in Nat /\ n <= z - t /\ h + n \in Nat
  BY <1>1, LenProperties
<1>3. c \in Seq(Byte) /\ Len(c) = r
  BY ContentType
<1>4. /\ m1 \in Seq(Byte) /\ Len(m1) = z
      /\ \A i \in 1..z, k \in Int :
           h + n < i /\ i <= h + n + Len(c) /\ k = i - (h + n) => m1[i] = c[k]
  <2>1. m1 \in Seq(Byte) /\ Len(m1) = z
    BY <1>2, <1>3, CopiedType
  <2> QED BY <2>1, CopiedAt
<1> HIDE DEF m1
<1>5. v.head = h /\ v.tail = t /\ v.initCap = b.initCap /\ v.mem = m1
  BY DEF Buffer
<1>6. v \in [head : Nat, tail : Nat, initCap : Nat, mem : Seq(Byte)]
  BY <1>1, <1>cap, <1>4 DEF Buffer
<1>7. w = Buffer(h, t + n, b.initCap, m)
  BY DEF ShiftedBack, m1
<1> HIDE DEF w, v, r, c, n, h, t, z
<1>8. Size(v) = z
  BY <1>4, <1>5 DEF Size
<1>9. IsBuffer(v)
  BY <1>1, <1>cap, <1>5, <1>6, <1>8 DEF IsBuffer
<1>10. /\ m \in Seq(Byte) /\ Len(m) = z
       /\ \A i \in 1..z, k \in Int :
            h < i /\ i <= h + n /\ k = i - h => m[i] = data[k]
       /\ \A i \in 1..z : ~(h < i /\ i <= h + n) => m[i] = m1[i]
  <2>1. m \in Seq(Byte) /\ Len(m) = z
    BY <1>1, <1>8, <1>9, CopiedType
  <2> QED BY <1>5, <1>8, <2>1, CopiedAt DEF n
<1> HIDE DEF m
<1>11. w.head = h /\ w.tail = t + n /\ w.initCap = b.initCap /\ w.mem = m
  BY <1>7 DEF Buffer
<1>12. w \in [head : Nat, tail : Nat, initCap : Nat, mem : Seq(Byte)]
  BY <1>1, <1>cap, <1>2, <1>7, <1>10 DEF Buffer
<1>13. Size(w) = z
  BY <1>10, <1>11 DEF Size
<1>14. IsBuffer(w) /\ ReadableBytes(w) = n + r
  <2>1. w.head <= w.tail /\ w.tail <= Size(w) /\ w.tail - w.head = n + r
    BY <1>1, <1>2, <1>11, <1>13
  <2>2. Size(w) = w.initCap + Offset /\ w.initCap >= Offset
    BY <1>cap, <1>11, <1>13
  <2> QED BY <1>12, <2>1, <2>2 DEF IsBuffer, ReadableBytes
<1>15. /\ data \o c \in Seq(Byte) /\ Len(data \o c) = n + r
       /\ \A i \in 1..n : (data \o c)[i] = data[i]
       /\ \A i \in 1..(n + r), k \in Int : i > n /\ k = i - n => (data \o c)[i] = c[k]
  BY <1>3, ConcatAt DEF n
<1>16. ASSUME NEW i \in 1..(n + r), NEW j \in Int, j = h + i
       PROVE  m[j] = (data \o c)[i]
  <2>0. i \in Int /\ 1 <= i /\ i <= n + r
    BY <1>1, <1>2
  <2>1. j \in 1..z /\ h < j
    BY <1>1, <1>2, <1>16, <2>0
  <2>2. CASE i <= n
    <3>1. j <= h + n /\ i = j - h /\ i \in 1..n
      BY <1>1, <1>2, <1>16, <2>0, <2>2
    <3> QED BY <3>1, <2>1, <1>10, <1>15
  <2>3. CASE ~(i <= n)
    <3>1. PICK k \in Int : k = i - n
      BY <1>2
    <3>2. /\ ~(j <= h + n) /\ i > n
          /\ h + n < j /\ j <= h + n + r /\ k = j - (h + n)
      BY <1>1, <1>2, <1>16, <2>0, <2>3, <3>1
    <3>3. m[j] = m1[j]
      BY <3>2, <2>1, <1>10
    <3>4. m1[j] = c[k]
      BY <3>2, <2>1, <1>3, <1>4
    <3>5. (data \o c)[i] = c[k]
      BY <3>1, <3>2, <1>15
    <3> QED BY <3>3, <3>4, <3>5
  <2> QED BY <2>2, <2>3
<1>17. Content(w) = data \o c
  <2>1. \A i \in 1..ReadableBytes(w), j \in Int : j = w.head + i => w.mem[j] = (data \o c)[i]
    BY <1>11, <1>14, <1>16
  <2> QED BY <1>14, <1>15, <2>1, ContentIs
<1> QED BY <1>13, <1>14, <1>17 DEF w, c, z

\* AddInFront in all its three cases: the bytes are read first.
LEMMA AddedInFront ==
  ASSUME NEW b, IsBuffer(b), NEW data \in Seq(Byte)
  PROVE  /\ IsBuffer(AddInFront(b, data))
         /\ Content(AddInFront(b, data)) = data \o Content(b)
         /\ Size(AddInFront(b, data)) >= Size(b)
         /\ \/ Size(AddInFront(b, data)) = Size(b)
            \/ Size(AddInFront(b, data))
                 <= 2 * (ReadableBytes(b) + Len(data) + Offset) + Offset
<1> DEFINE n == Len(data)
           c == Content(b)
           r == ReadableBytes(b)
           new == FrontLength(b, n)
           f == MsgBuffer(new)
           g == AppendData(f, data)
<1>1. /\ n \in Nat /\ r \in Nat /\ Size(b) \in Nat /\ Offset \in Nat
      /\ b.head \in Nat /\ WritableBytes(b) \in Nat
  BY Sizes, LenProperties, LengthAssumption
<1>cap. b.initCap \in Nat /\ Size(b) = b.initCap + Offset /\ b.initCap >= Offset
  BY Sizes
<1>2. CASE b.head >= n
  <2>1. AddInFront(b, data) = InFront(b, data)
    BY <1>2 DEF AddInFront
  <2>2. /\ IsBuffer(InFront(b, data)) /\ Content(InFront(b, data)) = data \o c
        /\ Size(InFront(b, data)) = Size(b)
    BY <1>2, InFrontIsAhead
  <2> QED BY <1>1, <2>1, <2>2
<1>3. CASE ~(b.head >= n) /\ n <= WritableBytes(b)
  <2>1. AddInFront(b, data) = ShiftedBack(b, data)
    BY <1>3 DEF AddInFront
  <2>2. /\ IsBuffer(ShiftedBack(b, data)) /\ Content(ShiftedBack(b, data)) = data \o c
        /\ Size(ShiftedBack(b, data)) = Size(b)
    BY <1>3, ShiftedBackIsAhead
  <2> QED BY <1>1, <2>1, <2>2
<1>4. CASE ~(b.head >= n) /\ ~(n <= WritableBytes(b))
  <2>1. AddInFront(b, data) = AppendData(g, c)
    BY <1>4 DEF AddInFront
  <2>2. c \in Seq(Byte) /\ Len(c) = r
    BY ContentType
  <2>3. /\ new \in Nat /\ new >= Offset /\ new >= b.initCap
        /\ new = b.initCap \/ new = n + r
    BY <1>1, <1>cap DEF FrontLength
  <2> HIDE DEF new
  <2>4. IsBuffer(f) /\ Content(f) = <<>> /\ Size(f) = new + Offset
    BY <2>3, FreshBuffer
  <2> HIDE DEF f
  <2>5. ReadableBytes(f) = 0
    BY <2>4, ContentType
  <2>6. /\ IsBuffer(g) /\ Content(g) = <<>> \o data /\ Size(g) >= Size(f)
        /\ ReadableBytes(g) = 0 + n
        /\ Size(g) = Size(f) \/ Size(g) <= 2 * (0 + n + Offset) + Offset
    BY <2>4, <2>5, AppendIsBehind
  <2>7. Content(g) = data
    BY <2>6, ConcatEmptySeq
  <2> HIDE DEF g
  <2> DEFINE w == AppendData(g, c)
  <2>8. /\ IsBuffer(w) /\ Content(w) = Content(g) \o c /\ Size(w) >= Size(g)
        /\ Size(w) = Size(g) \/ Size(w) <= 2 * (ReadableBytes(g) + Len(c) + Offset) + Offset
    BY <2>2, <2>6, AppendIsBehind
  <2> HIDE DEF w
  <2>9. Size(f) \in Nat /\ Size(g) \in Nat /\ Size(w) \in Nat
    BY <2>4, <2>6, <2>8, Sizes
  <2>10. Size(w) >= Size(b)
    <3>1. Size(f) >= Size(b)
      BY SMTT(60), <1>1, <1>cap, <2>3, <2>4
    <3>2. Size(g) >= Size(f) /\ Size(w) >= Size(g)
      BY <2>6, <2>8
    <3> QED BY SMTT(60), <1>1, <2>9, <3>1, <3>2
  <2>11. Size(w) = Size(b) \/ Size(w) <= 2 * (r + n + Offset) + Offset
    <3>1. ReadableBytes(g) + Len(c) + Offset = r + n + Offset
      BY SMTT(60), <1>1, <2>2, <2>6
    <3> HIDE DEF n, r
    <3>2. Size(f) = Size(b) \/ Size(f) <= 2 * (r + n + Offset) + Offset
      BY SMTT(60), <1>1, <1>cap, <2>3, <2>4
    <3>3. Size(g) = Size(b) \/ Size(g) <= 2 * (r + n + Offset) + Offset
      BY SMTT(60), <1>1, <2>6, <2>9, <3>2
    <3> QED BY SMTT(60), <2>8, <3>1, <3>3
  <2> QED BY <2>1, <2>7, <2>8, <2>10, <2>11 DEF w, c
<1> QED BY <1>2, <1>3, <1>4

-----------------------------------------------------------------------------
(* What one call does to the buffer and to its content.                     *)

\* The sizes a buffer may have after a call that brings n bytes to r.
Grown(old, new, needed) ==
  /\ new >= old
  /\ new = old \/ new <= 2 * (needed + Offset) + Offset

\* The calls that bring bytes are AddBehind and AddAhead of the byte queue.
LEMMA DataCalls ==
  ASSUME TypeOK, NEW data \in Data,
         \/ CallAppend(data) \/ CallAddInFront(data)
         \/ CallReadFd(data) \/ CallHasWritten(data)
  PROVE  /\ IsBuffer(buffer')
         /\ Grown(Size(buffer), Size(buffer'), ReadableBytes(buffer) + Len(data))
         /\ ReadableBytes(buffer) + Len(data) <= MaxReadable
         /\ Bytes!AddBehind \/ Bytes!AddAhead
<1>1. data \in Seq(Byte) /\ Len(data) \in Nat
  BY DataType
<1>2. IsBuffer(buffer) /\ Size(buffer) \in Nat
  BY Sizes DEF TypeOK
<1>3. ReadableBytes(buffer) + Len(data) <= MaxReadable
  BY DEF CallAppend, CallAddInFront, CallReadFd, CallHasWritten, Fits
<1>4. CASE CallAppend(data)
  <2>1. buffer' = AppendData(buffer, data) /\ op' = [kind |-> "behind", data |-> data, len |-> 0]
    BY <1>4 DEF CallAppend, Call
  <2>2. /\ IsBuffer(buffer') /\ Content(buffer') = Content(buffer) \o data
        /\ Grown(Size(buffer), Size(buffer'), ReadableBytes(buffer) + Len(data))
    BY <1>1, <1>2, <2>1, AppendIsBehind DEF Grown
  <2> QED BY <1>3, <2>1, <2>2 DEF Bytes!AddBehind
<1>5. CASE CallAddInFront(data)
  <2>1. buffer' = AddInFront(buffer, data) /\ op' = [kind |-> "ahead", data |-> data, len |-> 0]
    BY <1>5 DEF CallAddInFront, Call
  <2>2. /\ IsBuffer(buffer') /\ Content(buffer') = data \o Content(buffer)
        /\ Grown(Size(buffer), Size(buffer'), ReadableBytes(buffer) + Len(data))
    BY <1>1, <1>2, <2>1, AddedInFront DEF Grown
  <2> QED BY <1>3, <2>1, <2>2 DEF Bytes!AddAhead
<1>6. CASE CallReadFd(data)
  <2>1. buffer' = ReadFd(buffer, data) /\ op' = [kind |-> "behind", data |-> data, len |-> 0]
    BY <1>6 DEF CallReadFd, Call
  <2>2. /\ IsBuffer(buffer') /\ Content(buffer') = Content(buffer) \o data
        /\ Grown(Size(buffer), Size(buffer'), ReadableBytes(buffer) + Len(data))
    BY <1>1, <1>2, <2>1, ReadFdIsBehind DEF Grown
  <2> QED BY <1>3, <2>1, <2>2 DEF Bytes!AddBehind
<1>7. CASE CallHasWritten(data)
  <2>1. /\ buffer' = Written(buffer, data) /\ Len(data) <= WritableBytes(buffer)
        /\ op' = [kind |-> "behind", data |-> data, len |-> 0]
    BY <1>7 DEF CallHasWritten, Call
  <2>2. /\ IsBuffer(buffer') /\ Content(buffer') = Content(buffer) \o data
        /\ Grown(Size(buffer), Size(buffer'), ReadableBytes(buffer) + Len(data))
    BY <1>1, <1>2, <2>1, WrittenIsBehind DEF Grown
  <2> QED BY <1>3, <2>1, <2>2 DEF Bytes!AddBehind
<1> QED BY <1>4, <1>5, <1>6, <1>7

\* The calls that take bytes are TakeAhead and TakeBehind of the byte queue.
LEMMA TakeCalls ==
  ASSUME TypeOK, NEW len \in 1..MaxReadable, CallRetrieve(len) \/ CallUnwrite(len)
  PROVE  /\ IsBuffer(buffer')
         /\ Size(buffer') = Size(buffer)
         /\ Bytes!TakeAhead \/ Bytes!TakeBehind
<1>1. IsBuffer(buffer) /\ len \in Nat
  BY LengthAssumption DEF TypeOK
<1>2. CASE CallRetrieve(len)
  <2>1. buffer' = Retrieve(buffer, len) /\ op' = [kind |-> "takeAhead", data |-> <<>>, len |-> len]
    BY <1>2 DEF CallRetrieve, Call
  <2> QED BY <1>1, <2>1, RetrieveTakesAhead DEF Bytes!TakeAhead
<1>3. CASE CallUnwrite(len)
  <2>1. /\ buffer' = Unwrite(buffer, len) /\ len <= ReadableBytes(buffer)
        /\ op' = [kind |-> "takeBehind", data |-> <<>>, len |-> len]
    BY <1>3 DEF CallUnwrite, Call
  <2> QED BY <1>1, <2>1, UnwriteTakesBehind, ContentType DEF Bytes!TakeBehind
<1> QED BY <1>2, <1>3

-----------------------------------------------------------------------------
(* The theorems.                                                            *)

\* A new MsgBuffer satisfies both invariants.
LEMMA InvInit == Init => TypeOK /\ Footprint
<1> SUFFICES ASSUME Init PROVE TypeOK /\ Footprint
  OBVIOUS
<1>1. IsBuffer(buffer) /\ Size(buffer) = InitLen + Offset
  BY FreshBuffer, LengthAssumption DEF Init
<1> QED BY <1>1, LengthAssumption DEF TypeOK, Footprint, Larger

\* Every call keeps both invariants.
LEMMA InvStep == TypeOK /\ Footprint /\ [Next]_vars => TypeOK' /\ Footprint'
<1> SUFFICES ASSUME TypeOK, Footprint, [Next]_vars PROVE TypeOK' /\ Footprint'
  OBVIOUS
<1>1. Size(buffer) \in Nat /\ ReadableBytes(buffer) \in Nat
  BY Sizes DEF TypeOK
<1>2. ASSUME NEW data \in Data,
             \/ CallAppend(data) \/ CallAddInFront(data)
             \/ CallReadFd(data) \/ CallHasWritten(data)
      PROVE  TypeOK' /\ Footprint'
  <2>1. /\ IsBuffer(buffer')
        /\ Grown(Size(buffer), Size(buffer'), ReadableBytes(buffer) + Len(data))
        /\ ReadableBytes(buffer) + Len(data) <= MaxReadable
    BY <1>2, DataCalls
  <2>2. Size(buffer') \in Nat /\ Len(data) \in Nat
    BY <2>1, Sizes, DataType
  <2>3. /\ Size(buffer') >= Size(buffer)
        /\ \/ Size(buffer') = Size(buffer)
           \/ Size(buffer') <= 2 * (ReadableBytes(buffer) + Len(data) + Offset) + Offset
    BY <2>1 DEF Grown
  <2>4. \/ Size(buffer') = Size(buffer)
        \/ Size(buffer') <= 2 * (MaxReadable + Offset) + Offset
    BY <1>1, <2>1, <2>2, <2>3, LengthAssumption
  <2> QED BY <1>1, <2>1, <2>2, <2>3, <2>4, LengthAssumption DEF TypeOK, Footprint, Larger
<1>3. ASSUME NEW len \in 1..MaxReadable, CallRetrieve(len) \/ CallUnwrite(len)
      PROVE  TypeOK' /\ Footprint'
  BY <1>3, TakeCalls DEF TypeOK, Footprint
<1>4. CASE UNCHANGED vars
  BY <1>4 DEF vars, TypeOK, Footprint
<1> QED BY <1>2, <1>3, <1>4 DEF Next

\* However long it is used, the readable part stays inside the vector.
THEOREM TypeCorrect == Spec => []TypeOK
<1>1. Spec => [](TypeOK /\ Footprint)
  BY InvInit, InvStep, PTL DEF Spec
<1> QED BY <1>1, PTL

\* The vector never grows beyond twice what its users left in it at once.
THEOREM FootprintBounded == Spec => []Footprint
<1>1. Spec => [](TypeOK /\ Footprint)
  BY InvInit, InvStep, PTL DEF Spec
<1> QED BY <1>1, PTL

\* MsgBuffer implements the byte queue: no call loses, repeats or moves a byte.
THEOREM BytesCorrect == Spec => BytesSpec
<1>1. Init => Bytes!Init
  BY FreshBuffer, LengthAssumption DEF Init, Bytes!Init
<1>2. TypeOK /\ [Next]_vars => [Bytes!Next]_<<Content(buffer), op>>
  <2> SUFFICES ASSUME TypeOK, [Next]_vars PROVE [Bytes!Next]_<<Content(buffer), op>>
    OBVIOUS
  <2>1. ASSUME NEW data \in Data,
               \/ CallAppend(data) \/ CallAddInFront(data)
               \/ CallReadFd(data) \/ CallHasWritten(data)
        PROVE  Bytes!Next
    BY <2>1, DataCalls DEF Bytes!Next
  <2>2. ASSUME NEW len \in 1..MaxReadable, CallRetrieve(len) \/ CallUnwrite(len)
        PROVE  Bytes!Next
    BY <2>2, TakeCalls DEF Bytes!Next
  <2>3. CASE UNCHANGED vars
    BY <2>3 DEF vars
  <2> QED BY <2>1, <2>2, <2>3 DEF Next
<1> QED BY <1>1, <1>2, TypeCorrect, PTL DEF Spec, BytesSpec, Bytes!Spec

-----------------------------------------------------------------------------
(* Division.                                                                *)

LEMMA Division ==
  ASSUME NEW u \in Nat \ {0}, NEW x \in Nat
  PROVE  /\ x \div u \in Nat /\ x % u \in 0 .. u - 1
         /\ x = ((x \div u) * u) + (x % u)
<1>1. x \div u \in Int /\ x % u \in 0 .. u - 1 /\ x = (u * (x \div u)) + (x % u)
  OBVIOUS
<1> DEFINE q == x \div u
<1>2. u * q = q * u
  BY <1>1
<1> HIDE DEF q
<1>3. q >= 0
  <2>1. \A p \in Int : p < 0 => p * u <= -u
    OBVIOUS
  <2> QED BY <1>1, <1>2, <2>1 DEF q
<1> QED BY <1>1, <1>2, <1>3 DEF q

\* A number is divided in one way only.
LEMMA DivisionIs ==
  ASSUME NEW u \in Nat \ {0}, NEW q \in Nat, NEW r \in 0 .. u - 1
  PROVE  (q * u + r) \div u = q /\ (q * u + r) % u = r
<1> DEFINE x == q * u + r
           p == x \div u
           s == x % u
<1>1. x \in Nat
  <2>1. q * u \in Nat
    OBVIOUS
  <2> QED BY <2>1
<1>2. p \in Nat /\ s \in 0 .. u - 1 /\ x = (p * u) + s
  <2> HIDE DEF x
  <2> QED BY <1>1, Division
<1> HIDE DEF p, s
<1>3. p = q
  <2>1. CASE p < q
    <3>1. p + 1 <= q
      BY <1>2, <2>1
    <3>2. (p + 1) * u <= q * u
      BY <1>2, <3>1
    <3>3. (p + 1) * u = (p * u) + u
      BY <1>2
    <3> QED BY <1>2, <3>2, <3>3
  <2>2. CASE q < p
    <3>1. q + 1 <= p
      BY <1>2, <2>2
    <3>2. (q + 1) * u <= p * u
      BY <1>2, <3>1
    <3>3. (q + 1) * u = (q * u) + u
      BY <1>2
    <3> QED BY <1>2, <3>2, <3>3
  <2> QED BY <1>2, <2>1, <2>2
<1>4. s = r
  BY <1>2, <1>3
<1> QED BY <1>3, <1>4 DEF p, s, x

\* One more.
LEMMA NextDivision ==
  ASSUME NEW u \in Nat \ {0}, NEW t \in Nat
  PROVE  /\ (t + 1) % u = 0 => (t + 1) \div u = (t \div u) + 1 /\ ((t \div u) + 1) * u = t + 1
         /\ (t + 1) % u # 0 => (t + 1) \div u = t \div u
<1> DEFINE q == t \div u
           r == t % u
<1>1. q \in Nat /\ r \in 0 .. u - 1 /\ t = (q * u) + r
  BY Division
<1> HIDE DEF q, r
<1>2. q * u \in Nat /\ (q + 1) * u = (q * u) + u
  BY <1>1
<1>3. CASE r = u - 1
  <2>1. t + 1 = ((q + 1) * u) + 0
    BY <1>1, <1>2, <1>3
  <2>2. (((q + 1) * u) + 0) \div u = q + 1 /\ (((q + 1) * u) + 0) % u = 0
    BY <1>1, DivisionIs
  <2> QED BY <1>1, <1>2, <2>1, <2>2 DEF q
<1>4. CASE r # u - 1
  <2>1. t + 1 = (q * u) + (r + 1) /\ r + 1 \in 0 .. u - 1 /\ r + 1 # 0
    BY <1>1, <1>2, <1>4
  <2>2. ((q * u) + (r + 1)) \div u = q /\ ((q * u) + (r + 1)) % u = r + 1
    BY <1>1, <2>1, DivisionIs
  <2> QED BY <2>1, <2>2 DEF q
<1> QED BY <1>3, <1>4

\* What is left of a multiple of v, when v is a multiple of u.
LEMMA Multiple ==
  ASSUME NEW u \in Nat \ {0}, NEW v \in Nat \ {0}, v % u = 0, NEW x \in Nat
  PROVE  (x % v) % u = x % u
<1> DEFINE a == v \div u
           q == x \div v
           y == x % v
           b == y \div u
           r == y % u
<1>1. a \in Nat /\ v = (a * u) + 0
  BY Division
<1>2. q \in Nat /\ y \in Nat /\ x = (q * v) + y
  BY Division
<1>3. b \in Nat /\ r \in 0 .. u - 1 /\ y = (b * u) + r
  BY <1>2, Division
<1> HIDE DEF a, q, y, b, r
<1>4. q * v = (q * a) * u
  BY <1>1, <1>2
<1>5. (q * a) \in Nat /\ ((q * a) + b) * u = ((q * a) * u) + (b * u)
  BY <1>1, <1>2, <1>3
<1>6. x = (((q * a) + b) * u) + r
  BY <1>2, <1>3, <1>4, <1>5
<1>7. ((((q * a) + b) * u) + r) % u = r
  <2>1. (q * a) + b \in Nat
    BY <1>3, <1>5
  <2> QED BY <1>3, <2>1, DivisionIs
<1> QED BY <1>6, <1>7 DEF r, y

-----------------------------------------------------------------------------
(* Greatest numbers.                                                       *)

\* A set of numbers that is not empty has a smallest one.
LEMMA LeastOfNat ==
  ASSUME NEW S, S \subseteq Nat, S # {}
  PROVE  \E x \in S : \A y \in S : x <= y
<1> DEFINE Less == {ss \in Nat \X Nat : ss[1] < ss[2]}
<1>1. OpToRel(<, Nat) = Less
  BY DEF OpToRel
<1>2. IsWellFoundedOn(Less, Nat)
  BY <1>1, NatLessThanWellFounded
<1>3. \E x \in S : \A y \in S : ~(<<y, x>> \in Less)
  <2> HIDE DEF Less
  <2> QED BY <1>2, WFMin
<1>4. PICK x \in S : \A y \in S : ~(<<y, x>> \in Less)
  BY <1>3
<1>5. ASSUME NEW y \in S PROVE x <= y
  <2>1. <<y, x>> \in Nat \X Nat /\ <<y, x>>[1] = y /\ <<y, x>>[2] = x
    OBVIOUS
  <2>2. ~(y < x)
    BY <1>4, <2>1
  <2> QED BY <2>2
<1> QED BY <1>5

LEMMA MaxIs ==
  ASSUME NEW S, S \subseteq Int, NEW m \in S, \A x \in S : x <= m
  PROVE  Max(S) = m
<1>1. \A x \in S : (\A y \in S : x >= y) => x = m
  OBVIOUS
<1>2. \A y \in S : m >= y
  OBVIOUS
<1> QED BY <1>1, <1>2 DEF Max

\* A set of numbers that is not empty and has a bound has a greatest one.
LEMMA MaxOfBounded ==
  ASSUME NEW S, S \subseteq Nat, S # {}, NEW b \in Nat, \A x \in S : x <= b
  PROVE  Max(S) \in S /\ \A x \in S : x <= Max(S)
<1> DEFINE T == {b - x : x \in S}
<1>1. T \subseteq Nat /\ T # {}
  <2>1. \A x \in S : b - x \in Nat
    OBVIOUS
  <2>2. PICK x \in S : TRUE
    OBVIOUS
  <2>3. b - x \in T
    OBVIOUS
  <2> QED BY <2>1, <2>3
<1>2. PICK y \in T : \A z \in T : y <= z
  <2> HIDE DEF T
  <2> QED BY <1>1, LeastOfNat
<1>3. PICK m \in S : y = b - m
  OBVIOUS
<1>4. ASSUME NEW x \in S PROVE x <= m
  <2>1. b - x \in T
    OBVIOUS
  <2>2. b - m <= b - x
    BY <1>2, <1>3, <2>1
  <2> QED BY <2>2
<1>5. Max(S) = m
  <2>1. S \subseteq Int
    OBVIOUS
  <2> QED BY <1>4, <2>1, MaxIs
<1> QED BY <1>4, <1>5

-----------------------------------------------------------------------------
(* The wheels and their references.                                        *)

WheelRefs == [entry : Entries, level : Levels, slot : Nat, rest : Nat]

\* The tick r lets go at when the wheels have turned k[l] times: ReleaseTick of
\* wheels that are in the middle of a turn.
Rel(r, k) == (k[r.level] + r.slot + 1) * Unit[r.level] + r.rest
Rels(rs, e, k) == {Rel(r, k) : r \in {q \in rs : q.entry = e}}
Turns(t) == [l \in Levels |-> t \div Unit[l]]

\* A reference that InsertEntry may have left: the rest is less than a slot, and
\* what is not on the second wheel has as much left, up to whole minutes, as
\* the entry was inserted for.
Fitting(r) ==
  /\ r \in WheelRefs /\ r.rest < Unit[r.level]
  /\ delay[r.entry] \in Delays /\ delay[r.entry] > 0
  /\ r.level # "second" =>
       delay[r.entry] >= Minute /\ r.rest % Minute = delay[r.entry] % Minute

\* The ticks of an entry inserted for d: none is further than d away, and when
\* d fits the second wheel the last of them is the one promised.
Promise(ticks, t, d, last) ==
  /\ \A x \in ticks : x <= t + d
  /\ ticks # {} /\ d < Minute => last \in ticks /\ \A x \in ticks : x <= last
Promises(e) == Promise(Rels(refs, e, Turns(tick)), tick, delay[e], promised[e])

WheelInv ==
  /\ tick \in Nat
  /\ delay \in [Entries -> Nat] /\ promised \in [Entries -> Nat] /\ goneOff \in [Entries -> Nat]
  /\ \A r \in refs : Fitting(r)
  /\ \A e \in Entries : Promises(e)

LEMMA Units ==
  /\ \A l \in Levels : Unit[l] \in Nat \ {0}
  /\ \A l \in Levels, m \in Levels : Unit[l] < Unit[m] => Unit[m] % Unit[l] = 0
  /\ \A l \in Levels : l # "second" => Unit[l] % Minute = 0
<1>1. Unit["second"] = 1 /\ Unit["minute"] = Minute /\ Unit["hour"] = Hour /\ Unit["day"] = Day
  BY DEF Unit
<1>2. {Minute, Hour, Day} \subseteq Nat \ {0} /\ 1 < Minute /\ Minute < Hour /\ Hour < Day
      /\ Hour % Minute = 0 /\ Day % Hour = 0
  BY UnitsAssumption
<1>3. Day % Minute = 0
  <2>1. (Day % Hour) % Minute = Day % Minute
    BY <1>2, Multiple
  <2>2. 0 % Minute = 0
    BY <1>2
  <2> QED BY <1>2, <2>1, <2>2
<1>4. Minute % Minute = 0 /\ Minute % 1 = 0 /\ Hour % 1 = 0 /\ Day % 1 = 0
  BY <1>2
<1> QED BY <1>1, <1>2, <1>3, <1>4 DEF Levels

LEMMA LevelFits ==
  ASSUME NEW d \in Nat \ {0}
  PROVE  /\ Level(d) \in Levels /\ Unit[Level(d)] <= d
         /\ Level(d) = "second" <=> d < Minute
<1>1. Unit["second"] = 1 /\ Unit["minute"] = Minute /\ Unit["hour"] = Hour /\ Unit["day"] = Day
  BY DEF Unit
<1>2. {Minute, Hour, Day} \subseteq Nat
  BY UnitsAssumption
<1> QED BY <1>1, <1>2 DEF Level, Levels

LEMMA Placed ==
  ASSUME NEW e \in Entries, NEW d \in Nat \ {0}, NEW k \in [Levels -> Nat]
  PROVE  /\ Place(e, d) \in WheelRefs /\ Place(e, d).entry = e /\ Place(e, d).level = Level(d)
         /\ Place(e, d).rest < Unit[Level(d)]
         /\ Rel(Place(e, d), k) = (k[Level(d)] * Unit[Level(d)]) + d
         /\ d >= Minute => Place(e, d).rest % Minute = d % Minute
<1> DEFINE l == Level(d)
           u == Unit[l]
           q == d \div u
           r == d % u
<1>1. l \in Levels /\ u \in Nat \ {0} /\ u <= d /\ (l # "second" => u % Minute = 0)
  BY LevelFits, Units
<1>2. q \in Nat /\ r \in 0 .. u - 1 /\ d = (q * u) + r
  <2> HIDE DEF u
  <2> QED BY <1>1, Division
<1>3. Place(e, d) = [entry |-> e, level |-> l, slot |-> q - 1, rest |-> r]
  BY DEF Place
<1>4. d >= Minute => r % Minute = d % Minute
  <2> SUFFICES ASSUME d >= Minute PROVE r % Minute = d % Minute
    OBVIOUS
  <2>1. l # "second" /\ Minute \in Nat \ {0}
    BY LevelFits, UnitsAssumption
  <2>2. u % Minute = 0
    BY <1>1, <2>1
  <2> HIDE DEF u
  <2> QED BY <1>1, <2>1, <2>2, Multiple
<1> HIDE DEF l, u, q, r
<1>5. q >= 1
  <2>1. q = 0 => q * u = 0
    BY <1>1
  <2> QED BY <1>1, <1>2, <2>1
<1>6. k[l] \in Nat
  BY <1>1
<1>7. Rel(Place(e, d), k) = ((k[l] + (q - 1) + 1) * u) + r
  BY <1>3 DEF Rel, u
<1>8. (k[l] + (q - 1) + 1) * u = (k[l] * u) + (q * u)
  <2>1. k[l] + (q - 1) + 1 = k[l] + q
    BY <1>2, <1>6
  <2>2. \A a, b, c \in Nat : (a + b) * c = (a * c) + (b * c)
    OBVIOUS
  <2> QED BY <1>1, <1>2, <1>6, <2>1, <2>2
<1>9. Rel(Place(e, d), k) = (k[l] * u) + d
  <2>1. k[l] * u \in Nat /\ q * u \in Nat
    BY <1>1, <1>2, <1>6
  <2> QED BY <1>2, <1>7, <1>8, <2>1
<1>10. Place(e, d) \in WheelRefs
  BY <1>1, <1>2, <1>3, <1>5 DEF WheelRefs
<1>11. Place(e, d).rest < u
  BY <1>1, <1>2, <1>3
<1> QED BY <1>3, <1>4, <1>9, <1>10, <1>11 DEF l, u, r

-----------------------------------------------------------------------------
(* PopUp, part by part.                                                    *)

Again(rs, level) == {Place(e, delay[e]) : e \in Ended(rs, level) \cap Periodic}

LEMMA PopUpParts ==
  ASSUME NEW w, NEW level
  PROVE  /\ PopUp(w, level).refs = (Kept(w.refs, level) \cup Moved(w.refs, level)) \cup Again(w.refs, level)
         /\ PopUp(w, level).ended = w.ended \cup Ended(w.refs, level)
         /\ PopUp(w, level).crashed =
              (w.crashed \/ \E r \in Closures(w.refs, level) : OutOfRange(r.rest))
BY DEF PopUp, Again

\* A reference that is not at the front comes one slot nearer.
LEMMA RotatedFits ==
  ASSUME NEW r, Fitting(r), NEW level \in Levels, ~(r.level = level /\ r.slot = 0)
  PROVE  /\ Fitting(Rotated(r, level)) /\ Rotated(r, level).entry = r.entry
         /\ Rotated(r, level).level = r.level /\ Rotated(r, level).rest = r.rest
         /\ Rotated(r, level).slot = IF r.level = level THEN r.slot - 1 ELSE r.slot
<1>1. CASE r.level = level
  <2> DEFINE x == [r EXCEPT !.slot = @ - 1]
  <2>1. r \in WheelRefs /\ r.slot \in Nat \ {0}
    BY <1>1 DEF Fitting, WheelRefs
  <2>2. x \in WheelRefs /\ x.entry = r.entry /\ x.level = r.level /\ x.rest = r.rest /\ x.slot = r.slot - 1
    BY <2>1 DEF WheelRefs
  <2>3. Rotated(r, level) = x
    BY <1>1 DEF Rotated
  <2> HIDE DEF x
  <2> QED BY <1>1, <2>2, <2>3 DEF Fitting
<1>2. CASE r.level # level
  BY <1>2 DEF Rotated
<1> QED BY <1>1, <1>2

\* A closure at the front of an outer wheel inserts what is left again.
LEMMA MovedFits ==
  ASSUME NEW r, Fitting(r), r.level # "second", ~OutOfRange(r.rest), NEW k \in [Levels -> Nat]
  PROVE  LET p == Place(r.entry, r.rest) IN
         /\ Fitting(p) /\ p.entry = r.entry /\ p.level \in Levels /\ Unit[p.level] < Unit[r.level]
         /\ Rel(p, k) = (k[p.level] * Unit[p.level]) + r.rest
<1> DEFINE p == Place(r.entry, r.rest)
           d == r.rest
           e == r.entry
<1>1. e \in Entries /\ d \in Nat \ {0} /\ d < Unit[r.level] /\ r.level \in Levels
  BY DEF Fitting, WheelRefs, OutOfRange
<1>2. delay[e] \in Delays /\ delay[e] > 0 /\ delay[e] >= Minute /\ d % Minute = delay[e] % Minute
  BY DEF Fitting
<1> HIDE DEF d, e
<1>3. /\ p \in WheelRefs /\ p.entry = e /\ p.level = Level(d) /\ p.rest < Unit[Level(d)]
      /\ Rel(p, k) = (k[Level(d)] * Unit[Level(d)]) + d
      /\ d >= Minute => p.rest % Minute = d % Minute
  BY <1>1, Placed DEF d, e
<1>4. Level(d) \in Levels /\ Unit[Level(d)] <= d /\ (Level(d) = "second" <=> d < Minute)
  BY <1>1, LevelFits
<1> HIDE DEF p
<1>5. Minute \in Nat /\ \A l \in Levels : Unit[l] \in Nat
  BY UnitsAssumption, Units
<1>6. p.level # "second" => p.rest % Minute = delay[e] % Minute
  BY <1>1, <1>2, <1>3, <1>4, <1>5
<1>7. Fitting(p)
  BY <1>2, <1>3, <1>6 DEF Fitting
<1>8. Unit[p.level] < Unit[r.level]
  BY <1>1, <1>3, <1>4, <1>5
<1> QED BY <1>3, <1>4, <1>7, <1>8 DEF p, d, e

\* RunEvery's callback inserts the entry for the whole interval.
LEMMA AgainFits ==
  ASSUME NEW e \in Entries, delay[e] \in Delays, delay[e] > 0, NEW k \in [Levels -> Nat]
  PROVE  LET p == Place(e, delay[e]) IN
         /\ Fitting(p) /\ p.entry = e /\ p.level = Level(delay[e])
         /\ Rel(p, k) = (k[p.level] * Unit[p.level]) + delay[e]
<1> DEFINE p == Place(e, delay[e])
           d == delay[e]
<1>1. d \in Nat \ {0} /\ d \in Delays
  <2>1. \A x \in Delays : x > 0 => x \in Nat \ {0}
    BY DelaysAssumption
  <2> QED BY Zenon, <2>1
<1> HIDE DEF d
<1>2. /\ p \in WheelRefs /\ p.entry = e /\ p.level = Level(d) /\ p.rest < Unit[Level(d)]
      /\ Rel(p, k) = (k[Level(d)] * Unit[Level(d)]) + d
      /\ d >= Minute => p.rest % Minute = d % Minute
  BY <1>1, Placed DEF d
<1>3. Level(d) = "second" <=> d < Minute
  BY <1>1, LevelFits
<1> HIDE DEF p
<1>4. Minute \in Nat
  BY UnitsAssumption
<1>5. p.level # "second" => d >= Minute /\ p.rest % Minute = d % Minute
  BY <1>1, <1>2, <1>3, <1>4
<1>6. Fitting(p)
  BY <1>1, <1>2, <1>5 DEF Fitting, d
<1> QED BY <1>2, <1>6 DEF p, d

-----------------------------------------------------------------------------
(* No index out of range, but for whole minutes.                           *)

\* What holds in the middle of a turn.
Whole == \E e \in Alive(refs) : delay[e] % Minute = 0
Turning(w) ==
  /\ \A r \in w.refs : Fitting(r)
  /\ Alive(w.refs) \subseteq Alive(refs)
  /\ w.crashed => Whole

LEMMA PopUpTurns ==
  ASSUME NEW w, Turning(w), NEW level \in Levels
  PROVE  Turning(PopUp(w, level))
<1> DEFINE v == PopUp(w, level)
<1>1. ASSUME NEW r \in Kept(w.refs, level) PROVE Fitting(r) /\ r.entry \in Alive(w.refs)
  <2>1. PICK q \in w.refs : q \notin Front(w.refs, level) /\ r = Rotated(q, level)
    BY DEF Kept
  <2>2. ~(q.level = level /\ q.slot = 0) /\ Fitting(q)
    BY <2>1 DEF Front, Turning
  <2>3. Fitting(r) /\ r.entry = q.entry
    BY <2>1, <2>2, RotatedFits
  <2> QED BY <2>3 DEF Alive
<1>2. ASSUME NEW r \in Moved(w.refs, level) PROVE Fitting(r) /\ r.entry \in Alive(w.refs)
  <2>1. PICK q \in w.refs : q.level # "second" /\ ~OutOfRange(q.rest) /\ r = Place(q.entry, q.rest)
    BY DEF Moved, Closures, Front
  <2>2. Fitting(q)
    BY DEF Turning
  <2>3. [l \in Levels |-> 0] \in [Levels -> Nat]
    OBVIOUS
  <2>4. Fitting(r) /\ r.entry = q.entry
    BY <2>1, <2>2, <2>3, MovedFits
  <2> QED BY <2>4 DEF Alive
<1>3. ASSUME NEW r \in Again(w.refs, level) PROVE Fitting(r) /\ r.entry \in Alive(w.refs)
  <2>1. PICK e \in Ended(w.refs, level) : r = Place(e, delay[e])
    BY DEF Again
  <2>2. PICK q \in w.refs : q.entry = e
    BY DEF Ended, Alive, Front
  <2>3. e \in Entries /\ delay[e] \in Delays /\ delay[e] > 0
    BY <2>2 DEF Turning, Fitting, WheelRefs
  <2>4. [l \in Levels |-> 0] \in [Levels -> Nat]
    OBVIOUS
  <2>5. Fitting(r) /\ r.entry = q.entry
    BY <2>1, <2>2, <2>3, <2>4, AgainFits
  <2> QED BY <2>5 DEF Alive
<1>4. \A r \in v.refs : Fitting(r) /\ r.entry \in Alive(w.refs)
  <2>1. v.refs = (Kept(w.refs, level) \cup Moved(w.refs, level)) \cup Again(w.refs, level)
    BY PopUpParts
  <2> HIDE DEF v
  <2> QED BY <1>1, <1>2, <1>3, <2>1
<1>5. v.crashed => Whole
  <2> SUFFICES ASSUME v.crashed, ~w.crashed PROVE Whole
    BY DEF Turning
  <2>1. PICK r \in w.refs : r.level # "second" /\ OutOfRange(r.rest)
    BY PopUpParts DEF Closures, Front
  <2>2. delay[r.entry] % Minute = 0 % Minute
    BY <2>1 DEF Turning, Fitting, OutOfRange
  <2>3. 0 % Minute = 0
    BY UnitsAssumption
  <2>4. r.entry \in Alive(refs)
    BY DEF Turning, Alive
  <2> QED BY <2>2, <2>3, <2>4 DEF Whole
<1>6. Alive(v.refs) \subseteq Alive(refs)
  BY <1>4 DEF Alive, Turning
<1> QED BY <1>4, <1>5, <1>6 DEF Turning

\* One wheel of OnTimer, and OnTimer wheel by wheel.
PopIf(w, level, t) == IF t % Unit[level] = 0 THEN PopUp(w, level) ELSE w
Fresh == [refs |-> refs, ended |-> {}, crashed |-> FALSE]

LEMMA TurnIs ==
  ASSUME NEW t
  PROVE  Turn(t) = PopIf(PopIf(PopIf(PopUp(Fresh, "second"), "minute", t), "hour", t), "day", t)
BY Zenon DEF Turn, PopIf, Fresh

LEMMA TurnTurns == ASSUME NEW t, \A r \in refs : Fitting(r) PROVE Turning(Turn(t))
<1>1. Turning(Fresh)
  BY DEF Turning, Fresh
<1>2. \A l \in {"second", "minute", "hour", "day"} : l \in Levels
  BY DEF Levels
<1> DEFINE w1 == PopUp(Fresh, "second")
           w2 == PopIf(w1, "minute", t)
           w3 == PopIf(w2, "hour", t)
<1>3. Turning(w1)
  BY <1>1, <1>2, PopUpTurns
<1> HIDE DEF w1
<1>4. Turning(w2)
  BY <1>2, <1>3, PopUpTurns DEF PopIf
<1> HIDE DEF w2
<1>5. Turning(w3)
  BY <1>2, <1>4, PopUpTurns DEF PopIf
<1> HIDE DEF w3
<1>6. Turning(PopIf(w3, "day", t))
  BY <1>2, <1>5, PopUpTurns DEF PopIf
<1> QED BY <1>6, TurnIs DEF w1, w2, w3

-----------------------------------------------------------------------------
(* The ticks at which references let go, while the wheels turn.             *)

LEMMA RelType ==
  ASSUME NEW r, Fitting(r), NEW k \in [Levels -> Nat]
  PROVE  Rel(r, k) \in Nat
<1> DEFINE a == k[r.level] + r.slot + 1
           u == Unit[r.level]
<1>1. a \in Nat /\ u \in Nat /\ r.rest \in Nat
  BY Units DEF Fitting, WheelRefs
<1>2. Rel(r, k) = a * u + r.rest
  BY DEF Rel
<1> HIDE DEF a, u
<1>3. a * u \in Nat
  BY <1>1
<1> QED BY <1>1, <1>2, <1>3

LEMMA RelsIn ==
  ASSUME NEW rs, NEW e, NEW k, NEW r \in rs, r.entry = e
  PROVE  Rel(r, k) \in Rels(rs, e, k)
BY DEF Rels

LEMMA RelsOf ==
  ASSUME NEW rs, NEW e, NEW k, NEW x \in Rels(rs, e, k)
  PROVE  \E r \in rs : r.entry = e /\ x = Rel(r, k)
BY DEF Rels

LEMMA AliveIs ==
  ASSUME NEW rs, NEW e, NEW k
  PROVE  e \in Alive(rs) <=> Rels(rs, e, k) # {}
BY DEF Alive, Rels

\* The counts before and after the wheel of level has turned for the tick t.
TurnsOnce(level, k, j, t) ==
  /\ level \in Levels /\ t \in Nat
  /\ k \in [Levels -> Nat] /\ j \in [Levels -> Nat]
  /\ j[level] = k[level] + 1 /\ (k[level] + 1) * Unit[level] = t
  /\ \A l \in Levels \ {level} : j[l] = k[l]
  /\ \A l \in Levels : Unit[l] < Unit[level] => j[l] * Unit[l] = t

\* Rotation takes a slot away and adds a turn.
LEMMA RotatedRel ==
  ASSUME NEW level, NEW k, NEW j, NEW t, TurnsOnce(level, k, j, t),
         NEW r, Fitting(r), ~(r.level = level /\ r.slot = 0)
  PROVE  Rel(Rotated(r, level), j) = Rel(r, k)
<1> DEFINE q == Rotated(r, level)
<1>1. level \in Levels /\ r.level \in Levels /\ r.slot \in Nat
  BY DEF TurnsOnce, Fitting, WheelRefs
<1>2. q.level = r.level /\ q.rest = r.rest /\ q.slot = IF r.level = level THEN r.slot - 1 ELSE r.slot
  BY <1>1, RotatedFits
<1> HIDE DEF q
<1>3. j[r.level] \in Nat /\ k[r.level] \in Nat
  BY <1>1 DEF TurnsOnce
<1>4. j[q.level] + q.slot + 1 = k[r.level] + r.slot + 1
  <2>1. CASE r.level = level
    <3>1. j[r.level] = k[r.level] + 1 /\ q.slot = r.slot - 1
      BY <1>2, <2>1 DEF TurnsOnce
    <3> QED BY <1>1, <1>2, <1>3, <3>1
  <2>2. CASE r.level # level
    <3>1. j[r.level] = k[r.level] /\ q.slot = r.slot
      BY <1>1, <1>2, <2>2 DEF TurnsOnce
    <3> QED BY <1>1, <1>2, <1>3, <3>1
  <2> QED BY <2>1, <2>2
<1> QED BY <1>2, <1>4 DEF Rel, q

\* What a slot is dropped for is due at this tick, and a closure puts its entry
\* where it is due when the rest of the delay is over.
LEMMA FrontRel ==
  ASSUME NEW level, NEW k, NEW j, NEW t, TurnsOnce(level, k, j, t),
         NEW r, Fitting(r), r.level = level, r.slot = 0
  PROVE  /\ Rel(r, k) = t + r.rest
         /\ level # "second" /\ ~OutOfRange(r.rest) => Rel(Place(r.entry, r.rest), j) = Rel(r, k)
<1>1. k[level] \in Nat /\ t \in Nat /\ (k[level] + 1) * Unit[level] = t
  BY DEF TurnsOnce
<1>2. r.rest \in Nat
  BY DEF Fitting, WheelRefs
<1>3. Rel(r, k) = t + r.rest
  <2>1. k[r.level] + r.slot + 1 = k[level] + 1
    BY <1>1
  <2> QED BY <1>1, <2>1 DEF Rel
<1>4. ASSUME level # "second", ~OutOfRange(r.rest) PROVE Rel(Place(r.entry, r.rest), j) = t + r.rest
  <2> DEFINE p == Place(r.entry, r.rest)
  <2>1. j \in [Levels -> Nat]
    BY DEF TurnsOnce
  <2>2. p.level \in Levels /\ Unit[p.level] < Unit[level] /\ Rel(p, j) = (j[p.level] * Unit[p.level]) + r.rest
    BY <1>4, <2>1, MovedFits
  <2> HIDE DEF p
  <2>3. j[p.level] * Unit[p.level] = t
    BY <2>2 DEF TurnsOnce
  <2> QED BY <2>2, <2>3 DEF p
<1> QED BY <1>3, <1>4

\* The pop of an outer wheel that goes well changes no entry's ticks and ends
\* none.
LEMMA OuterPop ==
  ASSUME NEW w, \A r \in w.refs : Fitting(r), NEW level, NEW k, NEW j, NEW t,
         TurnsOnce(level, k, j, t), level # "second", ~PopUp(w, level).crashed
  PROVE  /\ PopUp(w, level).ended = w.ended
         /\ \A e : Rels(PopUp(w, level).refs, e, j) = Rels(w.refs, e, k)
<1> DEFINE v == PopUp(w, level)
           fs == Front(w.refs, level)
           kept == Kept(w.refs, level)
           moved == Moved(w.refs, level)
<1>1. \A r \in fs : r \in w.refs /\ Fitting(r) /\ r.level = level /\ r.slot = 0 /\ ~OutOfRange(r.rest)
  BY PopUpParts DEF Closures, Front
<1>2. moved = {Place(r.entry, r.rest) : r \in fs}
  BY <1>1 DEF Moved, Closures
<1>3. Ended(w.refs, level) = {}
  <2> SUFFICES ASSUME NEW e \in Alive(fs) PROVE e \in Alive(kept \cup moved)
    BY DEF Ended
  <2>1. PICK r \in fs : r.entry = e
    BY DEF Alive
  <2>2. Place(r.entry, r.rest) \in moved /\ Place(r.entry, r.rest).entry = e
    BY <1>2, <2>1 DEF Place
  <2> HIDE DEF moved
  <2> QED BY <2>2 DEF Alive
<1>4. v.refs = kept \cup moved /\ v.ended = w.ended
  <2>1. Again(w.refs, level) = {}
    BY <1>3 DEF Again
  <2>2. v.refs = (kept \cup moved) \cup Again(w.refs, level) /\ v.ended = w.ended \cup Ended(w.refs, level)
    BY PopUpParts
  <2> HIDE DEF v, kept, moved
  <2> QED BY <1>3, <2>1, <2>2
<1> HIDE DEF v, moved, kept, fs
<1>5. ASSUME NEW e, NEW x \in Rels(v.refs, e, j) PROVE x \in Rels(w.refs, e, k)
  <2>1. PICK r \in v.refs : r.entry = e /\ x = Rel(r, j)
    BY <1>5, RelsOf
  <2>2. CASE r \in kept
    <3>1. PICK q \in w.refs : q \notin fs /\ r = Rotated(q, level)
      BY <2>2 DEF kept, fs, Kept
    <3>2. ~(q.level = level /\ q.slot = 0) /\ Fitting(q)
      BY <3>1 DEF fs, Front
    <3>3. q.entry = e /\ Rel(q, k) = x
      BY <2>1, <3>1, <3>2, RotatedRel, RotatedFits DEF TurnsOnce
    <3> QED BY <3>3, RelsIn
  <2>3. CASE r \in moved
    <3>1. PICK q \in fs : r = Place(q.entry, q.rest)
      BY <1>2, <2>3
    <3>2. Rel(r, j) = Rel(q, k)
      BY <1>1, <3>1, FrontRel
    <3>3. q.entry = e
      BY <2>1, <3>1 DEF Place
    <3> QED BY <1>1, <2>1, <3>2, <3>3, RelsIn
  <2> QED BY <1>4, <2>1, <2>2, <2>3
<1>6. ASSUME NEW e, NEW x \in Rels(w.refs, e, k) PROVE x \in Rels(v.refs, e, j)
  <2>1. PICK q \in w.refs : q.entry = e /\ x = Rel(q, k)
    BY <1>6, RelsOf
  <2>2. CASE q \in fs
    <3> DEFINE r == Place(q.entry, q.rest)
    <3>1. Rel(r, j) = x
      BY <1>1, <2>1, <2>2, FrontRel
    <3>2. r \in v.refs /\ r.entry = e
      BY <1>2, <1>4, <2>1, <2>2 DEF Place
    <3> HIDE DEF r
    <3> QED BY <3>1, <3>2, RelsIn
  <2>3. CASE q \notin fs
    <3> DEFINE r == Rotated(q, level)
    <3>1. ~(q.level = level /\ q.slot = 0) /\ Fitting(q)
      BY <2>3 DEF fs, Front
    <3>2. Rel(r, j) = x /\ r.entry = e
      BY <2>1, <3>1, RotatedRel, RotatedFits DEF TurnsOnce
    <3>3. r \in v.refs
      BY <1>4, <2>3 DEF kept, Kept, fs
    <3> HIDE DEF r
    <3> QED BY <3>2, <3>3, RelsIn
  <2> QED BY <2>2, <2>3
<1> QED BY <1>4, <1>5, <1>6 DEF v

\* What a turn for the tick t makes of the ticks old of the entry e: the entries
\* that end had nothing but this tick, the others lose this tick at most.
LetsGo(e, t, ended, old, new, j) ==
  /\ e \in ended => /\ old = {t} /\ e \in Entries /\ delay[e] \in Delays /\ delay[e] > 0
                    /\ new = IF e \in Periodic THEN {Rel(Place(e, delay[e]), j)} ELSE {}
  /\ e \notin ended => new \subseteq old /\ old \subseteq new \cup {t} /\ (old # {} => new # {})

\* The pop of the second wheel ends the entries all of whose references are at
\* its front, and they are all due.
LEMMA SecondPop ==
  ASSUME NEW w, \A r \in w.refs : Fitting(r), NEW k, NEW j, NEW t, TurnsOnce("second", k, j, t), NEW e
  PROVE  LetsGo(e, t, Ended(w.refs, "second"), Rels(w.refs, e, k), Rels(PopUp(w, "second").refs, e, j), j)
<1> DEFINE v == PopUp(w, "second")
           fs == Front(w.refs, "second")
           kept == Kept(w.refs, "second")
           again == Again(w.refs, "second")
           ended == Ended(w.refs, "second")
           old == Rels(w.refs, e, k)
           new == Rels(v.refs, e, j)
<1>1. Moved(w.refs, "second") = {}
  BY DEF Moved, Closures
<1>2. v.refs = kept \cup again
  <2>1. v.refs = (kept \cup Moved(w.refs, "second")) \cup again
    BY PopUpParts
  <2> HIDE DEF v, kept, again
  <2> QED BY <1>1, <2>1
<1>3. ended = Alive(fs) \ Alive(kept)
  <2> HIDE DEF kept, fs
  <2> QED BY <1>1 DEF Ended, kept, fs
<1>4. again = {Place(u, delay[u]) : u \in ended \cap Periodic}
  BY DEF Again
<1>5. \A q \in fs : q \in w.refs /\ Fitting(q) /\ q.level = "second" /\ q.slot = 0 /\ Rel(q, k) = t
  <2> SUFFICES ASSUME NEW q \in fs PROVE q \in w.refs /\ Fitting(q) /\ q.level = "second" /\ q.slot = 0 /\ Rel(q, k) = t
    OBVIOUS
  <2>1. q \in w.refs /\ Fitting(q) /\ q.level = "second" /\ q.slot = 0
    BY DEF Front
  <2>2. q.rest = 0
    BY <2>1 DEF Fitting, WheelRefs, Unit
  <2>3. Rel(q, k) = t + q.rest /\ t \in Nat
    BY <2>1, FrontRel DEF TurnsOnce
  <2> QED BY <2>1, <2>2, <2>3
<1>6. \A q \in w.refs \ fs : /\ Rotated(q, "second") \in kept
                             /\ Rotated(q, "second").entry = q.entry
                             /\ Rel(Rotated(q, "second"), j) = Rel(q, k)
  <2> SUFFICES ASSUME NEW q \in w.refs \ fs
               PROVE  /\ Rotated(q, "second") \in kept
                      /\ Rotated(q, "second").entry = q.entry
                      /\ Rel(Rotated(q, "second"), j) = Rel(q, k)
    OBVIOUS
  <2>1. ~(q.level = "second" /\ q.slot = 0) /\ Fitting(q)
    BY DEF Front
  <2>2. Rotated(q, "second").entry = q.entry /\ Rel(Rotated(q, "second"), j) = Rel(q, k)
    BY <2>1, RotatedRel, RotatedFits DEF TurnsOnce
  <2> QED BY <2>2 DEF Kept
<1>7. \A r \in kept : \E q \in w.refs \ fs : r = Rotated(q, "second")
  BY DEF Kept
<1> HIDE DEF v, fs, kept, again, ended
<1>8. ASSUME e \in ended
      PROVE  /\ old = {t} /\ e \in Entries /\ delay[e] \in Delays /\ delay[e] > 0
             /\ new = IF e \in Periodic THEN {Rel(Place(e, delay[e]), j)} ELSE {}
  <2>1. PICK p \in fs : p.entry = e
    BY <1>3, <1>8 DEF Alive
  <2>2. e \notin Alive(kept)
    BY <1>3, <1>8
  <2>3. \A q \in w.refs : q.entry = e => q \in fs
    <3> SUFFICES ASSUME NEW q \in w.refs \ fs, q.entry = e PROVE FALSE
      OBVIOUS
    <3>1. Rotated(q, "second") \in kept /\ Rotated(q, "second").entry = e
      BY <1>6
    <3> QED BY <2>2, <3>1 DEF Alive
  <2>4. old = {t}
    <3>1. \A x \in old : x = t
      BY <1>5, <2>3, RelsOf
    <3>2. t \in old
      BY <1>5, <2>1, RelsIn
    <3> QED BY <3>1, <3>2
  <2>5. e \in Entries /\ delay[e] \in Delays /\ delay[e] > 0
    BY <1>5, <2>1 DEF Fitting, WheelRefs
  <2>6. \A r \in v.refs : r.entry = e => e \in Periodic /\ r = Place(e, delay[e])
    <3> SUFFICES ASSUME NEW r \in v.refs, r.entry = e PROVE e \in Periodic /\ r = Place(e, delay[e])
      OBVIOUS
    <3>1. r \notin kept
      BY <2>2 DEF Alive
    <3>2. PICK u \in ended \cap Periodic : r = Place(u, delay[u])
      BY <1>2, <1>4, <3>1
    <3>3. u = e
      BY <3>2 DEF Place
    <3> QED BY <3>2, <3>3
  <2>7. CASE e \in Periodic
    <3>1. Place(e, delay[e]) \in v.refs /\ Place(e, delay[e]).entry = e
      BY <1>2, <1>4, <1>8, <2>7 DEF Place
    <3>2. Rel(Place(e, delay[e]), j) \in new
      BY <3>1, RelsIn
    <3>3. \A x \in new : x = Rel(Place(e, delay[e]), j)
      BY <2>6, RelsOf
    <3> HIDE DEF new
    <3>4. new = {Rel(Place(e, delay[e]), j)}
      BY <3>2, <3>3
    <3> QED BY <2>4, <2>5, <2>7, <3>4
  <2>8. CASE e \notin Periodic
    <3>1. new = {}
      BY <2>6, <2>8, RelsOf
    <3> QED BY <2>4, <2>5, <2>8, <3>1
  <2> QED BY <2>7, <2>8
<1>9. ASSUME e \notin ended
      PROVE  new \subseteq old /\ old \subseteq new \cup {t} /\ (old # {} => new # {})
  <2>1. \A r \in v.refs : r.entry = e => r \in kept
    <3> SUFFICES ASSUME NEW r \in again, r.entry = e PROVE FALSE
      BY <1>2
    <3>1. PICK u \in ended : r = Place(u, delay[u])
      BY <1>4
    <3>2. u = e
      BY <3>1 DEF Place
    <3> QED BY <1>9, <3>1, <3>2
  <2>2. ASSUME NEW x \in new PROVE x \in old
    <3>1. PICK r \in v.refs : r.entry = e /\ x = Rel(r, j)
      BY <2>2, RelsOf
    <3>2. PICK q \in w.refs \ fs : r = Rotated(q, "second")
      BY <1>7, <2>1, <3>1
    <3>3. q.entry = e /\ Rel(q, k) = x
      BY <1>6, <3>1, <3>2
    <3> QED BY <3>3, RelsIn
  <2>3. ASSUME NEW x \in old PROVE x \in new \cup {t}
    <3>1. PICK q \in w.refs : q.entry = e /\ x = Rel(q, k)
      BY <2>3, RelsOf
    <3>2. CASE q \in fs
      BY <1>5, <3>1, <3>2
    <3>3. CASE q \notin fs
      <4> DEFINE r == Rotated(q, "second")
      <4>1. r \in v.refs /\ r.entry = e /\ Rel(r, j) = x
        BY <1>2, <1>6, <3>1, <3>3
      <4> HIDE DEF r
      <4>2. x \in new
        BY <4>1, RelsIn
      <4> QED BY <4>2
    <3> QED BY <3>2, <3>3
  <2>4. ASSUME old # {} PROVE new # {}
    <3>1. PICK q \in w.refs : q.entry = e
      BY <2>4, RelsOf
    <3>2. e \in Alive(kept)
      <4>1. CASE q \in fs
        BY <1>3, <1>9, <3>1, <4>1 DEF Alive
      <4>2. CASE q \notin fs
        <5>1. Rotated(q, "second") \in kept /\ Rotated(q, "second").entry = e
          BY <1>6, <3>1, <4>2
        <5> QED BY <5>1 DEF Alive
      <4> QED BY <4>1, <4>2
    <3>3. PICK r \in kept : r.entry = e
      BY <3>2 DEF Alive
    <3>4. Rel(r, j) \in new
      BY <1>2, <3>3, RelsIn
    <3> QED BY <3>4
  <2> QED BY <2>2, <2>3, <2>4
<1> HIDE DEF old, new
<1>10. LetsGo(e, t, ended, old, new, j)
  BY Zenon, <1>8, <1>9 DEF LetsGo
<1> QED BY <1>10 DEF old, new, ended, v

-----------------------------------------------------------------------------
(* A whole turn.                                                           *)

\* The counts after the wheels in done have turned for the tick after t.
Counts(t, done) == [l \in Levels |-> IF l \in done THEN (t + 1) \div Unit[l] ELSE t \div Unit[l]]

LEMMA CountsType ==
  ASSUME NEW t \in Nat, NEW done
  PROVE  Counts(t, done) \in [Levels -> Nat]
<1>1. ASSUME NEW l \in Levels PROVE t \div Unit[l] \in Nat /\ (t + 1) \div Unit[l] \in Nat
  <2> DEFINE u == Unit[l]
  <2>1. u \in Nat \ {0} /\ t + 1 \in Nat
    BY Units
  <2> HIDE DEF u
  <2>2. t \div u \in Nat /\ (t + 1) \div u \in Nat
    BY <2>1, Division
  <2> QED BY <2>2 DEF u
<1> QED BY <1>1 DEF Counts

\* One wheel turns, after all that are finer.
LEMMA CountsNext ==
  ASSUME NEW t \in Nat, NEW done, NEW level \in Levels \ done,
         \A l \in Levels : Unit[l] < Unit[level] => l \in done
  PROVE  /\ (t + 1) % Unit[level] = 0 => TurnsOnce(level, Counts(t, done), Counts(t, done \cup {level}), t + 1)
         /\ (t + 1) % Unit[level] # 0 => Counts(t, done \cup {level}) = Counts(t, done)
<1> DEFINE k == Counts(t, done)
           j == Counts(t, done \cup {level})
           u == Unit[level]
<1>1. k \in [Levels -> Nat] /\ j \in [Levels -> Nat]
  BY CountsType
<1>2. /\ \A l \in Levels : k[l] = IF l \in done THEN (t + 1) \div Unit[l] ELSE t \div Unit[l]
      /\ \A l \in Levels : j[l] = IF l \in done \cup {level} THEN (t + 1) \div Unit[l] ELSE t \div Unit[l]
  BY DEF Counts
<1>3. /\ (t + 1) % u = 0 => (t + 1) \div u = (t \div u) + 1 /\ ((t \div u) + 1) * u = t + 1
      /\ (t + 1) % u # 0 => (t + 1) \div u = t \div u
  <2>1. u \in Nat \ {0}
    BY Units
  <2> HIDE DEF u
  <2> QED BY <2>1, NextDivision
<1> HIDE DEF k, j
<1>4. ASSUME (t + 1) % u = 0 PROVE TurnsOnce(level, k, j, t + 1)
  <2>1. k[level] = t \div u /\ j[level] = (t + 1) \div u
    BY <1>2
  <2>2. j[level] = k[level] + 1 /\ (k[level] + 1) * Unit[level] = t + 1
    BY <1>3, <1>4, <2>1
  <2>3. \A l \in Levels \ {level} : j[l] = k[l]
    BY <1>2
  <2>4. ASSUME NEW l \in Levels, Unit[l] < Unit[level] PROVE j[l] * Unit[l] = t + 1
    <3> DEFINE v == Unit[l]
    <3>1. v \in Nat \ {0} /\ u \in Nat \ {0} /\ u % v = 0 /\ t + 1 \in Nat
      BY <2>4, Units
    <3>2. j[l] = (t + 1) \div v
      BY <1>2, <2>4
    <3> HIDE DEF u, v
    <3>3. ((t + 1) % u) % v = (t + 1) % v /\ 0 % v = 0
      <4>1. ((t + 1) % u) % v = (t + 1) % v
        BY <3>1, Multiple
      <4>2. 0 % v = 0
        BY <3>1
      <4> QED BY <4>1, <4>2
    <3>4. (t + 1) % v = 0
      BY <1>4, <3>3
    <3>5. (t + 1) \div v \in Nat /\ t + 1 = (((t + 1) \div v) * v) + ((t + 1) % v)
      BY <3>1, Division
    <3>6. ((t + 1) \div v) * v \in Nat
      BY <3>1, <3>5
    <3>7. ((t + 1) \div v) * v = t + 1
      BY <3>4, <3>5, <3>6
    <3> QED BY <3>2, <3>7 DEF v
  <2> QED BY <1>1, <2>2, <2>3, <2>4 DEF TurnsOnce
<1>5. ASSUME (t + 1) % u # 0 PROVE j = k
  <2>1. \A l \in Levels : j[l] = k[l]
    BY <1>2, <1>3, <1>5
  <2> QED BY <1>1, <2>1
<1> QED BY <1>4, <1>5 DEF k, j, u

\* The outer wheel that is the next after done.
NextOuter(level, done) ==
  /\ level \in Levels \ done /\ level # "second"
  /\ \A l \in Levels : Unit[l] < Unit[level] => l \in done

Sound(w) == ~w.crashed
EndsNone(w, v) == v.ended = w.ended
SameTicks(w, k, v, j) == \A e : Rels(v.refs, e, j) = Rels(w.refs, e, k)

\* Each of the outer wheels, when it goes well.
LEMMA OuterIf ==
  ASSUME NEW t \in Nat, NEW done, NEW level, NextOuter(level, done),
         NEW w, Turning(w), Sound(PopIf(w, level, t + 1))
  PROVE  /\ EndsNone(w, PopIf(w, level, t + 1)) /\ Sound(w)
         /\ SameTicks(w, Counts(t, done), PopIf(w, level, t + 1), Counts(t, done \cup {level}))
<1> DEFINE v == PopUp(w, level)
           k == Counts(t, done)
           j == Counts(t, done \cup {level})
<1>0. /\ level \in Levels \ done /\ level # "second"
      /\ \A l \in Levels : Unit[l] < Unit[level] => l \in done
      /\ \A r \in w.refs : Fitting(r)
  BY DEF NextOuter, Turning
<1>1. CASE (t + 1) % Unit[level] = 0
  <2>1. PopIf(w, level, t + 1) = v
    BY <1>1 DEF PopIf
  <2>2. Sound(w) /\ ~v.crashed
    <3>1. v.crashed = (w.crashed \/ \E r \in Closures(w.refs, level) : OutOfRange(r.rest))
      BY PopUpParts
    <3> QED BY Zenon, <2>1, <3>1 DEF Sound
  <2>3. TurnsOnce(level, k, j, t + 1)
    BY <1>0, <1>1, CountsNext
  <2> HIDE DEF k, j
  <2>4. v.ended = w.ended /\ \A e : Rels(v.refs, e, j) = Rels(w.refs, e, k)
    BY <1>0, <2>2, <2>3, OuterPop
  <2>5. EndsNone(w, v) /\ SameTicks(w, k, v, j)
    BY <2>4 DEF EndsNone, SameTicks
  <2> HIDE DEF v
  <2> QED BY <2>1, <2>2, <2>5 DEF k, j
<1>2. CASE (t + 1) % Unit[level] # 0
  <2>1. PopIf(w, level, t + 1) = w
    BY <1>2 DEF PopIf
  <2>2. j = k
    BY <1>0, <1>2, CountsNext
  <2> QED BY <2>1, <2>2 DEF EndsNone, SameTicks
<1> QED BY <1>1, <1>2

\* The counts between the second wheel and the others.
Seconds(t) == Counts(t, {"second"})

LEMMA FirstPop ==
  ASSUME NEW t \in Nat, \A r \in refs : Fitting(r), NEW e
  PROVE  /\ PopUp(Fresh, "second").ended = Ended(refs, "second")
         /\ LetsGo(e, t + 1, Ended(refs, "second"), Rels(refs, e, Turns(t)),
                   Rels(PopUp(Fresh, "second").refs, e, Seconds(t)), Seconds(t))
<1> DEFINE k == Counts(t, {})
           j == Counts(t, {} \cup {"second"})
<1>1. "second" \in Levels \ {} /\ Unit["second"] = 1 /\ \A l \in Levels : Unit[l] \in Nat \ {0}
  BY Units DEF Levels, Unit
<1>2. \A l \in Levels : Unit[l] < Unit["second"] => l \in {}
  BY <1>1
<1>3. (t + 1) % Unit["second"] = 0
  BY <1>1
<1>4. TurnsOnce("second", k, j, t + 1)
  BY <1>1, <1>2, <1>3, CountsNext
<1>5. k = Turns(t) /\ j = Seconds(t)
  BY DEF Counts, Turns, Seconds
<1>6. Fresh.refs = refs /\ Fresh.ended = {}
  BY DEF Fresh
<1> HIDE DEF k, j
<1>7. LetsGo(e, t + 1, Ended(Fresh.refs, "second"), Rels(Fresh.refs, e, k), Rels(PopUp(Fresh, "second").refs, e, j), j)
  BY <1>4, <1>6, SecondPop
<1>8. PopUp(Fresh, "second").ended = Fresh.ended \cup Ended(Fresh.refs, "second")
  BY PopUpParts
<1>9. PopUp(Fresh, "second").ended = Ended(refs, "second")
  BY <1>6, <1>8
<1> QED BY <1>5, <1>6, <1>7, <1>9

LEMMA TurnKeeps ==
  ASSUME NEW t \in Nat, \A r \in refs : Fitting(r), ~Turn(t + 1).crashed, NEW e
  PROVE  LetsGo(e, t + 1, Turn(t + 1).ended, Rels(refs, e, Turns(t)),
                Rels(Turn(t + 1).refs, e, Turns(t + 1)), Seconds(t))
<1> DEFINE w1 == PopUp(Fresh, "second")
           w2 == PopIf(w1, "minute", t + 1)
           w3 == PopIf(w2, "hour", t + 1)
           w4 == PopIf(w3, "day", t + 1)
           d1 == {"second"}
           d2 == d1 \cup {"minute"}
           d3 == d2 \cup {"hour"}
           d4 == d3 \cup {"day"}
<1>1. Turn(t + 1) = w4
  BY TurnIs
<1>2. Unit["second"] = 1 /\ Unit["minute"] = Minute /\ Unit["hour"] = Hour /\ Unit["day"] = Day
  BY DEF Unit
<1>3. Minute \in Nat /\ Hour \in Nat /\ Day \in Nat /\ 1 < Minute /\ Minute < Hour /\ Hour < Day
  BY UnitsAssumption
<1>4. /\ "minute" \in Levels \ d1 /\ "hour" \in Levels \ d2 /\ "day" \in Levels \ d3
      /\ "second" \in Levels /\ d4 = Levels
  BY DEF Levels
<1>5. NextOuter("minute", d1) /\ NextOuter("hour", d2) /\ NextOuter("day", d3)
  <2>1. /\ \A l \in Levels : Unit[l] < Unit["minute"] => l \in d1
        /\ \A l \in Levels : Unit[l] < Unit["hour"] => l \in d2
        /\ \A l \in Levels : Unit[l] < Unit["day"] => l \in d3
    BY <1>2, <1>3 DEF Levels
  <2> QED BY <1>4, <2>1 DEF NextOuter
<1>6. Counts(t, d4) = Turns(t + 1)
  BY <1>4 DEF Counts, Turns
<1>7. Turning(Fresh)
  BY DEF Turning, Fresh
<1>8. Turning(w1) /\ Turning(w2) /\ Turning(w3)
  <2>1. Turning(w1)
    BY <1>4, <1>7, PopUpTurns
  <2> HIDE DEF w1
  <2>2. Turning(w2)
    BY <1>4, <2>1, PopUpTurns DEF PopIf
  <2> HIDE DEF w2
  <2>3. Turning(w3)
    BY <1>4, <2>2, PopUpTurns DEF PopIf
  <2> QED BY <2>1, <2>2, <2>3
<1>9. /\ w1.ended = Ended(refs, "second")
      /\ LetsGo(e, t + 1, Ended(refs, "second"), Rels(refs, e, Turns(t)), Rels(w1.refs, e, Counts(t, d1)), Seconds(t))
  BY FirstPop DEF Seconds
<1> HIDE DEF w1, d1
<1>13. /\ EndsNone(w3, w4) /\ Sound(w3)
       /\ SameTicks(w3, Counts(t, d3), w4, Counts(t, d4))
  <2>1. Sound(PopIf(w3, "day", t + 1))
    BY <1>1 DEF Sound
  <2> HIDE DEF w3, d3
  <2>2. /\ EndsNone(w3, PopIf(w3, "day", t + 1)) /\ Sound(w3)
        /\ SameTicks(w3, Counts(t, d3), PopIf(w3, "day", t + 1), Counts(t, d3 \cup {"day"}))
    BY <1>5, <1>8, <2>1, OuterIf
  <2> QED BY <2>2
<1>14. /\ EndsNone(w2, w3) /\ Sound(w2)
       /\ SameTicks(w2, Counts(t, d2), w3, Counts(t, d3))
  <2>1. Sound(PopIf(w2, "hour", t + 1))
    BY <1>13
  <2> HIDE DEF w2, d2
  <2>2. /\ EndsNone(w2, PopIf(w2, "hour", t + 1)) /\ Sound(w2)
        /\ SameTicks(w2, Counts(t, d2), PopIf(w2, "hour", t + 1), Counts(t, d2 \cup {"hour"}))
    BY <1>5, <1>8, <2>1, OuterIf
  <2> QED BY <2>2
<1>15. /\ EndsNone(w1, w2)
       /\ SameTicks(w1, Counts(t, d1), w2, Counts(t, d2))
  <2>1. Sound(PopIf(w1, "minute", t + 1))
    BY <1>14
  <2>2. /\ EndsNone(w1, PopIf(w1, "minute", t + 1)) /\ Sound(w1)
        /\ SameTicks(w1, Counts(t, d1), PopIf(w1, "minute", t + 1), Counts(t, d1 \cup {"minute"}))
    BY <1>5, <1>8, <2>1, OuterIf
  <2> QED BY <2>2
<1> HIDE DEF w2, w3, w4, d2, d3, d4
<1>16. w4.ended = Ended(refs, "second")
  BY <1>9, <1>13, <1>14, <1>15 DEF EndsNone
<1>17. Rels(w4.refs, e, Counts(t, d4)) = Rels(w1.refs, e, Counts(t, d1))
  BY <1>13, <1>14, <1>15 DEF SameTicks
<1> QED BY <1>1, <1>6, <1>9, <1>16, <1>17

-----------------------------------------------------------------------------
(* When an entry lets go.                                                  *)

\* No reference is late: it lets go at a later tick.
LEMMA Ahead ==
  ASSUME NEW t \in Nat, NEW r, Fitting(r)
  PROVE  Rel(r, Turns(t)) \in Nat /\ Rel(r, Turns(t)) >= t + 1
<1> DEFINE u == Unit[r.level]
           q == t \div u
           m == t % u
<1>1. r.level \in Levels /\ u \in Nat \ {0} /\ r.slot \in Nat /\ r.rest \in Nat
  BY Units DEF Fitting, WheelRefs
<1>2. Rel(r, Turns(t)) = (q + r.slot + 1) * u + r.rest
  BY <1>1 DEF Rel, Turns
<1>3. q \in Nat /\ m \in 0 .. u - 1 /\ t = (q * u) + m
  <2> HIDE DEF u
  <2> QED BY <1>1, Division
<1> HIDE DEF u, q, m
<1>4. (q + r.slot + 1) * u = (q * u) + (r.slot * u) + u
  <2>1. \A a, b, c \in Nat : (a + b + 1) * c = (a * c) + (b * c) + c
    OBVIOUS
  <2> QED BY <1>1, <1>3, <2>1
<1>5. q * u \in Nat /\ r.slot * u \in Nat
  BY <1>1, <1>3
<1> QED BY <1>1, <1>2, <1>3, <1>4, <1>5

\* How early an entry set for d may go off.
Early(d) == IF d < Minute THEN 0 ELSE Unit[Level(d)]

\* An entry inserted after tick t lets go in the window Alarms promises.
LEMMA PlacedWindow ==
  ASSUME NEW e \in Entries, NEW d \in Nat \ {0}, NEW t \in Nat
  PROVE  /\ Rel(Place(e, d), Turns(t)) \in Nat
         /\ t + 1 <= Rel(Place(e, d), Turns(t)) /\ Rel(Place(e, d), Turns(t)) <= t + d
         /\ t + d - Early(d) <= Rel(Place(e, d), Turns(t))
         /\ d < Minute => Rel(Place(e, d), Turns(t)) = t + d
<1> DEFINE a == Rel(Place(e, d), Turns(t))
           u == Unit[Level(d)]
           q == t \div u
           m == t % u
<1>1. Level(d) \in Levels /\ u \in Nat \ {0} /\ u <= d /\ (d < Minute => u = 1)
  BY LevelFits, Units DEF Unit
<1>2. Turns(t) \in [Levels -> Nat] /\ Turns(t)[Level(d)] = q
  <2>1. \A l \in Levels : t \div Unit[l] \in Nat
    BY Units, Division
  <2> QED BY <1>1, <2>1 DEF Turns
<1>3. a = (q * u) + d
  BY <1>2, Placed
<1>4. q \in Nat /\ m \in 0 .. u - 1 /\ t = (q * u) + m
  <2> HIDE DEF u
  <2> QED BY <1>1, Division
<1>5. Early(d) = IF d < Minute THEN 0 ELSE u
  BY DEF Early
<1> HIDE DEF a, u, q, m
<1>6. q * u \in Nat
  BY <1>1, <1>4
<1>7. Minute \in Nat
  BY UnitsAssumption
<1> QED BY <1>1, <1>3, <1>4, <1>5, <1>6, <1>7 DEF a

\* RunEvery's callback inserts the entry when the second wheel has turned for
\* tick t + 1 and the others have not.
LEMMA AgainWindow ==
  ASSUME NEW e \in Entries, NEW d \in Nat \ {0}, NEW t \in Nat
  PROVE  /\ Rel(Place(e, d), Seconds(t)) \in Nat
         /\ Rel(Place(e, d), Seconds(t)) <= t + 1 + d
         /\ t + 1 + d - Early(d) <= Rel(Place(e, d), Seconds(t))
         /\ d < Minute => Rel(Place(e, d), Seconds(t)) = t + 1 + d
<1> DEFINE a == Rel(Place(e, d), Seconds(t))
           u == Unit[Level(d)]
           q == t \div u
           m == t % u
<1>1. Level(d) \in Levels /\ u \in Nat \ {0} /\ u <= d /\ (d < Minute => u = 1)
  BY LevelFits, Units DEF Unit
<1>2. Seconds(t) \in [Levels -> Nat]
  BY CountsType DEF Seconds
<1>3. a = (Seconds(t)[Level(d)] * u) + d
  BY <1>2, Placed
<1>4. q \in Nat /\ m \in 0 .. u - 1 /\ t = (q * u) + m
  <2> HIDE DEF u
  <2> QED BY <1>1, Division
<1>5. Early(d) = IF d < Minute THEN 0 ELSE u
  BY DEF Early
<1>6. Minute \in Nat
  BY UnitsAssumption
<1>7. CASE d < Minute
  <2>1. Level(d) = "second" /\ u = 1
    BY <1>1, <1>7, LevelFits
  <2>2. Seconds(t)[Level(d)] = t + 1
    BY <2>1 DEF Seconds, Counts, Levels, Unit
  <2> HIDE DEF a, u, q, m
  <2>3. a = t + 1 + d
    BY <1>3, <2>1, <2>2
  <2> QED BY <1>5, <1>7, <2>3 DEF a
<1>8. CASE ~(d < Minute)
  <2>1. Level(d) # "second"
    BY <1>8, LevelFits
  <2>2. Seconds(t)[Level(d)] = q
    BY <1>1, <2>1 DEF Seconds, Counts
  <2> HIDE DEF a, u, q, m
  <2>3. q * u \in Nat
    BY <1>1, <1>4
  <2> QED BY <1>1, <1>3, <1>4, <1>5, <1>6, <1>8, <2>2, <2>3 DEF a
<1> QED BY <1>7, <1>8

\* What InsertEntry refuses does not fit the second wheel.
LEMMA RejectedIsLong == ASSUME NEW d \in Nat, Rejected(d) PROVE d >= Minute
<1>1. Minute \in Nat /\ Day \in Nat \ {0} /\ Minute < Day /\ MaxDays \in Nat
  BY UnitsAssumption
<1>2. SUFFICES ASSUME d < Minute PROVE FALSE
  BY <1>1
<1>3. d \in 0 .. Day - 1 /\ 0 * Day + d = d
  BY <1>1, <1>2
<1>4. d \div Day = 0
  BY <1>1, <1>3, DivisionIs
<1> QED BY <1>1, <1>4 DEF Rejected

-----------------------------------------------------------------------------
(* The invariant.                                                          *)

With(rs, p) == rs \cup {p}

LEMMA RelsWith ==
  ASSUME NEW rs, NEW p, NEW k, NEW e
  PROVE  /\ p.entry = e => Rels(With(rs, p), e, k) = Rels(rs, e, k) \cup {Rel(p, k)}
         /\ p.entry # e => Rels(With(rs, p), e, k) = Rels(rs, e, k)
<1> DEFINE old == {q \in rs : q.entry = e}
           new == {q \in With(rs, p) : q.entry = e}
<1>1. CASE p.entry = e
  <2>1. new = old \cup {p}
    BY <1>1 DEF With
  <2> HIDE DEF old, new
  <2>2. {Rel(r, k) : r \in new} = {Rel(r, k) : r \in old} \cup {Rel(p, k)}
    BY <2>1
  <2> QED BY <1>1, <2>2 DEF Rels, old, new
<1>2. CASE p.entry # e
  <2>1. new = old
    BY <1>2 DEF With
  <2> QED BY <1>2, <2>1 DEF Rels
<1> QED BY <1>1, <1>2

LEMMA WheelInvInit == WheelInit => WheelInv
<1> SUFFICES ASSUME WheelInit PROVE WheelInv
  OBVIOUS
<1>1. /\ tick \in Nat /\ delay \in [Entries -> Nat]
      /\ promised \in [Entries -> Nat] /\ goneOff \in [Entries -> Nat]
  BY DEF WheelInit
<1>2. \A r \in refs : Fitting(r)
  BY DEF WheelInit
<1>3. ASSUME NEW e \in Entries PROVE Promises(e)
  <2>1. Rels(refs, e, Turns(tick)) = {}
    BY DEF WheelInit, Rels
  <2> QED BY <2>1 DEF Promises, Promise
<1> QED BY <1>1, <1>2, <1>3 DEF WheelInv

\* Whoever is in the wheels was inserted for some time.
LEMMA AliveDelay ==
  ASSUME WheelInv, NEW e \in Alive(refs)
  PROVE  e \in Entries /\ delay[e] \in Delays /\ delay[e] > 0
BY DEF WheelInv, Fitting, WheelRefs, Alive

\* InsertEntry, called by Start for a new entry and by ExtendLife with the
\* delay the entry has.
LEMMA InsertKeeps ==
  ASSUME WheelInv, NEW e \in Entries, NEW d \in Delays, d > 0, delay[e] \in {0, d}, InsertEntry(e, d)
  PROVE  WheelInv'
<1> DEFINE p == Place(e, d)
           k == Turns(tick)
<1>1. d \in Nat \ {0} /\ tick \in Nat /\ tick + d \in Nat
  <2>1. d \in Nat \ {0}
    BY DelaysAssumption
  <2> QED BY <2>1 DEF WheelInv
<1>2. tick' = tick /\ delay' = [delay EXCEPT ![e] = d] /\ promised' = [promised EXCEPT ![e] = tick + d]
  BY DEF InsertEntry
<1>3. goneOff' = goneOff \/ goneOff' = [goneOff EXCEPT ![e] = tick]
  BY DEF InsertEntry
<1>4. /\ tick' \in Nat /\ delay' \in [Entries -> Nat]
      /\ promised' \in [Entries -> Nat] /\ goneOff' \in [Entries -> Nat]
  BY <1>1, <1>2, <1>3 DEF WheelInv
<1>5. /\ \A x \in Entries \ {e} : delay'[x] = delay[x] /\ promised'[x] = promised[x]
      /\ delay'[e] = d /\ promised'[e] = tick + d
  BY <1>2 DEF WheelInv
<1>6. \A r \in refs : r.entry \in Entries /\ delay'[r.entry] = delay[r.entry]
  <2> SUFFICES ASSUME NEW r \in refs PROVE r.entry \in Entries /\ delay'[r.entry] = delay[r.entry]
    OBVIOUS
  <2>1. r.entry \in Entries /\ delay[r.entry] > 0
    BY DEF WheelInv, Fitting, WheelRefs
  <2> QED BY <1>5, <2>1
<1>7. \A r \in refs : Fitting(r)'
  BY <1>6 DEF WheelInv, Fitting
<1>8. p \in WheelRefs /\ p.entry = e /\ Fitting(p)'
  <2>1. k \in [Levels -> Nat]
    BY <1>1, Units, Division DEF Turns
  <2>2. /\ p \in WheelRefs /\ p.entry = e /\ p.level = Level(d) /\ p.rest < Unit[p.level]
        /\ d >= Minute => p.rest % Minute = d % Minute
    BY <1>1, <2>1, Placed
  <2>3. p.level = "second" <=> d < Minute
    BY <1>1, <2>2, LevelFits
  <2>4. Minute \in Nat
    BY UnitsAssumption
  <2> HIDE DEF p, k
  <2>5. p.level # "second" => d >= Minute /\ p.rest % Minute = d % Minute
    BY <1>1, <2>2, <2>3, <2>4
  <2> QED BY <1>1, <1>5, <2>2, <2>5 DEF Fitting
<1>9. ASSUME NEW x \in Entries \ {e} PROVE Promises(x)'
  <2>1. refs' = refs \/ refs' = refs \cup {p}
    BY DEF InsertEntry
  <2>2. Rels(refs', x, k) = Rels(refs, x, k)
    <3> HIDE DEF p, k
    <3>1. Rels(With(refs, p), x, k) = Rels(refs, x, k)
      BY <1>8, <1>9, RelsWith
    <3> QED BY <2>1, <3>1 DEF With
  <2>3. Promises(x)
    BY DEF WheelInv
  <2> QED BY <1>2, <1>5, <2>2, <2>3 DEF Promises
<1>10. Promises(e)'
  <2> DEFINE old == Rels(refs, e, k)
  <2>1. \A y \in old : y <= tick + d
    <3>1. CASE delay[e] = d
      BY <3>1 DEF WheelInv, Promises, Promise
    <3>2. CASE delay[e] = 0
      <4>1. e \notin Alive(refs)
        BY <3>2, AliveDelay
      <4> QED BY <4>1, AliveIs
    <3> QED BY <3>1, <3>2
  <2>2. Promise(Rels(refs', e, k), tick, d, tick + d)
    <3>1. CASE Rejected(d) /\ refs' = refs
      <4>1. ~(d < Minute)
        BY <1>1, <3>1, RejectedIsLong, UnitsAssumption
      <4> HIDE DEF k
      <4> QED BY <2>1, <3>1, <4>1 DEF Promise
    <3>2. CASE refs' = refs \cup {p}
      <4>1. Rels(refs', e, k) = old \cup {Rel(p, k)}
        <5> HIDE DEF p, k
        <5>1. Rels(With(refs, p), e, k) = Rels(refs, e, k) \cup {Rel(p, k)}
          BY <1>8, RelsWith
        <5> QED BY <3>2, <5>1 DEF With, old
      <4>2. Rel(p, k) \in Nat /\ Rel(p, k) <= tick + d /\ (d < Minute => Rel(p, k) = tick + d)
        BY <1>1, PlacedWindow
      <4> HIDE DEF p, k, old
      <4> QED BY <1>1, <2>1, <4>1, <4>2 DEF Promise
    <3> QED BY <3>1, <3>2 DEF InsertEntry
  <2> QED BY <1>2, <1>5, <2>2 DEF Promises
<1>11. \A r \in refs' : Fitting(r)'
  <2>1. refs' = refs \/ refs' = refs \cup {p}
    BY DEF InsertEntry
  <2> HIDE DEF p
  <2> QED BY <1>7, <1>8, <2>1
<1> QED BY <1>4, <1>9, <1>10, <1>11 DEF WheelInv

\* What a turn that goes well does, when all that holds in WheelInv holds: the
\* ticks of an entry that stays lose the tick of the turn, and nothing that is
\* left is due.
LEMMA TurnTicks ==
  ASSUME WheelInv, ~Turn(tick + 1).crashed, NEW e
  PROVE  /\ \A r \in Turn(tick + 1).refs : Fitting(r)
         /\ LetsGo(e, tick + 1, Turn(tick + 1).ended, Rels(refs, e, Turns(tick)),
                   Rels(Turn(tick + 1).refs, e, Turns(tick + 1)), Seconds(tick))
         /\ \A x \in Rels(Turn(tick + 1).refs, e, Turns(tick + 1)) : x \in Nat /\ x >= tick + 2
<1> DEFINE w == Turn(tick + 1)
<1>1. tick \in Nat /\ \A r \in refs : Fitting(r)
  BY DEF WheelInv
<1>2. \A r \in w.refs : Fitting(r)
  BY <1>1, TurnTurns DEF Turning
<1>3. LetsGo(e, tick + 1, w.ended, Rels(refs, e, Turns(tick)), Rels(w.refs, e, Turns(tick + 1)), Seconds(tick))
  BY <1>1, TurnKeeps
<1> HIDE DEF w
<1>4. ASSUME NEW x \in Rels(w.refs, e, Turns(tick + 1)) PROVE x \in Nat /\ x >= tick + 2
  <2>1. PICK r \in w.refs : x = Rel(r, Turns(tick + 1))
    BY <1>4, RelsOf
  <2>2. tick + 1 \in Nat /\ Fitting(r)
    BY <1>1, <1>2
  <2>3. x \in Nat /\ x >= (tick + 1) + 1
    BY <2>1, <2>2, Ahead
  <2> QED BY <1>1, <2>3
<1> QED BY <1>2, <1>3, <1>4 DEF w

\* Two disjuncts of OnTimer: the turn that goes well.
Turned ==
  LET w == Turn(tick + 1) IN
  /\ ~w.crashed
  /\ tick' = tick + 1 /\ refs' = w.refs /\ delay' = delay
  /\ goneOff' = [e \in Entries |-> IF e \in w.ended THEN tick + 1 ELSE goneOff[e]]
  /\ promised' = [e \in Entries |-> IF e \in w.ended \cap Periodic
                                    THEN tick + 1 + delay[e] ELSE promised[e]]

LEMMA OnTimerTurns == OnTimer => Turned \/ Crash
BY Zenon DEF OnTimer, Turned

LEMMA TurnedKeeps == ASSUME WheelInv, Turned PROVE WheelInv'
<1> DEFINE w == Turn(tick + 1)
<1>1. /\ ~w.crashed /\ tick' = tick + 1 /\ refs' = w.refs /\ delay' = delay
      /\ goneOff' = [e \in Entries |-> IF e \in w.ended THEN tick + 1 ELSE goneOff[e]]
      /\ promised' = [e \in Entries |-> IF e \in w.ended \cap Periodic
                                        THEN tick + 1 + delay[e] ELSE promised[e]]
  BY Zenon DEF Turned
<1>2. \A r \in w.refs : Fitting(r)
  BY <1>1, TurnTicks
<1>3. ASSUME NEW e \in Entries
      PROVE  /\ LetsGo(e, tick + 1, w.ended, Rels(refs, e, Turns(tick)), Rels(w.refs, e, Turns(tick + 1)), Seconds(tick))
             /\ \A x \in Rels(w.refs, e, Turns(tick + 1)) : x \in Nat /\ x >= tick + 2
  BY <1>1, TurnTicks
<1> HIDE DEF w
<1>4. tick \in Nat /\ delay \in [Entries -> Nat] /\ promised \in [Entries -> Nat] /\ goneOff \in [Entries -> Nat]
  BY DEF WheelInv
<1>5. tick' \in Nat /\ delay' \in [Entries -> Nat] /\ promised' \in [Entries -> Nat] /\ goneOff' \in [Entries -> Nat]
  BY <1>1, <1>4
<1>6. \A r \in refs' : Fitting(r)'
  BY <1>1, <1>2 DEF Fitting
<1>7. ASSUME NEW e \in Entries PROVE Promises(e)'
  <2> DEFINE old == Rels(refs, e, Turns(tick))
             new == Rels(w.refs, e, Turns(tick + 1))
             d == delay[e]
             t == tick + 1
  <2>1. Promise(old, tick, d, promised[e])
    BY DEF WheelInv, Promises
  <2>2. d \in Nat /\ t \in Nat /\ promised[e] \in Nat
    BY <1>4
  <2>3. LetsGo(e, t, w.ended, old, new, Seconds(tick)) /\ \A x \in new : x \in Nat /\ x >= tick + 2
    BY <1>3
  <2>4. promised'[e] = IF e \in w.ended \cap Periodic THEN t + d ELSE promised[e]
    BY <1>1
  <2>5. CASE e \in w.ended /\ e \in Periodic
    <3> DEFINE a == Rel(Place(e, delay[e]), Seconds(tick))
    <3>1. new = {a} /\ delay[e] > 0
      BY <2>3, <2>5 DEF LetsGo
    <3>2. a <= tick + 1 + d /\ (d < Minute => a = tick + 1 + d)
      <4>1. d \in Nat \ {0}
        BY <2>2, <3>1
      <4> HIDE DEF d
      <4>2. /\ Rel(Place(e, d), Seconds(tick)) <= tick + 1 + d
            /\ d < Minute => Rel(Place(e, d), Seconds(tick)) = tick + 1 + d
        BY <1>4, <4>1, AgainWindow
      <4> QED BY <4>2 DEF d
    <3> HIDE DEF a, new, d
    <3>3. Promise(new, t, d, t + d)
      BY <1>4, <2>2, <3>1, <3>2 DEF Promise
    <3> QED BY <1>1, <2>4, <2>5, <3>3 DEF Promises, new, d
  <2>6. CASE e \in w.ended /\ e \notin Periodic
    <3>1. new = {}
      BY <2>3, <2>6 DEF LetsGo
    <3>2. Promise(new, t, d, promised[e])
      BY <3>1 DEF Promise
    <3> QED BY <1>1, <2>4, <2>6, <3>2 DEF Promises
  <2>7. CASE e \notin w.ended
    <3>1. new \subseteq old /\ old \subseteq new \cup {t}
      BY <2>3, <2>7 DEF LetsGo
    <3> HIDE DEF new, old, d
    <3>2. \A x \in new : x <= t + d
      <4>1. \A x \in new : x <= tick + d /\ x \in Nat
        BY <2>1, <2>3, <3>1 DEF Promise
      <4> QED BY <1>4, <2>2, <4>1
    <3>3. ASSUME new # {}, d < Minute PROVE promised[e] \in new /\ \A x \in new : x <= promised[e]
      <4>1. promised[e] \in old /\ \A x \in old : x <= promised[e]
        BY <2>1, <3>1, <3>3 DEF Promise
      <4>2. PICK x \in new : TRUE
        BY <3>3
      <4>3. x <= promised[e] /\ x >= tick + 2 /\ x \in Nat
        BY <2>3, <3>1, <4>1
      <4>4. promised[e] # t
        BY <1>4, <2>2, <4>3
      <4> QED BY <3>1, <4>1, <4>4
    <3>4. Promise(new, t, d, promised[e])
      BY <3>2, <3>3 DEF Promise
    <3> QED BY <1>1, <2>4, <2>7, <3>4 DEF Promises, new, d
  <2> QED BY <2>5, <2>6, <2>7
<1> QED BY <1>5, <1>6, <1>7 DEF WheelInv

\* The variables WheelInv speaks of.
LEMMA StutterKeeps ==
  ASSUME WheelInv, UNCHANGED <<refs, tick, delay, promised, goneOff>>
  PROVE  WheelInv'
BY DEF WheelInv, Fitting, Promises

\* What ExtendLife and Start come to.
LEMMA InsertSteps ==
  ASSUME WheelInv, NEW e \in Entries, \/ ExtendLife(e) \/ \E d \in Delays : Start(e, d)
  PROVE  \/ Crash
         \/ \E d \in Delays : d > 0 /\ delay[e] \in {0, d} /\ (delay[e] = d => e \in Alive(refs)) /\ InsertEntry(e, d)
<1>1. CASE ExtendLife(e)
  <2>1. e \in Alive(refs) /\ InsertEntry(e, delay[e])
    BY <1>1 DEF ExtendLife
  <2>2. delay[e] \in Delays /\ delay[e] > 0
    BY <2>1, AliveDelay
  <2> QED BY <2>1, <2>2
<1>2. ASSUME NEW d \in Delays, Start(e, d)
      PROVE  Crash \/ (d > 0 /\ delay[e] = 0 /\ InsertEntry(e, d))
  <2>1. d \in Nat
    BY DelaysAssumption
  <2> QED BY <1>2, <2>1 DEF Start, OutOfRange
<1>3. CASE \E d \in Delays : Start(e, d)
  <2>1. PICK d \in Delays : Start(e, d)
    BY <1>3
  <2>2. CASE Crash
    BY <2>2
  <2>3. CASE d > 0 /\ delay[e] = 0 /\ InsertEntry(e, d)
    <3>1. delay[e] # d
      BY <2>3, DelaysAssumption
    <3> QED BY <2>3, <3>1
  <2> QED BY <1>2, <2>1, <2>2, <2>3
<1> QED BY <1>1, <1>3

LEMMA WheelInvStep == WheelInv /\ [WheelNext]_wheelVars => WheelInv'
<1> SUFFICES ASSUME WheelInv, [WheelNext]_wheelVars PROVE WheelInv'
  OBVIOUS
<1>1. CASE OnTimer
  <2>1. Crash => WheelInv'
    BY StutterKeeps DEF Crash
  <2> QED BY <1>1, <2>1, OnTimerTurns, TurnedKeeps
<1>2. CASE OnTimerFirst
  BY <1>2, StutterKeeps DEF OnTimerFirst
<1>3. CASE ClockMoves
  BY <1>3, StutterKeeps DEF ClockMoves
<1>4. ASSUME NEW e \in Entries, ExtendLife(e) \/ \E d \in Delays : Start(e, d)
      PROVE  WheelInv'
  <2>1. CASE Crash
    BY <2>1, StutterKeeps DEF Crash
  <2>2. ASSUME NEW d \in Delays, d > 0, delay[e] \in {0, d}, InsertEntry(e, d) PROVE WheelInv'
    BY <2>2, InsertKeeps
  <2> QED BY <1>4, <2>1, <2>2, InsertSteps
<1>5. CASE UNCHANGED wheelVars
  BY <1>5, StutterKeeps DEF wheelVars
<1> QED BY <1>1, <1>2, <1>3, <1>4, <1>5 DEF WheelNext

\* No entry that is in the wheels has an alarm further away than it asked for,
\* and one that fits the second wheel has its alarm at the tick it asked for.
THEOREM WheelInvariant == WheelSpec => []WheelInv
<1>1. WheelInit => WheelInv
  BY WheelInvInit
<1>2. WheelInv /\ [WheelNext]_wheelVars => WheelInv'
  BY WheelInvStep
<1> QED BY <1>1, <1>2, PTL DEF WheelSpec

\* While the wheels turn an index is out of range only for an entry with a delay
\* of whole minutes, whatever the wheels and the delays.
THEOREM WheelOnlyWholeUnitsCrash == WheelSpec => []OnlyWholeUnitsCrash
<1>1. WheelInv => OnlyWholeUnitsCrash
  <2> SUFFICES ASSUME WheelInv, Turn(tick + 1).crashed PROVE Whole
    BY DEF OnlyWholeUnitsCrash, Whole
  <2>1. \A r \in refs : Fitting(r)
    BY DEF WheelInv
  <2>2. Turning(Turn(tick + 1))
    BY <2>1, TurnTurns
  <2> QED BY <2>2 DEF Turning
<1> QED BY <1>1, WheelInvariant, PTL

\* An entry whose delay fits the second wheel goes off at exactly the tick it was
\* last asked to, also when it was extended in between.
THEOREM WheelExactWithinAMinute == WheelSpec => ExactWithinAMinute
<1> DEFINE Exact == \A e \in Entries :
             (goneOff'[e] # goneOff[e] /\ delay[e] \in 1 .. Minute - 1) => tick' = promised[e]
<1>1. ASSUME WheelInv, [WheelNext]_wheelVars PROVE [Exact]_wheelVars
  <2> SUFFICES ASSUME NEW e \in Entries, goneOff'[e] # goneOff[e], delay[e] \in 1 .. Minute - 1
               PROVE  tick' = promised[e]
    BY <1>1
  <2>1. CASE OnTimer
    <3> DEFINE w == Turn(tick + 1)
    <3>1. Turned
      BY <2>1, OnTimerTurns DEF Crash
    <3>2. /\ ~w.crashed /\ tick' = tick + 1
          /\ goneOff' = [x \in Entries |-> IF x \in w.ended THEN tick + 1 ELSE goneOff[x]]
      BY Zenon, <3>1 DEF Turned
    <3>3. LetsGo(e, tick + 1, w.ended, Rels(refs, e, Turns(tick)), Rels(w.refs, e, Turns(tick + 1)), Seconds(tick))
      BY <1>1, <3>2, TurnTicks
    <3> HIDE DEF w
    <3>4. e \in w.ended
      BY <3>2
    <3>5. Rels(refs, e, Turns(tick)) = {tick + 1}
      BY <3>3, <3>4 DEF LetsGo
    <3>6. delay[e] < Minute
      BY UnitsAssumption
    <3>7. promised[e] \in Rels(refs, e, Turns(tick))
      BY <1>1, <3>5, <3>6 DEF WheelInv, Promises, Promise
    <3> QED BY <3>2, <3>5, <3>7
  <2>2. CASE OnTimerFirst
    BY <2>2 DEF OnTimerFirst
  <2>3. CASE ClockMoves
    BY <2>3 DEF ClockMoves
  <2>4. ASSUME NEW x \in Entries, ExtendLife(x) \/ \E d \in Delays : Start(x, d)
        PROVE  FALSE
    <3>1. PICK d \in Delays : d > 0 /\ delay[x] \in {0, d} /\ InsertEntry(x, d)
      BY <1>1, <2>4, InsertSteps DEF Crash
    <3>2. Rejected(d) /\ goneOff' = [goneOff EXCEPT ![x] = tick]
      BY <3>1 DEF InsertEntry
    <3>3. x = e
      BY <1>1, <3>2 DEF WheelInv
    <3>4. d \in Nat /\ d = delay[e]
      BY <3>1, <3>3, DelaysAssumption
    <3>5. d >= Minute
      BY <3>2, <3>4, RejectedIsLong
    <3> QED BY <3>4, <3>5, UnitsAssumption
  <2>5. CASE UNCHANGED wheelVars
    BY <2>5 DEF wheelVars
  <2> QED BY <1>1, <2>1, <2>2, <2>3, <2>4, <2>5 DEF WheelNext
<1>2. WheelInv /\ [WheelNext]_wheelVars => [Exact]_wheelVars
  BY <1>1
<1>3. WheelSpec => [][Exact]_wheelVars
  BY <1>2, WheelInvariant, PTL DEF WheelSpec
<1> QED BY <1>3 DEF ExactWithinAMinute

-----------------------------------------------------------------------------
(* The wheels implement the alarms.                                        *)

\* The alarm of an entry whose references let go at these ticks.
LastTick(ticks) == IF ticks = {} THEN 0 ELSE Max(ticks)

Lasts(rs, t) == [e \in Entries |-> LastTick(Rels(rs, e, Turns(t)))]

LEMMA LastsIs ==
  ASSUME NEW rs, NEW t, \A r \in rs : r.level \in Levels
  PROVE  [e \in Entries |->
            IF e \in Alive(rs)
            THEN Max({((t \div Unit[r.level]) + r.slot + 1) * Unit[r.level] + r.rest :
                      r \in {q \in rs : q.entry = e}})
            ELSE 0] = Lasts(rs, t)
<1> DEFINE k == Turns(t)
           At(r) == ((t \div Unit[r.level]) + r.slot + 1) * Unit[r.level] + r.rest
<1>1. \A r \in rs : At(r) = Rel(r, k)
  BY DEF Rel, Turns
<1> HIDE DEF k, At
<1>2. ASSUME NEW e \in Entries
      PROVE  {At(r) : r \in {q \in rs : q.entry = e}} = Rels(rs, e, k)
  BY <1>1 DEF Rels
<1>3. ASSUME NEW e \in Entries
      PROVE  (IF e \in Alive(rs) THEN Max({At(r) : r \in {q \in rs : q.entry = e}}) ELSE 0)
                = LastTick(Rels(rs, e, k))
  BY <1>2, AliveIs DEF LastTick
<1>4. [e \in Entries |-> IF e \in Alive(rs) THEN Max({At(r) : r \in {q \in rs : q.entry = e}}) ELSE 0]
        = [e \in Entries |-> LastTick(Rels(rs, e, k))]
  BY <1>3
<1> QED BY <1>4 DEF Lasts, k, At

LEMMA AlarmIs == WheelInv => alarm = Lasts(refs, tick)
<1> SUFFICES ASSUME WheelInv PROVE alarm = Lasts(refs, tick)
  OBVIOUS
<1>1. \A r \in refs : r.level \in Levels
  BY DEF WheelInv, Fitting, WheelRefs
<1> QED BY <1>1, LastsIs DEF alarm, ReleaseTick

LEMMA NextAlarmIs == WheelInv' => alarm' = Lasts(refs', tick')
<1> SUFFICES ASSUME WheelInv' PROVE alarm' = Lasts(refs', tick')
  OBVIOUS
<1>1. \A r \in refs' : r.level \in Levels
  BY DEF WheelInv, Fitting, WheelRefs
<1> QED BY <1>1, LastsIs DEF alarm, ReleaseTick

\* The last tick of an entry is one of them, and bounds them.
LEMMA LastOf ==
  ASSUME WheelInv, NEW e \in Entries, Rels(refs, e, Turns(tick)) # {}
  PROVE  /\ LastTick(Rels(refs, e, Turns(tick))) \in Rels(refs, e, Turns(tick))
         /\ LastTick(Rels(refs, e, Turns(tick))) \in Nat
         /\ LastTick(Rels(refs, e, Turns(tick))) >= tick + 1
         /\ \A x \in Rels(refs, e, Turns(tick)) : x <= LastTick(Rels(refs, e, Turns(tick)))
<1> DEFINE ticks == Rels(refs, e, Turns(tick))
<1>1. tick \in Nat /\ tick + delay[e] \in Nat /\ \A x \in ticks : x <= tick + delay[e]
  BY DEF WheelInv, Promises, Promise
<1>2. \A x \in ticks : x \in Nat /\ x >= tick + 1
  <2> SUFFICES ASSUME NEW x \in ticks PROVE x \in Nat /\ x >= tick + 1
    OBVIOUS
  <2>1. PICK r \in refs : x = Rel(r, Turns(tick))
    BY RelsOf
  <2> QED BY <1>1, <2>1, Ahead DEF WheelInv
<1> HIDE DEF ticks
<1>3. ticks # {} /\ ticks \subseteq Nat
  BY <1>2 DEF ticks
<1>4. Max(ticks) \in ticks /\ \A x \in ticks : x <= Max(ticks)
  <2> DEFINE b == tick + delay[e]
  <2>1. b \in Nat /\ \A x \in ticks : x <= b
    BY <1>1
  <2> HIDE DEF b
  <2> QED BY <1>3, <2>1, MaxOfBounded
<1>5. LastTick(ticks) = Max(ticks)
  BY <1>3 DEF LastTick
<1> QED BY <1>2, <1>4, <1>5 DEF ticks

LEMMA AlarmsInit == WheelInit => Alarm!Init
<1> SUFFICES ASSUME WheelInit PROVE Alarm!Init
  OBVIOUS
<1>1. tick = 0 /\ delay \in [Entries -> {0}] /\ goneOff = [e \in Entries |-> 0]
  BY DEF WheelInit
<1>2. alarm = [e \in Entries |-> 0]
  BY DEF WheelInit, alarm, Alive
<1> QED BY <1>1, <1>2 DEF Alarm!Init

LEMMA EarlyIsSlot == ASSUME NEW d \in Nat \ {0} PROVE Early(d) = Alarm!Slot(d)
BY UnitsAssumption DEF Early, Alarm!Slot, Level, Unit

LEMMA MaxOfTwo ==
  ASSUME NEW a \in Int, NEW b \in Int
  PROVE  Alarm!Max({a, b}) = IF a >= b THEN a ELSE b
<1>1. Alarm!Max({a, b}) = Max({a, b})
  BY DEF Max, Alarm!Max
<1>2. CASE a >= b
  <2>1. Max({a, b}) = a
    BY <1>2, MaxIs
  <2> QED BY <1>1, <1>2, <2>1
<1>3. CASE ~(a >= b)
  <2>1. Max({a, b}) = b
    BY <1>3, MaxIs
  <2> QED BY <1>1, <1>3, <2>1
<1> QED BY <1>2, <1>3

LEMMA InWindow ==
  ASSUME NEW t \in Nat, NEW d \in Nat \ {0}, NEW a \in Nat, t + 1 <= a, a <= t + d, t + d - Early(d) <= a
  PROVE  a \in Alarm!Window(t, d)
<1> DEFINE b == t + d - Early(d)
<1>1. b \in Int /\ t + 1 \in Int
  BY LevelFits, Units DEF Early
<1>2. Alarm!Window(t, d) = Alarm!Max({t + 1, b}) .. t + d
  BY EarlyIsSlot DEF Alarm!Window
<1> HIDE DEF b
<1>3. Alarm!Max({t + 1, b}) = IF t + 1 >= b THEN t + 1 ELSE b
  BY <1>1, MaxOfTwo
<1> QED BY <1>1, <1>2, <1>3 DEF b

\* OnTimer is a tick of the alarms.
LEMMA TurnedIsTick == ASSUME WheelInv, WheelInv', Turned PROVE Alarm!Tick
<1> DEFINE w == Turn(tick + 1)
<1>1. /\ ~w.crashed /\ tick' = tick + 1 /\ refs' = w.refs /\ delay' = delay
      /\ goneOff' = [e \in Entries |-> IF e \in w.ended THEN tick + 1 ELSE goneOff[e]]
  BY Zenon DEF Turned
<1>2. ASSUME NEW e \in Entries
      PROVE  /\ LetsGo(e, tick + 1, w.ended, Rels(refs, e, Turns(tick)), Rels(w.refs, e, Turns(tick + 1)), Seconds(tick))
             /\ \A x \in Rels(w.refs, e, Turns(tick + 1)) : x \in Nat /\ x >= tick + 2
  BY <1>1, TurnTicks
<1> HIDE DEF w
<1>3. tick \in Nat /\ delay \in [Entries -> Nat]
  BY DEF WheelInv
<1>4. /\ alarm = [e \in Entries |-> LastTick(Rels(refs, e, Turns(tick)))]
      /\ alarm' = [e \in Entries |-> LastTick(Rels(w.refs, e, Turns(tick + 1)))]
  BY <1>1, AlarmIs, NextAlarmIs DEF Lasts
<1>5. ASSUME NEW e \in Entries
      PROVE  /\ alarm'[e] \in Nat
             /\ e \in w.ended <=> alarm[e] = tick + 1
             /\ e \notin w.ended => alarm'[e] = alarm[e]
             /\ e \in w.ended /\ e \in Periodic => alarm'[e] \in Alarm!Window(tick + 1, delay[e])
             /\ e \in w.ended /\ e \notin Periodic => alarm'[e] = 0
  <2> DEFINE old == Rels(refs, e, Turns(tick))
             new == Rels(w.refs, e, Turns(tick + 1))
             d == delay[e]
             t == tick + 1
  <2>1. LetsGo(e, t, w.ended, old, new, Seconds(tick)) /\ \A x \in new : x \in Nat /\ x >= tick + 2
    BY <1>2
  <2>2. alarm[e] = LastTick(old) /\ alarm'[e] = LastTick(new)
    BY <1>4
  <2>3. old # {} => LastTick(old) \in old /\ LastTick(old) \in Nat /\ \A x \in old : x <= LastTick(old)
    BY LastOf
  <2>4. t \in Nat /\ t = tick + 1 /\ t # 0 /\ d \in Nat
    BY <1>3
  <2>5. CASE e \in w.ended
    <3>1. old = {t}
      BY <2>1, <2>5 DEF LetsGo
    <3>2. alarm[e] = t
      BY <2>2, <2>3, <3>1
    <3>3. CASE e \in Periodic
      <4> DEFINE a == Rel(Place(e, delay[e]), Seconds(tick))
      <4>1. new = {a} /\ delay[e] > 0
        BY <2>1, <2>5, <3>3 DEF LetsGo
      <4>2. a \in Nat /\ a >= t + 1
        <5> HIDE DEF a, new
        <5>1. a \in Nat /\ a >= tick + 2
          BY <2>1, <4>1
        <5> QED BY <1>3, <5>1
      <4>3. d \in Nat \ {0}
        BY <2>4, <4>1
      <4> HIDE DEF d
      <4>4. /\ Rel(Place(e, d), Seconds(tick)) <= tick + 1 + d
            /\ tick + 1 + d - Early(d) <= Rel(Place(e, d), Seconds(tick))
        BY <1>3, <4>3, AgainWindow
      <4>5. a = Rel(Place(e, d), Seconds(tick))
        BY DEF d
      <4> HIDE DEF a, new
      <4>6. a \in Alarm!Window(t, d)
        <5>1. a <= t + d /\ t + d - Early(d) <= a
          BY <4>4, <4>5
        <5> HIDE DEF t
        <5> QED BY <2>4, <4>2, <4>3, <5>1, InWindow
      <4>7. LastTick(new) = a
        <5>1. Max(new) = a
          BY <4>1, <4>2, MaxIs
        <5> QED BY <4>1, <5>1 DEF LastTick
      <4> QED BY <2>2, <2>5, <3>2, <3>3, <4>2, <4>6, <4>7 DEF d, new
    <3>4. CASE e \notin Periodic
      <4>1. new = {}
        BY <2>1, <2>5, <3>4 DEF LetsGo
      <4>2. LastTick(new) = 0
        BY <4>1 DEF LastTick
      <4> QED BY <2>2, <2>5, <3>2, <3>4, <4>2
    <3> QED BY <3>3, <3>4
  <2>6. CASE e \notin w.ended
    <3>1. new \subseteq old /\ old \subseteq new \cup {t} /\ (old # {} => new # {})
      BY <2>1, <2>6 DEF LetsGo
    <3> HIDE DEF old, new
    <3>2. CASE old = {}
      <4>1. LastTick(old) = 0 /\ LastTick(new) = 0
        BY <3>1, <3>2 DEF LastTick
      <4> QED BY <2>2, <2>4, <2>6, <4>1
    <3>3. CASE old # {}
      <4>1. PICK x \in new : TRUE
        BY <3>1, <3>3
      <4>2. x \in Nat /\ x >= tick + 2 /\ x <= LastTick(old) /\ LastTick(old) \in Nat
        BY <2>1, <2>3, <3>1, <3>3
      <4>3. LastTick(old) # t
        BY <1>3, <4>2
      <4>4. LastTick(old) \in new /\ \A y \in new : y <= LastTick(old)
        BY <2>3, <3>1, <3>3, <4>3
      <4>5. Max(new) = LastTick(old)
        <5>1. new \subseteq Int
          BY <2>1
        <5> QED BY <4>4, <5>1, MaxIs
      <4>6. LastTick(new) = LastTick(old)
        BY <4>1, <4>5 DEF LastTick
      <4> QED BY <2>2, <2>6, <4>2, <4>3, <4>6
    <3> QED BY <3>2, <3>3
  <2> QED BY <2>5, <2>6
<1>6. Alarm!Due = {e \in Entries : alarm[e] = tick + 1}
  BY DEF Alarm!Due
<1>7. goneOff' = [e \in Entries |-> IF e \in Alarm!Due THEN tick' ELSE goneOff[e]]
  BY <1>1, <1>5, <1>6
<1>8. alarm' \in [Entries -> Nat]
  BY <1>4, <1>5
<1>9. ASSUME NEW e \in Entries
      PROVE  IF e \notin Alarm!Due THEN alarm'[e] = alarm[e]
             ELSE IF e \in Periodic THEN alarm'[e] \in Alarm!Window(tick', delay[e])
             ELSE alarm'[e] = 0
  BY <1>1, <1>5, <1>6
<1> QED BY <1>1, <1>7, <1>8, <1>9 DEF Alarm!Tick

\* InsertEntry sets the alarm of the entry, or refuses to.
LEMMA InsertIsSet ==
  ASSUME WheelInv, WheelInv', NEW e \in Entries, NEW d \in Delays, d > 0, InsertEntry(e, d)
  PROVE  Alarm!SetAlarm(e, d) \/ Alarm!Refuse(e, d)
<1> DEFINE p == Place(e, d)
           k == Turns(tick)
           at == Rel(p, k)
           old == Rels(refs, e, k)
<1>1. d \in Nat \ {0} /\ tick \in Nat
  <2>1. d \in Nat \ {0}
    BY DelaysAssumption
  <2> QED BY <2>1 DEF WheelInv
<1>2. tick' = tick /\ delay' = [delay EXCEPT ![e] = d]
  BY DEF InsertEntry
<1>3. alarm = Lasts(refs, tick) /\ alarm' = Lasts(refs', tick)
  BY <1>2, AlarmIs, NextAlarmIs
<1>4. CASE Rejected(d) /\ goneOff' = [goneOff EXCEPT ![e] = tick] /\ refs' = refs
  BY <1>2, <1>3, <1>4 DEF Alarm!Refuse, Rejected
<1>5. CASE ~Rejected(d) /\ goneOff' = goneOff /\ refs' = refs \cup {p}
  <2>1. d \div Day <= MaxDays
    <3>1. d \div Day \in Nat /\ MaxDays \in Nat
      BY <1>1, UnitsAssumption, Division
    <3> QED BY <1>5, <3>1 DEF Rejected
  <2>2. p.entry = e
    BY DEF Place
  <2>3. at \in Nat /\ at \in Alarm!Window(tick, d)
    <3>1. /\ at \in Nat /\ tick + 1 <= at /\ at <= tick + d /\ tick + d - Early(d) <= at
      BY <1>1, PlacedWindow
    <3> HIDE DEF at
    <3> QED BY <1>1, <3>1, InWindow
  <2>4. \A x \in Entries \ {e} : Rels(refs', x, k) = Rels(refs, x, k)
    <3> HIDE DEF p, k
    <3>1. \A x : p.entry # x => Rels(With(refs, p), x, k) = Rels(refs, x, k)
      BY RelsWith
    <3> QED BY <1>5, <2>2, <3>1 DEF With
  <2>5. Rels(refs', e, k) = old \cup {at}
    <3> HIDE DEF p, k
    <3>1. Rels(With(refs, p), e, k) = Rels(refs, e, k) \cup {Rel(p, k)}
      BY <2>2, RelsWith
    <3> QED BY <1>5, <3>1 DEF With, old, at
  <2>6. old # {} => LastTick(old) \in old /\ LastTick(old) \in Nat /\ \A x \in old : x <= LastTick(old)
    BY LastOf
  <2> HIDE DEF p, k, at, old
  <2>7. LastTick(old) \in Nat /\ LastTick(old \cup {at}) = Alarm!Max({LastTick(old), at})
    <3>1. CASE old = {}
      <4>1. LastTick(old) = 0
        BY <3>1 DEF LastTick
      <4>2. Max({at}) = at
        BY <2>3, MaxIs
      <4>3. LastTick(old \cup {at}) = at
        BY <3>1, <4>2 DEF LastTick
      <4>4. Alarm!Max({0, at}) = IF 0 >= at THEN 0 ELSE at
        BY <2>3, MaxOfTwo
      <4> QED BY <2>3, <4>1, <4>3, <4>4
    <3>2. CASE old # {}
      <4> DEFINE m == LastTick(old)
                 both == old \cup {at}
      <4>1. m \in old /\ m \in Nat /\ \A x \in old : x <= m
        BY <2>6, <3>2
      <4>2. old \subseteq Nat
        <5> SUFFICES ASSUME NEW x \in old PROVE x \in Nat
          OBVIOUS
        <5>1. PICK r \in refs : x = Rel(r, k)
          BY RelsOf DEF old
        <5> QED BY <1>1, <5>1, Ahead DEF WheelInv, k
      <4> HIDE DEF m
      <4>3. Alarm!Max({m, at}) = IF m >= at THEN m ELSE at
        BY <2>3, <4>1, MaxOfTwo
      <4>4. both \subseteq Int /\ both # {}
        BY <2>3, <4>2
      <4>5. CASE m >= at
        <5>1. m \in both /\ \A x \in both : x <= m
          BY <2>3, <4>1, <4>5
        <5> HIDE DEF both
        <5>2. Max(both) = m
          BY <4>4, <5>1, MaxIs
        <5> QED BY <4>1, <4>3, <4>4, <4>5, <5>2 DEF LastTick, m, both
      <4>6. CASE ~(m >= at)
        <5>1. at \in both /\ \A x \in both : x <= at
          BY <2>3, <4>1, <4>2, <4>6
        <5> HIDE DEF both
        <5>2. Max(both) = at
          BY <4>4, <5>1, MaxIs
        <5> QED BY <4>1, <4>3, <4>4, <4>6, <5>2 DEF LastTick, m, both
      <4> QED BY <4>5, <4>6
    <3> QED BY <3>1, <3>2
  <2>8. alarm[e] = LastTick(old) /\ alarm = [x \in Entries |-> LastTick(Rels(refs, x, k))]
    BY <1>3 DEF Lasts, old, k
  <2>9. alarm' = [x \in Entries |-> LastTick(Rels(refs', x, k))]
    BY <1>3 DEF Lasts, k
  <2>10. alarm' = [alarm EXCEPT ![e] = Alarm!Max({alarm[e], at})]
    <3> DEFINE m == Alarm!Max({alarm[e], at})
    <3>1. alarm'[e] = m
      BY <2>5, <2>7, <2>8, <2>9
    <3> HIDE DEF m
    <3>2. \A x \in Entries \ {e} : alarm'[x] = alarm[x]
      BY <2>4, <2>8, <2>9
    <3>3. alarm' = [alarm EXCEPT ![e] = m]
      BY <2>8, <2>9, <3>1, <3>2
    <3> QED BY <3>3 DEF m
  <2>11. \E x \in Alarm!Window(tick, d) : alarm' = [alarm EXCEPT ![e] = Alarm!Max({@, x})]
    BY <2>3, <2>10
  <2> QED BY <1>1, <1>2, <1>5, <2>1, <2>11 DEF Alarm!SetAlarm
<1> QED BY <1>4, <1>5 DEF InsertEntry

\* A step that moves nothing of this is none of the alarms'.
LEMMA AlarmsStutter ==
  ASSUME UNCHANGED <<refs, tick, delay, goneOff>>
  PROVE  UNCHANGED Alarm!vars
BY DEF Alarm!vars, alarm, ReleaseTick

LEMMA AlarmsStep ==
  ASSUME WheelInv, WheelInv', [WheelNext]_wheelVars
  PROVE  [Alarm!Next]_(Alarm!vars)
<1>1. CASE OnTimer
  <2>1. CASE Turned
    BY <2>1, TurnedIsTick DEF Alarm!Next
  <2>2. CASE Crash
    BY <2>2, AlarmsStutter DEF Crash
  <2> QED BY <1>1, <2>1, <2>2, OnTimerTurns
<1>2. CASE OnTimerFirst
  BY <1>2, AlarmsStutter DEF OnTimerFirst
<1>3. CASE ClockMoves
  BY <1>3, AlarmsStutter DEF ClockMoves
<1>4. ASSUME NEW e \in Entries, ExtendLife(e) \/ \E d \in Delays : Start(e, d)
      PROVE  [Alarm!Next]_(Alarm!vars)
  <2>1. CASE Crash
    BY <2>1, AlarmsStutter DEF Crash
  <2>2. ASSUME NEW d \in Delays, d > 0, InsertEntry(e, d) PROVE Alarm!Next
    <3>1. Alarm!SetAlarm(e, d) \/ Alarm!Refuse(e, d)
      BY <2>2, InsertIsSet
    <3> QED BY <3>1 DEF Alarm!Next
  <2> QED BY <1>4, <2>1, <2>2, InsertSteps
<1>5. CASE UNCHANGED wheelVars
  BY <1>5, AlarmsStutter DEF wheelVars
<1> QED BY <1>1, <1>2, <1>3, <1>4, <1>5 DEF WheelNext

\* Rotation, cascade and shared references of the four wheels together are one
\* alarm per entry, known when it is set, never late, and early by less than a
\* slot: whatever the units, the delays and the order of the calls.
THEOREM WheelImplementsAlarms == WheelSpec => AlarmSpec
<1>1. WheelInit => Alarm!Init
  BY AlarmsInit
<1>2. WheelInv /\ WheelInv' /\ [WheelNext]_wheelVars => [Alarm!Next]_(Alarm!vars)
  BY AlarmsStep
<1> QED BY <1>1, <1>2, WheelInvariant, PTL DEF WheelSpec, AlarmSpec, Alarm!Spec
=============================================================================
