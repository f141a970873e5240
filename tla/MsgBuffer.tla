----------------------------- MODULE MsgBuffer -----------------------------
(***************************************************************************)
(* network::MsgBuffer: one vector of chars whose readable part lies between *)
(* head_ and tail_, with kBufferOffset chars kept free in front of it for   *)
(* AddInFront.  The operators translate the member functions; the char at   *)
(* offset i of buffer_ is mem[i + 1].                                       *)
(***************************************************************************)
EXTENDS Integers, Sequences

CONSTANTS
  Byte,         \* the values a char has
  Zero,         \* what vector gives a new char
  Offset,       \* kBufferOffset
  InitLen,      \* the constructor's len
  ExtLen,       \* the size of the extBuffer of ReadFd
  MaxData,      \* bound: bytes one call brings
  MaxReadable   \* bound: bytes a user leaves in the buffer

ASSUME ByteAssumption == Zero \in Byte
ASSUME LengthAssumption ==
  /\ Offset \in Nat /\ InitLen \in Nat /\ ExtLen \in Nat
  /\ MaxData \in Nat /\ MaxReadable \in Nat
  \* Every buffer of the program is made with 2048 (the default) or 65535.
  /\ InitLen >= Offset

VARIABLES
  buffer,       \* the MsgBuffer: head_, tail_, initCap_ and buffer_
  op            \* history: the last call, see ByteQueue

vars == <<buffer, op>>

Data == UNION {[1..n -> Byte] : n \in 1..MaxData}

-----------------------------------------------------------------------------
(* The members.  b is a MsgBuffer, and b.mem is its buffer_.                *)

Buffer(head, tail, initCap, mem) ==
  [head |-> head, tail |-> tail, initCap |-> initCap, mem |-> mem]

\* The constructor.
MsgBuffer(len) == Buffer(Offset, Offset, len, [i \in 1..(len + Offset) |-> Zero])

Size(b) == Len(b.mem)

ReadableBytes(b) == b.tail - b.head

WritableBytes(b) == Size(b) - b.tail

\* The readable bytes.
Content(b) == SubSeq(b.mem, b.head + 1, b.tail)

\* memcpy, and std::copy of chars (memmove): data lands at offset at.
Copied(b, at, data) ==
  [i \in 1..Size(b) |->
     IF at < i /\ i <= at + Len(data) THEN data[i - at] ELSE b.mem[i]]

\* The copy of data behind tail_.
Written(b, data) ==
  Buffer(b.head, b.tail + Len(data), b.initCap, Copied(b, b.tail, data))

\* Mutant: head_ and tail_ move and the bytes do not.
MoveNothing(b) == Buffer(Offset, Offset + ReadableBytes(b), b.initCap, b.mem)

\* The readable bytes move to the front of the vector.
MoveToFront(b) ==
  Buffer(Offset, Offset + ReadableBytes(b), b.initCap, Copied(b, Offset, Content(b)))

\* The vector doubles, or more if that is not enough.
GrownLength(b, len) ==
  IF Size(b) * 2 > Offset + ReadableBytes(b) + len
  THEN Size(b) * 2
  ELSE Offset + ReadableBytes(b) + len

\* Mutant: the bytes never move to the front, the vector always grows.
EnsureByGrowing(b, len) ==
  IF WritableBytes(b) >= len THEN b
  ELSE Written(MsgBuffer(GrownLength(b, len)), Content(b))

EnsureWritableBytes(b, len) ==
  IF WritableBytes(b) >= len THEN b
  ELSE IF b.head + WritableBytes(b) >= len + Offset THEN MoveToFront(b)
  ELSE Written(MsgBuffer(GrownLength(b, len)), Content(b))

AppendData(b, data) == Written(EnsureWritableBytes(b, Len(data)), data)

RetrieveAll(b) ==
  Buffer(Offset, Offset, b.initCap,
         IF Size(b) > b.initCap * 2 THEN SubSeq(b.mem, 1, b.initCap) ELSE b.mem)

Retrieve(b, len) ==
  IF len >= ReadableBytes(b)
  THEN RetrieveAll(b)
  ELSE Buffer(b.head + len, b.tail, b.initCap, b.mem)

Unwrite(b, len) == Buffer(b.head, b.tail - len, b.initCap, b.mem)

\* readv fills the writable part first and extBuffer with the rest.
ReadFd(b, data) ==
  IF Len(data) <= WritableBytes(b)
  THEN Written(b, data)
  ELSE AppendData(Written(b, SubSeq(data, 1, WritableBytes(b))),
               SubSeq(data, WritableBytes(b) + 1, Len(data)))

\* readv takes no more than the vectors it was given hold.
ReadLimit(b) ==
  IF WritableBytes(b) < ExtLen THEN WritableBytes(b) + ExtLen ELSE WritableBytes(b)

InFront(b, data) ==
  Buffer(b.head - Len(data), b.tail, b.initCap, Copied(b, b.head - Len(data), data))

\* No room in front: the readable bytes move back.
ShiftedBack(b, data) ==
  LET moved == Buffer(b.head, b.tail, b.initCap,
                      Copied(b, b.head + Len(data), Content(b))) IN
  Buffer(b.head, b.tail + Len(data), b.initCap, Copied(moved, b.head, data))

\* No room at all: a new buffer, at least as large as the old one was made.
FrontLength(b, len) ==
  IF len + ReadableBytes(b) < b.initCap THEN b.initCap ELSE len + ReadableBytes(b)

\* Mutant: the bytes are shifted back although one byte too few is writable.
AddInFrontTight(b, data) ==
  IF b.head >= Len(data) THEN InFront(b, data)
  ELSE IF Len(data) <= WritableBytes(b) + 1 THEN ShiftedBack(b, data)
  ELSE AppendData(AppendData(MsgBuffer(FrontLength(b, Len(data))), data), Content(b))

AddInFront(b, data) ==
  IF b.head >= Len(data) THEN InFront(b, data)
  ELSE IF Len(data) <= WritableBytes(b) THEN ShiftedBack(b, data)
  ELSE AppendData(AppendData(MsgBuffer(FrontLength(b, Len(data))), data), Content(b))

-----------------------------------------------------------------------------
(* The calls.                                                               *)

Call(kind, data, len) == op' = [kind |-> kind, data |-> data, len |-> len]

Init ==
  /\ buffer = MsgBuffer(InitLen)
  /\ op = [kind |-> "none", data |-> <<>>, len |-> 0]

\* The user of a buffer lets no more than MaxReadable bytes pile up in it.
Fits(data) == ReadableBytes(buffer) + Len(data) <= MaxReadable

CallAppend(data) ==
  /\ Fits(data)
  /\ buffer' = AppendData(buffer, data)
  /\ Call("behind", data, 0)

CallAddInFront(data) ==
  /\ Fits(data)
  /\ buffer' = AddInFront(buffer, data)
  /\ Call("ahead", data, 0)

CallReadFd(data) ==
  /\ Fits(data) /\ Len(data) <= ReadLimit(buffer)
  /\ buffer' = ReadFd(buffer, data)
  /\ Call("behind", data, 0)

\* The user writes at BeginWrite() and says how much with HasWritten.
CallHasWritten(data) ==
  /\ Fits(data) /\ Len(data) <= WritableBytes(buffer)
  /\ buffer' = Written(buffer, data)
  /\ Call("behind", data, 0)

CallRetrieve(len) ==
  /\ buffer' = Retrieve(buffer, len)
  /\ Call("takeAhead", <<>>, len)

CallUnwrite(len) ==
  /\ len <= ReadableBytes(buffer)
  /\ buffer' = Unwrite(buffer, len)
  /\ Call("takeBehind", <<>>, len)

Next ==
  \/ \E data \in Data :
       \/ CallAppend(data) \/ CallAddInFront(data)
       \/ CallReadFd(data) \/ CallHasWritten(data)
  \/ \E len \in 1..MaxReadable : CallRetrieve(len) \/ CallUnwrite(len)

Spec == Init /\ [][Next]_vars

-----------------------------------------------------------------------------
(* Properties.                                                              *)

\* b has a MsgBuffer's fields; its readable part lies inside the vector, whose
\* length is the one b was made with.
IsBuffer(b) ==
  /\ b \in [head : Nat, tail : Nat, initCap : Nat, mem : Seq(Byte)]
  /\ b.head <= b.tail /\ b.tail <= Size(b)
  /\ Size(b) = b.initCap + Offset
  /\ b.initCap >= Offset

\* No sequence of calls lets head_ and tail_ leave buffer_: no copy of any
\* member writes outside the vector, and the resize of RetrieveAll never cuts
\* memory off behind tail_.
TypeOK == IsBuffer(buffer)

\* However long the buffer is used, its memory stays within twice what its
\* users left in it at once, and never falls below what it was made with.
Larger(m, n) == IF m >= n THEN m ELSE n
Footprint ==
  /\ Size(buffer) >= InitLen + Offset
  /\ Size(buffer) <= Larger(InitLen + Offset, 2 * (MaxReadable + Offset) + Offset)

\* Growing, moving and shifting the bytes are invisible: to its users the
\* buffer is the string of bytes they put in and did not take out.
Bytes == INSTANCE ByteQueue WITH bytes <- Content(buffer)
BytesSpec == Bytes!Spec
=============================================================================
