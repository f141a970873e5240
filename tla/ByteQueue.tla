----------------------------- MODULE ByteQueue -----------------------------
(***************************************************************************)
(* What MsgBuffer promises its users: a string of bytes that grows and      *)
(* shrinks at either end by what the last call said, and nothing else.      *)
(***************************************************************************)
EXTENDS Integers, Sequences

CONSTANT Byte

VARIABLES
  bytes,   \* the readable bytes
  op       \* the last call: its kind, the bytes it brought, the number it took

AddBehind ==
  /\ op'.kind = "behind"
  /\ bytes' = bytes \o op'.data

AddAhead ==
  /\ op'.kind = "ahead"
  /\ bytes' = op'.data \o bytes

\* Taking more than there is takes all of it.
TakeAhead ==
  /\ op'.kind = "takeAhead"
  /\ bytes' = SubSeq(bytes, op'.len + 1, Len(bytes))

TakeBehind ==
  /\ op'.kind = "takeBehind"
  /\ op'.len <= Len(bytes)
  /\ bytes' = SubSeq(bytes, 1, Len(bytes) - op'.len)

Init == bytes = <<>> /\ op.kind = "none"

Next == AddBehind \/ AddAhead \/ TakeAhead \/ TakeBehind

Spec == Init /\ [][Next]_<<bytes, op>>
=============================================================================
