---------------------------- MODULE RtmpHandShake ----------------------------
(***************************************************************************)
(* mm::RtmpHandShake at both ends of a TcpConnection: the state machine     *)
(* that HandShake (data arrived) and WriteComplete (all output is written)  *)
(* drive, and the two digest schemes.  The other end may be another RTMP    *)
(* program: it takes the same steps, but its C1 or S1 has any format.       *)
(*                                                                         *)
(* Bytes are units: C0C1 and S0S1 are Parts + 1 units, C2 and S2 are Parts. *)
(* TCP cuts and joins them as it likes.  Send writes at least one unit; if  *)
(* it writes all, write_complete_cb_ runs inside Send, and otherwise when   *)
(* OnWrite has written the rest.  That waits for epoll to report room once,  *)
(* edge-triggered: Loop passes a report of input and room to OnRead only.   *)
(***************************************************************************)
EXTENDS Integers, Sequences, SequencesExt

CONSTANTS
  Parts,   \* 1536 bytes: the length of C2 and S2; C0C1 and S0S1 are one longer
  Sums     \* the sums of four bytes that the place of a digest is taken from

ASSUME PartsAssumption == Parts \in Nat \ {0}
ASSUME SumsAssumption == Sums # {} /\ Sums \subseteq 0 .. 4 * 255

Sides == {"client", "server"}
Peer(e) == IF e = "client" THEN "server" ELSE "client"

VARIABLES
  foreign,   \* foreign[e]: e is another program, whose C1 or S1 may differ
  state,     \* state_
  complex,   \* is_complex_handshake_
  C1S1,      \* C1S1_: [ver, version, key, at, sum]
  C2S2,      \* C2S2_: "none", "plain" or "digest"
  out,       \* units the connection of e has queued
  edge,      \* edge[e]: the report of room for what e has queued is still to come
  wire,      \* units on their way to e
  buff,      \* the MsgBuffer of e
  phase,     \* "read": message_cb_ is due, "written": write_complete_cb_, or "idle"
  ret,       \* what HandShake returned last: 1, 0 or -1; 2 before
  data       \* the client has begun to send messages

vars == <<foreign, state, complex, C1S1, C2S2, out, edge, wire, buff, phase, ret, data>>

-----------------------------------------------------------------------------
(* Packets.                                                                *)

Hello == [i \in 1 .. Parts + 1 |-> <<"hello", i>>]
Echo  == [i \in 1 .. Parts |-> <<"echo", i>>]
Data  == <<<<"data", 1>>>>

\* Where the digest is if the four bytes at off have this sum.
GetDigestOffset(sum, off) == (sum % 728) + off + 4

\* The places of the four bytes: the class signs at the first and accepts both.
First  == 8
Second == 772

Formats ==
  [ver : {3, 6}, version : {0, 1}, key : Sides, at : {0, First, Second}, sum : Sums]
Unset == [ver |-> 0, version |-> 0, key |-> "client", at |-> 0, sum |-> 0]

\* VerifyDigest: the digest is found at that place and made with that key.
VerifyDigest(p, off, key) == p.at = off /\ p.key = key

\* What CreateC1S1 makes: version 3 in front, and a signed packet for the
\* complex scheme, which Start always asks for.
CreateC1S1(e) ==
  {p \in Formats : foreign[e] \/ (p.ver = 3 /\ p.version = 1 /\ p.at = First /\ p.key = e)}

\* Mutant: a packet without the right digest is taken for a simple one.
CheckLeniently(e) == IF C1S1[Peer(e)].ver = 3 THEN 0 ELSE -1

\* CheckC1S1: -1, or where the digest of the other side's packet is.
CheckC1S1(e) ==
  LET p == C1S1[Peer(e)]
      places == {off \in {First, Second} : VerifyDigest(p, off, Peer(e))}
      off == CHOOSE o \in places : TRUE
  IN CASE p.ver # 3 -> -1
       [] p.ver = 3 /\ p.version = 0 -> 0
       [] p.ver = 3 /\ p.version # 0 ->
            IF complex[e] /\ places # {} THEN GetDigestOffset(p.sum, off) ELSE -1

-----------------------------------------------------------------------------
(* Steps.                                                                  *)

Init ==
  /\ foreign \in {f \in [Sides -> BOOLEAN] : \E e \in Sides : ~f[e]}
  /\ state = [e \in Sides |-> "Init"] /\ complex = [e \in Sides |-> TRUE]
  /\ C1S1 = [e \in Sides |-> Unset] /\ C2S2 = [e \in Sides |-> "none"]
  /\ out = [e \in Sides |-> <<>>] /\ edge = [e \in Sides |-> FALSE]
  /\ wire = [e \in Sides |-> <<>>] /\ buff = [e \in Sides |-> <<>>]
  /\ phase = [e \in Sides |-> "idle"] /\ ret = [e \in Sides |-> 2] /\ data = FALSE

Set(e, s) == state' = [state EXCEPT ![e] = s]

\* io_vec_list_ of e holds these units: if there are any, e has asked epoll for
\* EPOLLOUT, and it reports the room there is or the room an acknowledgement makes.
Queue(e, units) ==
  /\ out' = [out EXCEPT ![e] = units]
  /\ edge' = [edge EXCEPT ![e] = units # <<>>]

\* The socket takes the first n units of what e has to write.
Write(e, units, n) ==
  /\ wire' = [wire EXCEPT ![Peer(e)] = @ \o SubSeq(units, 1, n)]
  /\ Queue(e, SubSeq(units, n + 1, Len(units)))
  /\ phase' = [phase EXCEPT ![e] = IF n = Len(units) THEN "written" ELSE "idle"]

\* TcpConnection::Send, in the loop's thread of e.
Send(e, units) ==
  \/ out[e] = <<>> /\ \E n \in 1 .. Len(units) : Write(e, units, n)
  \/ /\ out[e] # <<>>
     /\ Queue(e, out[e] \o units) /\ phase' = [phase EXCEPT ![e] = "idle"]
     /\ UNCHANGED wire

\* Mutant: the state changes after Send, when WriteComplete has been called.
SetAfterSend(e, s, units) ==
  /\ Set(e, s)
  /\ \E n \in 1 .. Len(units) :
       /\ wire' = [wire EXCEPT ![Peer(e)] = @ \o SubSeq(units, 1, n)]
       /\ Queue(e, SubSeq(units, n + 1, Len(units)))
  /\ phase' = [phase EXCEPT ![e] = "idle"]

\* state_ changes before Send, which may call WriteComplete.
SetAndSend(e, s, units) == Set(e, s) /\ Send(e, units)

Start(e) ==
  /\ state[e] = "Init"
  /\ \E p \in CreateC1S1(e) : C1S1' = [C1S1 EXCEPT ![e] = p]
  /\ \/ e = "client" /\ SetAndSend(e, "PostC0C1", Hello)
     \/ e = "server" /\ Set(e, "WaitC0C1") /\ UNCHANGED <<out, edge, wire, phase>>
  /\ UNCHANGED <<foreign, complex, C2S2, buff, ret, data>>

\* A report of room alone.
OnWrite(e) ==
  /\ phase[e] = "idle" /\ edge[e]
  /\ \E n \in 1 .. Len(out[e]) : Write(e, out[e], n)
  /\ UNCHANGED <<foreign, state, complex, C1S1, C2S2, buff, ret, data>>

\* The state after all that was posted in a state is written.
Posted ==
  [PostS0S1 |-> "PostS2", PostS2 |-> "WaitC2", PostC0C1 |-> "WaitS0S1", PostC2 |-> "Done",
   Doning |-> "Done"]

WriteComplete(e) ==
  /\ phase[e] = "written"
  /\ \/ state[e] = "PostS0S1" /\ SetAndSend(e, Posted[state[e]], Echo)
     \/ /\ state[e] # "PostS0S1"
        /\ Set(e, IF state[e] \in DOMAIN Posted THEN Posted[state[e]] ELSE state[e])
        /\ phase' = [phase EXCEPT ![e] = "idle"] /\ UNCHANGED <<out, edge, wire>>
  /\ UNCHANGED <<foreign, complex, C1S1, C2S2, buff, ret, data>>

\* OnRead hands over n units more.  Once HandShake has returned 0 the input
\* goes to the user's messages, after -1 the user has closed the connection.
\* If output is queued, its room may be in the same report, which is used up;
\* input that comes while OnRead reads may bring one more report, of room only.
OnRead(e) ==
  /\ phase[e] = "idle" /\ state[e] # "Init" /\ ret[e] # -1
  /\ \E n \in 1 .. Len(wire[e]) :
       /\ buff' = [buff EXCEPT ![e] = @ \o SubSeq(wire[e], 1, n)]
       /\ wire' = [wire EXCEPT ![e] = SubSeq(@, n + 1, Len(@))]
  /\ phase' = [phase EXCEPT ![e] = IF ret[e] = 0 THEN "idle" ELSE "read"]
  /\ \E again \in BOOLEAN : edge' = [edge EXCEPT ![e] = again /\ out[e] # <<>>]
  /\ UNCHANGED <<foreign, state, complex, C1S1, C2S2, out, ret, data>>

Needs == [WaitC0C1 |-> Parts + 1, WaitS0S1 |-> Parts + 1, WaitC2 |-> Parts]
Enough(e) == state[e] \in DOMAIN Needs /\ Len(buff[e]) >= Needs[state[e]]

\* Mutant: Retrieve takes as many bytes of C1 as of C2.
TakeParts(e, n) == buff' = [buff EXCEPT ![e] = SubSeq(@, Parts + 1, Len(@))]

Retrieve(e, n) == buff' = [buff EXCEPT ![e] = SubSeq(@, n + 1, Len(@))]

Return(e, r) == ret' = [ret EXCEPT ![e] = r]

\* kHandShakeWaitC0C1 and kHandShakeWaitS0S1; CheckC1S1 falls back to the
\* simple scheme, CreateC2S2 answers in the scheme it left.
ShakeHello(e) ==
  LET p    == C1S1[Peer(e)]
      both == e = "client" /\ Len(buff[e]) = (Parts + 1) + Parts
  IN
  /\ Enough(e) /\ state[e] # "WaitC2"
  /\ complex' = [complex EXCEPT ![e] = @ /\ ~(p.ver = 3 /\ p.version = 0)]
  /\ \/ /\ CheckC1S1(e) >= 0
        /\ C2S2' = [C2S2 EXCEPT ![e] = IF complex'[e] THEN "digest" ELSE "plain"]
        /\ \/ e = "server" /\ Retrieve(e, Parts + 1) /\ SetAndSend(e, "PostS0S1", Hello) /\ Return(e, 1)
           \/ both /\ Retrieve(e, 2 * Parts + 1) /\ SetAndSend(e, "Doning", Echo) /\ Return(e, 0)
           \/ /\ e = "client" /\ ~both
              /\ Retrieve(e, Parts + 1) /\ SetAndSend(e, "PostC2", Echo) /\ Return(e, 1)
     \/ /\ CheckC1S1(e) < 0
        /\ Return(e, -1)
        /\ phase' = [phase EXCEPT ![e] = "idle"] /\ UNCHANGED <<state, C2S2, out, edge, wire, buff>>

\* kHandShakeWaitC2; CheckC2S2 accepts whatever it is.
ShakeC2(e) ==
  /\ Enough(e) /\ state[e] = "WaitC2"
  /\ Set(e, "Done") /\ Retrieve(e, Parts) /\ Return(e, 0)
  /\ phase' = [phase EXCEPT ![e] = "idle"] /\ UNCHANGED <<complex, C2S2, out, edge, wire>>

\* Too few bytes, or a state HandShake does nothing in.
ShakeNothing(e) ==
  /\ ~Enough(e)
  /\ Return(e, 1)
  /\ phase' = [phase EXCEPT ![e] = "idle"] /\ UNCHANGED <<state, complex, C2S2, out, edge, wire, buff>>

HandShake(e) ==
  /\ phase[e] = "read"
  /\ ShakeHello(e) \/ ShakeC2(e) \/ ShakeNothing(e)
  /\ UNCHANGED <<foreign, C1S1, data>>

\* The client sends its messages when HandShake has returned 0; another
\* program when it has sent C2 and has S2, as RTMP demands.
SendData ==
  /\ ~data /\ phase["client"] = "idle"
  /\ \/ ret["client"] = 0
     \/ foreign["client"] /\ state["client"] = "Done" /\ Len(buff["client"]) >= Parts
  /\ data' = TRUE
  /\ Send("client", Data)
  /\ UNCHANGED <<foreign, state, complex, C1S1, C2S2, buff, ret>>

Next == SendData \/ \E e \in Sides : Start(e) \/ OnWrite(e) \/ WriteComplete(e) \/ OnRead(e) \/ HandShake(e)

Safety == Init /\ [][Next]_vars

\* The loops of both ends go on and TCP delivers and acknowledges: OnWrite comes
\* as long as the report of room is to come.  Nobody has to start, and a client
\* has to send messages only once it knows that it may.
Spec ==
  /\ Safety /\ WF_vars(SendData)
  /\ \A e \in Sides : WF_vars(OnWrite(e)) /\ WF_vars(WriteComplete(e)) /\ WF_vars(OnRead(e)) /\ WF_vars(HandShake(e))

-----------------------------------------------------------------------------
(* Properties.                                                             *)

\* Wherever TCP cuts the packets and whenever the writes complete, a side whose
\* HandShake returned 0 finds the other side's messages next, and no byte of
\* C0C1, S0S1, C2 or S2.
MessagesNext ==
  \A e \in Sides : ret[e] = 0 => \A i \in DOMAIN (buff[e] \o wire[e]) : (buff[e] \o wire[e])[i][1] = "data"

\* C2 or S2 carries a digest only in answer to a packet the other side signed
\* with its own key, and none only in answer to a simple packet.
AnswersTheScheme ==
  \A e \in Sides : LET p == C1S1[Peer(e)] IN
    /\ C2S2[e] = "digest" => p.ver = 3 /\ p.version # 0 /\ p.key = Peer(e) /\ p.at # 0
    /\ C2S2[e] = "plain" => p.ver = 3 /\ p.version = 0

\* The report of room for what e has queued went to OnRead.
Unreported(e) == out[e] # <<>> /\ ~edge[e]

\* A client that accepts S0S1 ends the handshake, and so does the server of a
\* client that goes on to send messages: C2 that came while S2 was being
\* written is found when they arrive.  The one way to fail is that queued output
\* stays queued for ever because Loop passed its only report on as input.
HandShakeEnds ==
  /\ C2S2["client"] # "none" ~> (state["client"] = "Done" \/ []Unreported("client"))
  /\ data ~> (state["server"] = "Done" \/ \E e \in Sides : []Unreported(e))

\* The comments at the returns: 0 says that the handshake is done and 1 that it
\* waits for more, so a side that is done is told so.
DoneIsReported == \A e \in Sides : state[e] = "Done" ~> ret[e] = 0
=============================================================================
