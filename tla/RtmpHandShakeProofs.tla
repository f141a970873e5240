------------------------ MODULE RtmpHandShakeProofs ------------------------
(***************************************************************************)
(* Proofs about RtmpHandShake, for packets of any length and any sums of     *)
(* digest bytes.                                                           *)
(***************************************************************************)
EXTENDS RtmpHandShake, SequenceTheorems, TLAPS

-----------------------------------------------------------------------------
(* Types, and what a side may be in.                                       *)

Units == {"hello", "echo", "data"} \X Nat

ClientStates == {"Init", "PostC0C1", "WaitS0S1", "PostC2", "Doning", "Done"}
ServerStates == {"Init", "WaitC0C1", "PostS0S1", "PostS2", "WaitC2", "Done"}

TypeOK ==
  /\ state \in [Sides -> ClientStates \cup ServerStates]
  /\ state["client"] \in ClientStates /\ state["server"] \in ServerStates
  /\ complex \in [Sides -> BOOLEAN]
  /\ C1S1 \in [Sides -> Formats \cup {Unset}]
  /\ C2S2 \in [Sides -> {"none", "plain", "digest"}]
  /\ out \in [Sides -> Seq(Units)] /\ wire \in [Sides -> Seq(Units)] /\ buff \in [Sides -> Seq(Units)]
  /\ phase \in [Sides -> {"read", "written", "idle"}]
  /\ ret \in [Sides -> {-1, 0, 1, 2}]
  /\ data \in BOOLEAN

LEMMA PeerFacts ==
  /\ Sides = {"client", "server"} /\ Peer("client") = "server" /\ Peer("server") = "client"
  /\ \A e \in Sides : Peer(e) \in Sides /\ Peer(e) # e /\ Peer(Peer(e)) = e
BY DEF Sides, Peer

LEMMA UnitsFacts ==
  /\ Hello \in Seq(Units) /\ Len(Hello) = Parts + 1
  /\ Echo \in Seq(Units) /\ Len(Echo) = Parts
  /\ Data \in Seq(Units) /\ Len(Data) = 1 /\ Data[1][1] = "data"
<1> USE PartsAssumption
<1>1. Hello \in [1 .. Parts + 1 -> Units]
  BY DEF Hello, Units
<1>2. Echo \in [1 .. Parts -> Units]
  BY DEF Echo, Units
<1>3. Parts \in Nat /\ Parts + 1 \in Nat
  OBVIOUS
<1>4. Data \in Seq(Units) /\ Len(Data) = 1 /\ Data[1] = <<"data", 1>>
  BY DEF Data, Units
<1>5. Hello \in Seq(Units) /\ Echo \in Seq(Units)
  BY <1>1, <1>2, <1>3, SeqDef
<1>6. Len(Hello) = Parts + 1 /\ Len(Echo) = Parts
  BY <1>3, <1>5 DEF Hello, Echo
<1> QED BY <1>4, <1>5, <1>6

LEMMA PostedFacts ==
  /\ DOMAIN Posted = {"PostS0S1", "PostS2", "PostC0C1", "PostC2", "Doning"}
  /\ Posted["PostS0S1"] = "PostS2" /\ Posted["PostS2"] = "WaitC2"
  /\ Posted["PostC0C1"] = "WaitS0S1" /\ Posted["PostC2"] = "Done" /\ Posted["Doning"] = "Done"
BY DEF Posted

LEMMA NeedsFacts ==
  /\ DOMAIN Needs = {"WaitC0C1", "WaitS0S1", "WaitC2"}
  /\ Needs["WaitC0C1"] = Parts + 1 /\ Needs["WaitS0S1"] = Parts + 1 /\ Needs["WaitC2"] = Parts
BY DEF Needs

\* A side that was told 0 has nothing more to read, and is done but for what it
\* has to write.  The client sends messages only then, or when it is done.
ToldOnce ==
  /\ \A e \in Sides : ret[e] = 0 => phase[e] # "read" /\ state[e] \in {"Doning", "Done"}
  /\ state["client"] = "Doning" => ret["client"] = 0
  /\ state["server"] = "Done" => ret["server"] = 0
  /\ data => state["client"] \in {"Doning", "Done"}

-----------------------------------------------------------------------------
(* The streams.                                                            *)

\* What x has given to Send.
Sent(x) ==
  IF state[x] \in {"Init", "WaitC0C1"} THEN <<>>
  ELSE IF state[x] \in {"PostC0C1", "WaitS0S1", "PostS0S1"} THEN Hello
  ELSE IF x = "client" /\ data THEN (Hello \o Echo) \o Data ELSE Hello \o Echo

\* What HandShake of e has taken from its buffer.
Taken(e) ==
  IF ret[e] = 0 THEN Hello \o Echo
  ELSE IF state[e] \in {"PostC2", "Done", "PostS0S1", "PostS2", "WaitC2"} THEN Hello
  ELSE <<>>

\* On its way to e.
Way(e) == wire[e] \o out[Peer(e)]

\* What e has taken, has in its buffer and is still to get is what was sent.
Stream(e) == Taken(e) \o (buff[e] \o Way(e)) = Sent(Peer(e))

ShakeInv == TypeOK /\ ToldOnce /\ \A e \in Sides : Stream(e)

\* Two ways to cut a sequence at the same place.
LEMMA CutAlike ==
  ASSUME NEW S, NEW s \in Seq(S), NEW t \in Seq(S), NEW u \in Seq(S), NEW v \in Seq(S),
         s \o t = u \o v, Len(s) = Len(u)
  PROVE  s = u /\ t = v
<1>1. /\ Len(s) \in Nat /\ Len(t) \in Nat
      /\ \A i \in 1 .. Len(s) + Len(t) : (s \o t)[i] = IF i <= Len(s) THEN s[i] ELSE t[i - Len(s)]
  BY ConcatProperties, LenProperties
<1>2. /\ Len(u) \in Nat /\ Len(v) \in Nat
      /\ \A i \in 1 .. Len(u) + Len(v) : (u \o v)[i] = IF i <= Len(u) THEN u[i] ELSE v[i - Len(u)]
  BY ConcatProperties, LenProperties
<1>3. \A i \in 1 .. Len(s) : s[i] = u[i]
  <2> SUFFICES ASSUME NEW i \in 1 .. Len(s) PROVE s[i] = u[i]
    OBVIOUS
  <2>1. i \in 1 .. Len(s) + Len(t) /\ i <= Len(s) /\ Len(s) + Len(t) = Len(u) + Len(v)
    <3>1. Len(s \o t) = Len(s) + Len(t) /\ Len(u \o v) = Len(u) + Len(v)
      BY ConcatProperties
    <3> QED BY <1>1, <3>1
  <2> QED BY <1>1, <1>2, <2>1
<1>4. s = u
  BY <1>3, SeqEqual
<1> QED BY <1>4, ConcatSimplifications

LEMMA CutJoins ==
  ASSUME NEW S, NEW s \in Seq(S), NEW n \in 0 .. Len(s)
  PROVE  /\ SubSeq(s, 1, n) \in Seq(S) /\ Len(SubSeq(s, 1, n)) = n
         /\ SubSeq(s, n + 1, Len(s)) \in Seq(S)
         /\ SubSeq(s, 1, n) \o SubSeq(s, n + 1, Len(s)) = s
<1>1. Len(s) \in Nat /\ \A i \in 1 .. Len(s) : s[i] \in S
  BY LenProperties, ElementOfSeq
<1>2. SubSeq(s, 1, n) \in Seq(S) /\ Len(SubSeq(s, 1, n)) = n
  <2>1. 1 \in Int /\ n \in Int /\ \A i \in 1 .. n : s[i] \in S
    BY <1>1
  <2>2. /\ SubSeq(s, 1, n) \in Seq(S)
        /\ Len(SubSeq(s, 1, n)) = IF 1 <= n THEN n - 1 + 1 ELSE 0
    BY <2>1, SubSeqProperties
  <2> QED BY <1>1, <2>2
<1>3. SubSeq(s, n + 1, Len(s)) \in Seq(S)
  <2>1. n + 1 \in Int /\ Len(s) \in Int /\ \A i \in n + 1 .. Len(s) : s[i] \in S
    BY <1>1
  <2> QED BY <2>1, SubSeqProperties
<1>4. SubSeq(s, 1, n) \o SubSeq(s, n + 1, Len(s)) = s
  <2>1. CASE s = <<>>
    <3>1. Len(s) = 0 /\ n = 0
      BY <1>1, <2>1
    <3>2. SubSeq(s, 1, n) = <<>> /\ SubSeq(s, n + 1, Len(s)) = <<>>
      BY <3>1, SubSeqEmpty
    <3> QED BY <2>1, <3>2, ConcatEmptySeq
  <2>2. CASE s # <<>>
    <3>1. 1 \in 1 .. Len(s) + 1 /\ n \in 1 - 1 .. Len(s) /\ Len(s) \in n .. Len(s)
      BY <1>1
    <3>2. SubSeq(s, 1, n) \o SubSeq(s, n + 1, Len(s)) = SubSeq(s, 1, Len(s))
      BY <3>1, ConcatAdjacentSubSeq
    <3> QED BY <3>2, SubSeqFull
  <2> QED BY <2>1, <2>2
<1> QED BY <1>2, <1>3, <1>4

\* Units are joined in any order.
LEMMA JoinType ==
  ASSUME NEW s \in Seq(Units), NEW t \in Seq(Units) PROVE s \o t \in Seq(Units)
BY ConcatProperties

LEMMA JoinThree ==
  ASSUME NEW s \in Seq(Units), NEW t \in Seq(Units), NEW u \in Seq(Units)
  PROVE  (s \o t) \o u = s \o (t \o u)
BY ConcatAssociative

\* The same, for proofs in which sequences are but names.
AnyOrder(s, t, u) == (s \o t) \o u = s \o (t \o u)

LEMMA Associates == \A s, t, u \in Seq(Units) : AnyOrder(s, t, u)
BY JoinThree DEF AnyOrder

LEMMA StreamTypes ==
  ASSUME TypeOK, NEW e \in Sides
  PROVE  Taken(e) \in Seq(Units) /\ Way(e) \in Seq(Units) /\ Sent(e) \in Seq(Units)
<1>1. <<>> \in Seq(Units) /\ Hello \o Echo \in Seq(Units) /\ (Hello \o Echo) \o Data \in Seq(Units)
  BY UnitsFacts, EmptySeq, ConcatProperties
<1>2. wire[e] \in Seq(Units) /\ out[Peer(e)] \in Seq(Units)
  BY PeerFacts DEF TypeOK
<1>3. Way(e) \in Seq(Units)
  BY <1>2, ConcatProperties DEF Way
<1> QED BY <1>1, <1>3, UnitsFacts DEF Taken, Sent

\* What goes from out to the wire, whatever the socket takes of it.
LEMMA WriteKeeps ==
  ASSUME TypeOK, NEW e \in Sides, NEW units \in Seq(Units), NEW n \in 1 .. Len(units),
         Write(e, units, n)
  PROVE  /\ wire' \in [Sides -> Seq(Units)] /\ out' \in [Sides -> Seq(Units)]
         /\ phase' \in [Sides -> {"read", "written", "idle"}]
         /\ wire'[Peer(e)] \o out'[e] = wire[Peer(e)] \o units
         /\ wire'[e] = wire[e] /\ out'[Peer(e)] = out[Peer(e)]
         /\ phase'[e] # "read" /\ phase'[Peer(e)] = phase[Peer(e)]
<1> DEFINE p == Peer(e)
           a == SubSeq(units, 1, n)
           b == SubSeq(units, n + 1, Len(units))
<1>1. p \in Sides /\ p # e
  BY PeerFacts
<1>2. a \in Seq(Units) /\ b \in Seq(Units) /\ a \o b = units
  <2>1. n \in 0 .. Len(units)
    BY LenProperties
  <2> QED BY <2>1, CutJoins
<1>3. /\ wire' = [wire EXCEPT ![p] = wire[p] \o a] /\ out' = [out EXCEPT ![e] = b]
      /\ phase' = [phase EXCEPT ![e] = IF n = Len(units) THEN "written" ELSE "idle"]
  BY DEF Write, Queue
<1> HIDE DEF a, b, p
<1>4. wire[p] \in Seq(Units) /\ wire[p] \o a \in Seq(Units) /\ (wire[p] \o a) \o b = wire[p] \o (a \o b)
  <2> DEFINE w == wire[p]
  <2>1. w \in Seq(Units)
    BY <1>1 DEF TypeOK
  <2> HIDE DEF w
  <2>2. w \o a \in Seq(Units) /\ (w \o a) \o b = w \o (a \o b)
    BY <1>2, <2>1, JoinType, JoinThree
  <2> QED BY <2>1, <2>2 DEF w
<1>5. wire' \in [Sides -> Seq(Units)] /\ wire'[p] = wire[p] \o a /\ wire'[e] = wire[e]
  BY <1>1, <1>3, <1>4 DEF TypeOK
<1>6. out' \in [Sides -> Seq(Units)] /\ out'[e] = b /\ out'[p] = out[p]
  BY <1>1, <1>2, <1>3 DEF TypeOK
<1>7. phase' \in [Sides -> {"read", "written", "idle"}] /\ phase'[e] # "read" /\ phase'[p] = phase[p]
  BY <1>1, <1>3 DEF TypeOK
<1> QED BY <1>2, <1>4, <1>5, <1>6, <1>7 DEF p

\* Send adds to what is on its way to the other side.
LEMMA SendAdds ==
  ASSUME TypeOK, NEW e \in Sides, NEW units \in Seq(Units), Send(e, units)
  PROVE  /\ wire' \in [Sides -> Seq(Units)] /\ out' \in [Sides -> Seq(Units)]
         /\ phase' \in [Sides -> {"read", "written", "idle"}]
         /\ wire'[Peer(e)] \o out'[e] = Way(Peer(e)) \o units
         /\ wire'[e] = wire[e] /\ out'[Peer(e)] = out[Peer(e)]
         /\ phase'[e] # "read" /\ phase'[Peer(e)] = phase[Peer(e)]
<1> DEFINE p == Peer(e)
<1>1. p \in Sides /\ p # e /\ Peer(p) = e /\ wire[p] \in Seq(Units) /\ out[e] \in Seq(Units)
  BY PeerFacts DEF TypeOK
<1> HIDE DEF p
<1>2. CASE out[e] = <<>> /\ \E n \in 1 .. Len(units) : Write(e, units, n)
  <2>1. Way(p) = wire[p]
    BY <1>1, <1>2, ConcatEmptySeq DEF Way
  <2> QED BY <1>2, <2>1, WriteKeeps DEF p
<1>3. CASE /\ out' = [out EXCEPT ![e] = out[e] \o units] /\ phase' = [phase EXCEPT ![e] = "idle"]
           /\ wire' = wire
  <2>1. out[e] \o units \in Seq(Units) /\ wire[p] \o (out[e] \o units) = (wire[p] \o out[e]) \o units
    <3> DEFINE w == wire[p]
               o == out[e]
    <3>1. w \in Seq(Units) /\ o \in Seq(Units)
      BY <1>1
    <3> HIDE DEF w, o
    <3>2. o \o units \in Seq(Units) /\ w \o (o \o units) = (w \o o) \o units
      BY <3>1, JoinType, JoinThree
    <3> QED BY <3>2 DEF w, o
  <2>2. out' \in [Sides -> Seq(Units)] /\ out'[e] = out[e] \o units /\ out'[p] = out[p]
    BY <1>1, <1>3, <2>1 DEF TypeOK
  <2>3. phase' \in [Sides -> {"read", "written", "idle"}] /\ phase'[e] # "read" /\ phase'[p] = phase[p]
    BY <1>1, <1>3 DEF TypeOK
  <2> QED BY <1>1, <1>3, <2>1, <2>2, <2>3 DEF Way, TypeOK, p
<1> QED BY <1>2, <1>3 DEF Send, Queue

\* The stream to the other side, when e has sent these units (or none).
LEMMA StreamOfPeer ==
  ASSUME ShakeInv, NEW e \in Sides, NEW units \in Seq(Units),
         buff'[Peer(e)] = buff[Peer(e)], Taken(Peer(e))' = Taken(Peer(e)),
         wire'[Peer(e)] \o out'[e] = Way(Peer(e)) \o units,
         Sent(e)' = Sent(e) \o units
  PROVE  Stream(Peer(e))'
<1> DEFINE p == Peer(e)
<1>1. p \in Sides /\ Peer(p) = e
  BY PeerFacts
<1>2. Taken(p) \in Seq(Units) /\ Way(p) \in Seq(Units) /\ buff[p] \in Seq(Units)
  BY <1>1, StreamTypes DEF ShakeInv, TypeOK
<1>3. Taken(p) \o (buff[p] \o Way(p)) = Sent(e)
  BY <1>1 DEF ShakeInv, Stream
<1>4. Taken(p) \o (buff[p] \o (Way(p) \o units)) = (Taken(p) \o (buff[p] \o Way(p))) \o units
  <2> DEFINE t == Taken(p)
             f == buff[p]
             w == Way(p)
  <2>1. t \in Seq(Units) /\ f \in Seq(Units) /\ w \in Seq(Units) /\ units \in Seq(Units)
    BY <1>2
  <2> HIDE DEF t, f, w
  <2> DEFINE x == f \o w
             y == w \o units
  <2>2. x \in Seq(Units) /\ x \o units = f \o y
    <3>1. x \in Seq(Units)
      BY <2>1, JoinType
    <3>2. AnyOrder(f, w, units)
      BY <2>1, Associates
    <3> QED BY Zenon, <3>1, <3>2 DEF AnyOrder
  <2> HIDE DEF x, y
  <2>3. (t \o x) \o units = t \o (x \o units)
    <3>1. AnyOrder(t, x, units)
      BY <2>1, <2>2, Associates
    <3> QED BY Zenon, <3>1 DEF AnyOrder
  <2> QED BY <2>2, <2>3 DEF t, f, w, x, y
<1>5. Way(p)' = Way(p) \o units
  BY <1>1 DEF Way
<1> QED BY <1>1, <1>3, <1>4, <1>5 DEF Stream

\* The stream to e, when e has taken n units from its buffer (or none).
LEMMA StreamOfSelf ==
  ASSUME ShakeInv, NEW e \in Sides, NEW n \in 0 .. Len(buff[e]),
         wire'[e] = wire[e], out'[Peer(e)] = out[Peer(e)], Sent(Peer(e))' = Sent(Peer(e)),
         buff'[e] = SubSeq(buff[e], n + 1, Len(buff[e])),
         Taken(e)' = Taken(e) \o SubSeq(buff[e], 1, n)
  PROVE  Stream(e)'
<1> DEFINE a == SubSeq(buff[e], 1, n)
           b == SubSeq(buff[e], n + 1, Len(buff[e]))
<1>1. Taken(e) \in Seq(Units) /\ Way(e) \in Seq(Units) /\ buff[e] \in Seq(Units)
  BY StreamTypes DEF ShakeInv, TypeOK
<1>2. a \in Seq(Units) /\ b \in Seq(Units) /\ a \o b = buff[e]
  BY <1>1, CutJoins
<1> HIDE DEF a, b
<1>3. Way(e)' = Way(e)
  BY DEF Way
<1>4. (Taken(e) \o a) \o (b \o Way(e)) = Taken(e) \o (buff[e] \o Way(e))
  <2> DEFINE t == Taken(e)
             w == Way(e)
  <2>1. t \in Seq(Units) /\ w \in Seq(Units) /\ a \in Seq(Units) /\ b \in Seq(Units)
    BY <1>1, <1>2
  <2> HIDE DEF t, w
  <2> DEFINE x == a \o b
             y == b \o w
  <2>2. y \in Seq(Units) /\ x \o w = a \o y
    BY <2>1, JoinType, JoinThree
  <2> HIDE DEF x, y
  <2>3. (t \o a) \o y = t \o (a \o y)
    BY <2>1, <2>2, JoinThree
  <2> QED BY <1>2, <2>2, <2>3 DEF t, w, x, y
<1>5. Taken(e)' \o (buff'[e] \o Way(e)') = Sent(Peer(e))
  BY <1>2, <1>3, <1>4 DEF ShakeInv, Stream, a, b
<1> QED BY <1>5 DEF Stream

\* A step of e leaves the other side's own state alone.
Elsewhere(e) ==
  LET p == Peer(e) IN
  state'[p] = state[p] /\ ret'[p] = ret[p] /\ buff'[p] = buff[p] /\ phase'[p] = phase[p]

\* A step of e that takes n units from its buffer and gives units to Send keeps
\* both streams, if its state tells of both.
LEMMA StreamsKept ==
  ASSUME ShakeInv, NEW e \in Sides, NEW units \in Seq(Units), NEW n \in 0 .. Len(buff[e]),
         Elsewhere(e), data' = data \/ e = "client",
         wire'[Peer(e)] \o out'[e] = Way(Peer(e)) \o units,
         wire'[e] = wire[e], out'[Peer(e)] = out[Peer(e)],
         Sent(e)' = Sent(e) \o units,
         buff'[e] = SubSeq(buff[e], n + 1, Len(buff[e])),
         Taken(e)' = Taken(e) \o SubSeq(buff[e], 1, n)
  PROVE  \A x \in Sides : Stream(x)'
<1> DEFINE p == Peer(e)
<1>1. p \in Sides /\ p # e /\ Peer(p) = e /\ \A x \in Sides : x = e \/ x = p
  BY PeerFacts
<1>2. /\ state'[p] = state[p] /\ ret'[p] = ret[p] /\ buff'[p] = buff[p]
      /\ p = "client" => data' = data
  BY PeerFacts DEF Elsewhere
<1>3. Sent(p)' = Sent(p) /\ Taken(p)' = Taken(p)
  BY <1>2 DEF Sent, Taken
<1>4. Stream(p)'
  BY <1>2, <1>3, StreamOfPeer
<1>5. Stream(e)'
  BY <1>3, StreamOfSelf
<1> QED BY <1>1, <1>4, <1>5

\* The same, for a step that takes nothing.
LEMMA StreamsSent ==
  ASSUME ShakeInv, NEW e \in Sides, NEW units \in Seq(Units),
         Elsewhere(e), data' = data \/ e = "client",
         wire'[Peer(e)] \o out'[e] = Way(Peer(e)) \o units,
         wire'[e] = wire[e], out'[Peer(e)] = out[Peer(e)],
         Sent(e)' = Sent(e) \o units, buff'[e] = buff[e], Taken(e)' = Taken(e)
  PROVE  \A x \in Sides : Stream(x)'
<1>1. buff[e] \in Seq(Units) /\ Len(buff[e]) \in Nat /\ Taken(e) \in Seq(Units)
  BY StreamTypes, LenProperties DEF ShakeInv, TypeOK
<1>2. 0 \in 0 .. Len(buff[e]) /\ SubSeq(buff[e], 0 + 1, Len(buff[e])) = buff[e]
  BY <1>1, SubSeqFull
<1>3. SubSeq(buff[e], 1, 0) = <<>> /\ Taken(e) \o <<>> = Taken(e)
  BY <1>1, SubSeqEmpty, ConcatEmptySeq
<1> QED BY <1>2, <1>3, StreamsKept

\* The same, for a step that neither takes nor sends.
LEMMA StreamsStill ==
  ASSUME ShakeInv, NEW e \in Sides,
         Elsewhere(e), data' = data,
         wire'[Peer(e)] \o out'[e] = Way(Peer(e)),
         wire'[e] = wire[e], out'[Peer(e)] = out[Peer(e)],
         Sent(e)' = Sent(e), buff'[e] = buff[e], Taken(e)' = Taken(e)
  PROVE  \A x \in Sides : Stream(x)'
<1>1. Way(Peer(e)) \o <<>> = Way(Peer(e)) /\ Sent(e) \o <<>> = Sent(e) /\ <<>> \in Seq(Units)
  BY PeerFacts, StreamTypes, ConcatEmptySeq, EmptySeq DEF ShakeInv
<1> QED BY <1>1, StreamsSent

-----------------------------------------------------------------------------
(* The steps.                                                              *)

LEMMA InitShake == Init => ShakeInv
<1> SUFFICES ASSUME Init PROVE ShakeInv
  OBVIOUS
<1>1. TypeOK
  BY EmptySeq DEF Init, TypeOK, Sides, ClientStates, ServerStates
<1>2. ToldOnce
  BY DEF Init, ToldOnce, Sides
<1>3. ASSUME NEW e \in Sides PROVE Stream(e)
  <2>1. Peer(e) \in Sides
    BY PeerFacts
  <2>2. Taken(e) = <<>> /\ Sent(Peer(e)) = <<>>
    BY <2>1 DEF Init, Taken, Sent
  <2>3. buff[e] = <<>> /\ wire[e] = <<>> /\ out[Peer(e)] = <<>>
    BY <2>1 DEF Init
  <2>4. <<>> \o <<>> = <<>>
    BY EmptySeq, ConcatEmptySeq
  <2> QED BY <2>2, <2>3, <2>4 DEF Stream, Way
<1> QED BY <1>1, <1>2, <1>3 DEF ShakeInv

LEMMA StartKeeps == ASSUME ShakeInv, NEW e \in Sides, Start(e) PROVE ShakeInv'
<1> DEFINE p == Peer(e)
<1> USE DEF ShakeInv
<1>1. /\ state[e] = "Init" /\ UNCHANGED <<foreign, complex, C2S2, buff, ret, data>>
      /\ ret[e] # 0 /\ p \in Sides /\ p # e
  BY PeerFacts DEF Start, ToldOnce
<1>2. C1S1' \in [Sides -> Formats \cup {Unset}]
  BY DEF Start, TypeOK, CreateC1S1
<1>3. CASE e = "client" /\ SetAndSend(e, "PostC0C1", Hello)
  <2>1. state' = [state EXCEPT ![e] = "PostC0C1"] /\ Send(e, Hello)
    BY <1>3 DEF SetAndSend, Set
  <2>2. /\ wire' \in [Sides -> Seq(Units)] /\ out' \in [Sides -> Seq(Units)]
        /\ phase' \in [Sides -> {"read", "written", "idle"}]
        /\ wire'[p] \o out'[e] = Way(p) \o Hello
        /\ wire'[e] = wire[e] /\ out'[p] = out[p]
        /\ phase'[e] # "read" /\ phase'[p] = phase[p]
    BY <2>1, UnitsFacts, SendAdds
  <2>3. state'[e] = "PostC0C1" /\ state'[p] = state[p]
    BY <1>1, <2>1 DEF TypeOK
  <2>4. TypeOK'
    BY <1>1, <1>2, <1>3, <2>1, <2>2 DEF TypeOK, ClientStates, ServerStates, Sides
  <2>5. ToldOnce'
    BY <1>1, <1>3, <2>2, <2>3, PeerFacts DEF ToldOnce
  <2>6. Sent(e) = <<>> /\ Sent(e)' = Hello /\ Taken(e)' = Taken(e)
    BY <1>1, <2>3 DEF Sent, Taken
  <2>7. Sent(e)' = Sent(e) \o Hello
    BY <2>6, UnitsFacts, ConcatEmptySeq
  <2>8. \A x \in Sides : Stream(x)'
    <3>1. Elsewhere(e) /\ data' = data /\ buff'[e] = buff[e]
      BY <1>1, <2>2, <2>3 DEF Elsewhere
    <3> QED BY <2>2, <2>6, <2>7, <3>1, UnitsFacts, StreamsSent
  <2> QED BY <2>4, <2>5, <2>8
<1>4. CASE e = "server" /\ Set(e, "WaitC0C1") /\ UNCHANGED <<out, wire, phase>>
  <2>1. state' = [state EXCEPT ![e] = "WaitC0C1"]
    BY <1>4 DEF Set
  <2>2. state'[e] = "WaitC0C1" /\ state'[p] = state[p]
    BY <1>1, <2>1 DEF TypeOK
  <2>3. TypeOK'
    BY <1>1, <1>2, <1>4, <2>1 DEF TypeOK, ClientStates, ServerStates, Sides
  <2>4. ToldOnce'
    BY <1>1, <1>4, <2>2, PeerFacts DEF ToldOnce
  <2>5. Sent(e)' = Sent(e) /\ Taken(e)' = Taken(e)
    BY <1>1, <2>2 DEF Sent, Taken
  <2>6. \A x \in Sides : Stream(x)'
    <3>1. Elsewhere(e) /\ data' = data /\ buff'[e] = buff[e] /\ wire'[e] = wire[e] /\ out'[p] = out[p]
      BY <1>1, <1>4, <2>2 DEF Elsewhere
    <3>2. wire'[p] \o out'[e] = Way(p)
      BY <1>4, PeerFacts DEF Way
    <3> QED BY <2>5, <3>1, <3>2, StreamsStill
  <2> QED BY <2>3, <2>4, <2>6
<1> QED BY <1>3, <1>4 DEF Start

LEMMA OnWriteKeeps == ASSUME ShakeInv, NEW e \in Sides, OnWrite(e) PROVE ShakeInv'
<1> DEFINE p == Peer(e)
<1> USE DEF ShakeInv
<1>1. /\ UNCHANGED <<foreign, state, complex, C1S1, C2S2, buff, ret, data>>
      /\ p \in Sides /\ p # e /\ Peer(p) = e /\ out[e] \in Seq(Units)
  BY PeerFacts DEF OnWrite, TypeOK
<1>2. PICK n \in 1 .. Len(out[e]) : Write(e, out[e], n)
  BY DEF OnWrite
<1>3. /\ wire' \in [Sides -> Seq(Units)] /\ out' \in [Sides -> Seq(Units)]
      /\ phase' \in [Sides -> {"read", "written", "idle"}]
      /\ wire'[p] \o out'[e] = wire[p] \o out[e]
      /\ wire'[e] = wire[e] /\ out'[p] = out[p]
      /\ phase'[e] # "read" /\ phase'[p] = phase[p]
  BY <1>1, <1>2, WriteKeeps
<1>4. TypeOK'
  BY <1>1, <1>3 DEF TypeOK
<1>5. ToldOnce'
  BY <1>1, <1>3, PeerFacts DEF ToldOnce
<1>6. Way(p) = wire[p] \o out[e] /\ Sent(e)' = Sent(e) /\ Taken(e)' = Taken(e)
  BY <1>1 DEF Way, Sent, Taken
<1>7. Elsewhere(e) /\ data' = data /\ buff'[e] = buff[e]
  BY <1>1, <1>3 DEF Elsewhere
<1>8. \A x \in Sides : Stream(x)'
  BY <1>3, <1>6, <1>7, StreamsStill
<1> QED BY <1>4, <1>5, <1>8

LEMMA WriteCompleteKeeps == ASSUME ShakeInv, NEW e \in Sides, WriteComplete(e) PROVE ShakeInv'
<1> DEFINE p == Peer(e)
<1> USE DEF ShakeInv
<1>1. /\ UNCHANGED <<foreign, complex, C1S1, C2S2, buff, ret, data>>
      /\ p \in Sides /\ p # e /\ Peer(p) = e
  BY PeerFacts DEF WriteComplete
<1>2. CASE state[e] = "PostS0S1" /\ SetAndSend(e, Posted[state[e]], Echo)
  <2>1. state' = [state EXCEPT ![e] = "PostS2"] /\ Send(e, Echo)
    BY <1>2, PostedFacts DEF SetAndSend, Set
  <2>2. /\ wire' \in [Sides -> Seq(Units)] /\ out' \in [Sides -> Seq(Units)]
        /\ phase' \in [Sides -> {"read", "written", "idle"}]
        /\ wire'[p] \o out'[e] = Way(p) \o Echo
        /\ wire'[e] = wire[e] /\ out'[p] = out[p]
        /\ phase'[e] # "read" /\ phase'[p] = phase[p]
    BY <2>1, UnitsFacts, SendAdds
  <2>3. state'[e] = "PostS2" /\ state'[p] = state[p] /\ e = "server"
    BY <1>1, <1>2, <2>1, PeerFacts DEF TypeOK, ClientStates
  <2>4. TypeOK'
    BY <1>1, <2>1, <2>2, <2>3 DEF TypeOK, ClientStates, ServerStates, Sides
  <2>5. ToldOnce'
    BY <1>1, <1>2, <2>2, <2>3, PeerFacts DEF ToldOnce
  <2>6. Sent(e) = Hello /\ Sent(e)' = Hello \o Echo /\ Taken(e)' = Taken(e)
    BY <1>1, <1>2, <2>3 DEF Sent, Taken
  <2>7. Elsewhere(e) /\ data' = data /\ buff'[e] = buff[e]
    BY <1>1, <2>2, <2>3 DEF Elsewhere
  <2>8. \A x \in Sides : Stream(x)'
    BY <2>2, <2>6, <2>7, UnitsFacts, StreamsSent
  <2> QED BY <2>4, <2>5, <2>8
<1>3. CASE /\ state[e] # "PostS0S1"
           /\ Set(e, IF state[e] \in DOMAIN Posted THEN Posted[state[e]] ELSE state[e])
           /\ phase' = [phase EXCEPT ![e] = "idle"] /\ UNCHANGED <<out, wire>>
  <2>1. /\ state'[p] = state[p] /\ state' \in [Sides -> ClientStates \cup ServerStates]
        /\ \/ state'[e] = state[e]
           \/ state[e] = "PostS2" /\ state'[e] = "WaitC2"
           \/ state[e] = "PostC0C1" /\ state'[e] = "WaitS0S1"
           \/ state[e] \in {"PostC2", "Doning"} /\ state'[e] = "Done"
    BY <1>1, <1>3, PostedFacts DEF Set, TypeOK, ClientStates, ServerStates
  <2>2. /\ phase'[e] = "idle" /\ phase'[p] = phase[p]
        /\ phase' \in [Sides -> {"read", "written", "idle"}]
    BY <1>1, <1>3 DEF TypeOK
  <2>3. state'["client"] \in ClientStates /\ state'["server"] \in ServerStates
    BY <1>1, <2>1, PeerFacts DEF TypeOK, ClientStates, ServerStates
  <2>4. TypeOK'
    BY <1>1, <1>3, <2>1, <2>2, <2>3 DEF TypeOK
  <2>5. ToldOnce'
    BY <1>1, <2>1, <2>2, PeerFacts DEF ToldOnce, TypeOK, ClientStates, ServerStates
  <2>6. Sent(e)' = Sent(e) /\ Taken(e)' = Taken(e)
    <3>1. UNCHANGED <<ret, data>> /\ (state[e] = "Doning" => ret[e] = 0)
      BY <1>1, PeerFacts DEF ToldOnce, TypeOK, ServerStates
    <3>2. Taken(e)' = Taken(e)
      BY <2>1, <3>1 DEF Taken
    <3>3. Sent(e)' = Sent(e)
      BY <2>1, <3>1 DEF Sent
    <3> QED BY <3>2, <3>3
  <2>7. Elsewhere(e) /\ data' = data /\ buff'[e] = buff[e] /\ wire'[e] = wire[e] /\ out'[p] = out[p]
    BY <1>1, <1>3, <2>1, <2>2 DEF Elsewhere
  <2>8. wire'[p] \o out'[e] = Way(p)
    BY <1>1, <1>3 DEF Way
  <2>9. \A x \in Sides : Stream(x)'
    BY <2>6, <2>7, <2>8, StreamsStill
  <2> QED BY <2>4, <2>5, <2>9
<1> QED BY <1>2, <1>3 DEF WriteComplete

LEMMA OnReadKeeps == ASSUME ShakeInv, NEW e \in Sides, OnRead(e) PROVE ShakeInv'
<1> DEFINE p == Peer(e)
<1> USE DEF ShakeInv
<1>1. /\ UNCHANGED <<foreign, state, complex, C1S1, C2S2, out, ret, data>>
      /\ phase' = [phase EXCEPT ![e] = IF ret[e] = 0 THEN "idle" ELSE "read"]
      /\ p \in Sides /\ p # e /\ Peer(p) = e
      /\ buff[e] \in Seq(Units) /\ wire[e] \in Seq(Units) /\ out[p] \in Seq(Units)
  BY PeerFacts DEF OnRead, TypeOK
<1>2. PICK n \in 1 .. Len(wire[e]) :
        /\ buff' = [buff EXCEPT ![e] = @ \o SubSeq(wire[e], 1, n)]
        /\ wire' = [wire EXCEPT ![e] = SubSeq(@, n + 1, Len(@))]
  BY DEF OnRead
<1> DEFINE a == SubSeq(wire[e], 1, n)
           b == SubSeq(wire[e], n + 1, Len(wire[e]))
<1>3. a \in Seq(Units) /\ b \in Seq(Units) /\ a \o b = wire[e]
  <2>1. n \in 0 .. Len(wire[e])
    BY <1>1, LenProperties
  <2> QED BY <1>1, <2>1, CutJoins
<1>4. /\ buff' = [buff EXCEPT ![e] = buff[e] \o a] /\ wire' = [wire EXCEPT ![e] = b]
  BY <1>2
<1> HIDE DEF a, b
<1>5. buff[e] \o a \in Seq(Units)
  BY <1>1, <1>3, ConcatProperties
<1>6. buff' \in [Sides -> Seq(Units)] /\ buff'[e] = buff[e] \o a /\ buff'[p] = buff[p]
  BY <1>1, <1>4, <1>5 DEF TypeOK
<1>7. wire' \in [Sides -> Seq(Units)] /\ wire'[e] = b /\ wire'[p] = wire[p]
  BY <1>1, <1>3, <1>4 DEF TypeOK
<1>8. /\ phase' \in [Sides -> {"read", "written", "idle"}] /\ phase'[p] = phase[p]
      /\ ret[e] = 0 => phase'[e] = "idle"
  BY <1>1 DEF TypeOK
<1>9. TypeOK'
  BY <1>1, <1>6, <1>7, <1>8 DEF TypeOK
<1>10. ToldOnce'
  BY <1>1, <1>8, PeerFacts DEF ToldOnce
<1>11. (buff[e] \o a) \o (b \o out[p]) = buff[e] \o (wire[e] \o out[p])
  <2> DEFINE f == buff[e]
             o == out[p]
             x == b \o o
             w == a \o b
  <2>1. f \in Seq(Units) /\ o \in Seq(Units)
    BY <1>1
  <2> HIDE DEF f, o
  <2>2. x \in Seq(Units) /\ w \o o = a \o x
    <3>1. x \in Seq(Units)
      BY <1>3, <2>1, JoinType
    <3>2. AnyOrder(a, b, o)
      BY <1>3, <2>1, Associates
    <3> QED BY Zenon, <3>1, <3>2 DEF AnyOrder
  <2> HIDE DEF x, w
  <2>3. (f \o a) \o x = f \o (a \o x)
    <3>1. AnyOrder(f, a, x)
      BY <1>3, <2>1, <2>2, Associates
    <3> QED BY Zenon, <3>1 DEF AnyOrder
  <2> QED BY <1>3, <2>2, <2>3 DEF f, o, x, w
<1>12. Stream(e)'
  <2>1. Taken(e)' = Taken(e) /\ Sent(p)' = Sent(p)
    BY <1>1 DEF Taken, Sent
  <2>2. Taken(e) \o (buff[e] \o (wire[e] \o out[p])) = Sent(p)
    BY DEF Stream, Way
  <2>3. Taken(e)' \o (buff'[e] \o (wire'[e] \o out'[p])) = Sent(p)'
    BY <1>1, <1>6, <1>7, <1>11, <2>1, <2>2
  <2> QED BY <2>3 DEF Stream, Way
<1>13. Stream(p)'
  <2>1. Taken(p)' = Taken(p) /\ Sent(e)' = Sent(e) /\ Way(p)' = Way(p)
    BY <1>1, <1>7 DEF Taken, Sent, Way
  <2> QED BY <1>1, <1>6, <2>1 DEF Stream
<1>14. \A x \in Sides : x = e \/ x = p
  BY PeerFacts
<1> QED BY <1>9, <1>10, <1>12, <1>13, <1>14

LEMMA SendDataKeeps == ASSUME ShakeInv, SendData PROVE ShakeInv'
<1> DEFINE e == "client"
           p == "server"
<1> USE DEF ShakeInv
<1>1. /\ UNCHANGED <<foreign, state, complex, C1S1, C2S2, buff, ret>>
      /\ data = FALSE /\ data' = TRUE /\ Send(e, Data) /\ state[e] \in {"Doning", "Done"}
      /\ e \in Sides /\ p \in Sides /\ Peer(e) = p
  BY PeerFacts DEF SendData, ToldOnce, TypeOK
<1>2. /\ wire' \in [Sides -> Seq(Units)] /\ out' \in [Sides -> Seq(Units)]
      /\ phase' \in [Sides -> {"read", "written", "idle"}]
      /\ wire'[p] \o out'[e] = Way(p) \o Data
      /\ wire'[e] = wire[e] /\ out'[p] = out[p]
      /\ phase'[e] # "read" /\ phase'[p] = phase[p]
  BY <1>1, UnitsFacts, SendAdds
<1>3. TypeOK'
  BY <1>1, <1>2 DEF TypeOK
<1>4. ToldOnce'
  BY <1>1, <1>2, PeerFacts DEF ToldOnce
<1>5. Taken(e)' = Taken(e) /\ Sent(e) = Hello \o Echo /\ Sent(e)' = (Hello \o Echo) \o Data
  BY <1>1 DEF Taken, Sent
<1>6. Elsewhere(e) /\ buff'[e] = buff[e]
  BY <1>1, <1>2 DEF Elsewhere
<1>7. \A x \in Sides : Stream(x)'
  BY <1>1, <1>2, <1>5, <1>6, UnitsFacts, StreamsSent
<1> QED BY <1>3, <1>4, <1>7

\* If e is next to take u, then its buffer begins with u once it is as long.
LEMMA NextInBuffer ==
  ASSUME ShakeInv, NEW e \in Sides, NEW u \in Seq(Units), NEW v \in Seq(Units),
         Sent(Peer(e)) = Taken(e) \o (u \o v), Len(u) <= Len(buff[e])
  PROVE  /\ Len(u) \in 0 .. Len(buff[e]) /\ SubSeq(buff[e], 1, Len(u)) = u
<1> DEFINE n == Len(u)
           f == buff[e]
           a == SubSeq(f, 1, n)
           b == SubSeq(f, n + 1, Len(f))
           w == Way(e)
           t == Taken(e)
<1>1. t \in Seq(Units) /\ w \in Seq(Units) /\ f \in Seq(Units)
  BY StreamTypes DEF ShakeInv, TypeOK
<1>2. n \in 0 .. Len(f)
  BY <1>1, LenProperties
<1>3. a \in Seq(Units) /\ Len(a) = n /\ b \in Seq(Units) /\ a \o b = f
  BY <1>1, <1>2, CutJoins
<1>4. t \o (f \o w) = t \o (u \o v)
  BY DEF ShakeInv, Stream
<1> HIDE DEF a, b, w, t, f, n
<1> DEFINE x == f \o w
           y == u \o v
           z == b \o w
<1>5. x \in Seq(Units) /\ y \in Seq(Units) /\ z \in Seq(Units)
  BY <1>1, <1>3, JoinType
<1>6. x = a \o z
  <2>1. a \in Seq(Units) /\ b \in Seq(Units) /\ w \in Seq(Units)
    BY <1>1, <1>3
  <2>2. AnyOrder(a, b, w)
    BY ONLY <2>1, Associates
  <2> QED BY Zenon, <1>3, <2>2 DEF AnyOrder
<1>7. x = y
  <2>1. t \o x = t \o y
    BY <1>4
  <2> HIDE DEF x, y
  <2> QED BY <1>1, <1>5, <2>1, ConcatSimplifications
<1>8. a \o z = u \o v
  BY <1>6, <1>7
<1> HIDE DEF z
<1>9. a = u
  BY <1>3, <1>5, <1>8, CutAlike DEF n
<1> QED BY <1>2, <1>9 DEF a, f, n

\* The new state and answer of e tell of n units that were taken and of these
\* units that were given to Send.
Accounts(e, s, r, units, n) ==
  state'[e] = s /\ ret'[e] = r =>
    Sent(e)' = Sent(e) \o units /\ Taken(e)' = Taken(e) \o SubSeq(buff[e], 1, n)

\* What the steps of HandShake that take units and send some have in common.
LEMMA ShakeSends ==
  ASSUME ShakeInv, NEW e \in Sides, NEW units \in Seq(Units), NEW n \in 0 .. Len(buff[e]),
         NEW s, s \in ClientStates \cup ServerStates, NEW r \in {0, 1},
         IF e = "client" THEN s \in ClientStates ELSE s \in ServerStates,
         r = 0 => s \in {"Doning", "Done"},
         e = "client" /\ s = "Doning" => r = 0,
         e = "server" /\ s = "Done" => r = 0,
         e = "client" /\ data => s \in {"Doning", "Done"},
         SetAndSend(e, s, units), Retrieve(e, n), Return(e, r), UNCHANGED <<C1S1, data>>,
         complex' \in [Sides -> BOOLEAN], C2S2' \in [Sides -> {"none", "plain", "digest"}],
         Accounts(e, s, r, units, n)
  PROVE  ShakeInv'
<1> DEFINE p == Peer(e)
<1> USE DEF ShakeInv
<1>1. p \in Sides /\ p # e /\ \A x \in Sides : x = e \/ x = p
  BY PeerFacts
<1>2. /\ state' \in [Sides -> ClientStates \cup ServerStates] /\ state'[e] = s /\ state'[p] = state[p]
      /\ Send(e, units)
  BY <1>1 DEF SetAndSend, Set, TypeOK
<1>3. ret' \in [Sides -> {-1, 0, 1, 2}] /\ ret'[e] = r /\ ret'[p] = ret[p]
  BY <1>1 DEF Return, TypeOK
<1>4. /\ buff' \in [Sides -> Seq(Units)] /\ buff'[e] = SubSeq(buff[e], n + 1, Len(buff[e]))
      /\ buff'[p] = buff[p]
  <2>1. buff[e] \in Seq(Units)
    BY DEF TypeOK
  <2>2. SubSeq(buff[e], n + 1, Len(buff[e])) \in Seq(Units)
    BY <2>1, CutJoins
  <2> QED BY <1>1, <2>2 DEF Retrieve, TypeOK
<1>5. /\ wire' \in [Sides -> Seq(Units)] /\ out' \in [Sides -> Seq(Units)]
      /\ phase' \in [Sides -> {"read", "written", "idle"}]
      /\ wire'[p] \o out'[e] = Way(p) \o units
      /\ wire'[e] = wire[e] /\ out'[p] = out[p]
      /\ phase'[e] # "read" /\ phase'[p] = phase[p]
  BY <1>2, SendAdds
<1>6. state'["client"] \in ClientStates /\ state'["server"] \in ServerStates
  BY <1>1, <1>2, PeerFacts DEF TypeOK
<1>7. TypeOK'
  BY <1>2, <1>3, <1>4, <1>5, <1>6 DEF TypeOK
<1>8. ToldOnce'
  BY <1>1, <1>2, <1>3, <1>5, PeerFacts DEF ToldOnce
<1>9. Elsewhere(e) /\ data' = data
  BY <1>2, <1>3, <1>4, <1>5 DEF Elsewhere
<1>10. \A x \in Sides : Stream(x)'
  BY <1>2, <1>3, <1>4, <1>5, <1>9, StreamsKept DEF Accounts
<1> QED BY <1>7, <1>8, <1>10

\* What was sent is at least as long as what was taken and is in the buffer.
LEMMA SentEnough ==
  ASSUME ShakeInv, NEW e \in Sides
  PROVE  /\ Len(Taken(e)) \in Nat /\ Len(buff[e]) \in Nat /\ Len(Sent(Peer(e))) \in Nat
         /\ Len(Taken(e)) + Len(buff[e]) <= Len(Sent(Peer(e)))
<1> DEFINE t == Taken(e)
           f == buff[e]
           w == Way(e)
           x == f \o w
<1>1. t \in Seq(Units) /\ f \in Seq(Units) /\ w \in Seq(Units)
  BY StreamTypes DEF ShakeInv, TypeOK
<1>2. t \o x = Sent(Peer(e))
  BY DEF ShakeInv, Stream
<1> HIDE DEF t, f, w
<1>3. x \in Seq(Units) /\ Len(x) = Len(f) + Len(w)
  BY <1>1, ConcatProperties
<1> HIDE DEF x
<1>4. Len(t \o x) = Len(t) + Len(x)
  BY <1>1, <1>3, ConcatProperties
<1>5. Len(t) \in Nat /\ Len(f) \in Nat /\ Len(w) \in Nat
  BY <1>1, LenProperties
<1> QED BY <1>2, <1>3, <1>4, <1>5 DEF t, f

\* s begins with u.
Begins(s, u) == \E v \in Seq(Units) : s = u \o v

\* What was sent begins with Hello and, if there is more, goes on with Echo.
LEMMA SentForms ==
  ASSUME NEW x \in Sides
  PROVE  /\ Len(Sent(x)) > 0 => Begins(Sent(x), Hello)
         /\ Len(Sent(x)) > Parts + 1 =>
              Sent(x) = Hello \o Echo \/ (x = "client" /\ Sent(x) = (Hello \o Echo) \o Data)
<1>1. Parts \in Nat /\ Len(<<>>) = 0
  BY PartsAssumption, EmptySeq
<1>2. Begins(Hello, Hello)
  BY UnitsFacts, EmptySeq, ConcatEmptySeq DEF Begins
<1>3. Begins(Hello \o Echo, Hello)
  BY UnitsFacts DEF Begins
<1>4. Begins((Hello \o Echo) \o Data, Hello)
  <2>1. Echo \o Data \in Seq(Units)
    BY UnitsFacts, JoinType
  <2>2. (Hello \o Echo) \o Data = Hello \o (Echo \o Data)
    BY UnitsFacts, JoinThree
  <2> DEFINE more == Echo \o Data
             all == (Hello \o Echo) \o Data
  <2> HIDE DEF more, all
  <2>3. more \in Seq(Units) /\ all = Hello \o more
    BY <2>1, <2>2 DEF more, all
  <2>4. Begins(all, Hello)
    BY <2>3 DEF Begins
  <2> QED BY <2>4 DEF all
<1>5. CASE Sent(x) = <<>>
  BY <1>1, <1>5
<1>6. CASE Sent(x) = Hello
  BY <1>1, <1>2, <1>6, UnitsFacts
<1>7. CASE Sent(x) = Hello \o Echo
  BY <1>3, <1>7
<1>8. CASE x = "client" /\ Sent(x) = (Hello \o Echo) \o Data
  BY <1>4, <1>8
<1> QED BY <1>5, <1>6, <1>7, <1>8 DEF Sent

LEMMA ShakeHelloKeeps ==
  ASSUME ShakeInv, NEW e \in Sides, phase[e] = "read", ShakeHello(e), UNCHANGED <<C1S1, data>>
  PROVE  ShakeInv'
<1> DEFINE p == Peer(e)
           both == e = "client" /\ Len(buff[e]) = (Parts + 1) + Parts
<1> USE DEF ShakeInv
<1>1. Parts \in Nat /\ Parts > 0 /\ p \in Sides /\ p # e
  BY PartsAssumption, PeerFacts
<1>2. /\ \/ e = "server" /\ state[e] = "WaitC0C1"
         \/ e = "client" /\ state[e] = "WaitS0S1"
      /\ Len(buff[e]) >= Parts + 1 /\ ret[e] # 0
  <2>1. state[e] \in {"WaitC0C1", "WaitS0S1"} /\ Len(buff[e]) >= Parts + 1
    BY NeedsFacts DEF ShakeHello, Enough
  <2> QED BY <2>1, PeerFacts DEF TypeOK, ClientStates, ServerStates, ToldOnce
<1>3. Taken(e) = <<>> /\ (e = "client" => ~data)
  BY <1>2 DEF Taken, ToldOnce
<1>4. /\ complex' \in [Sides -> BOOLEAN]
      /\ C2S2' \in [Sides -> {"none", "plain", "digest"}]
  BY DEF ShakeHello, TypeOK
<1>5. Len(Sent(p)) \in Nat /\ Len(buff[e]) \in Nat /\ Len(buff[e]) <= Len(Sent(p))
  BY <1>3, SentEnough
<1>6. Parts + 1 \in 0 .. Len(buff[e]) /\ SubSeq(buff[e], 1, Parts + 1) = Hello
  <2>1. PICK v \in Seq(Units) : Sent(p) = Hello \o v
    <3>1. Begins(Sent(p), Hello)
      BY <1>1, <1>2, <1>5, SentForms
    <3> QED BY <3>1 DEF Begins
  <2>2. Hello \o v \in Seq(Units)
    BY UnitsFacts, JoinType
  <2>3. <<>> \o (Hello \o v) = Hello \o v
    BY <2>2, ConcatEmptySeq
  <2>4. Sent(p) = Taken(e) \o (Hello \o v)
    BY <1>3, <2>1, <2>3
  <2> QED BY <1>2, <2>4, UnitsFacts, NextInBuffer
<1>7. <<>> \o Hello = Hello
  BY UnitsFacts, ConcatEmptySeq
<1>8. CASE e = "server" /\ Retrieve(e, Parts + 1) /\ SetAndSend(e, "PostS0S1", Hello) /\ Return(e, 1)
  <2>1. Sent(e) = <<>>
    BY <1>2, <1>8 DEF Sent
  <2>2. state'[e] = "PostS0S1" /\ ret'[e] = 1 => Sent(e)' = Hello /\ Taken(e)' = Hello
    BY DEF Sent, Taken
  <2>3. Accounts(e, "PostS0S1", 1, Hello, Parts + 1)
    BY <1>3, <1>6, <1>7, <2>1, <2>2 DEF Accounts
  <2>4. "PostS0S1" \in ServerStates /\ Hello \in Seq(Units) /\ 1 \in {0, 1} /\ e = "server"
    BY <1>8, UnitsFacts DEF ServerStates
  <2>5. Parts + 1 \in 0 .. Len(buff[e])
    BY <1>6
  <2> DEFINE m == Parts + 1
             r == 1
             st == "PostS0S1"
  <2>6. /\ m \in 0 .. Len(buff[e]) /\ Retrieve(e, m) /\ Return(e, r) /\ SetAndSend(e, st, Hello)
        /\ Accounts(e, st, r, Hello, m) /\ r \in {0, 1} /\ r # 0
        /\ st \in ServerStates /\ st # "Done"
    BY <1>8, <2>3, <2>4, <2>5
  <2> HIDE DEF m, r, st
  <2> QED BY <1>4, <2>4, <2>6, ShakeSends

<1>9. CASE /\ both
           /\ Retrieve(e, 2 * Parts + 1) /\ SetAndSend(e, "Doning", Echo) /\ Return(e, 0)
  <2>1. /\ Sent(e) = Hello
        /\ state'[e] = "Doning" /\ ret'[e] = 0 => Sent(e)' = Hello \o Echo /\ Taken(e)' = Hello \o Echo
    BY <1>2, <1>3, <1>9 DEF Sent, Taken
  <2>2. p = "server" /\ Len(buff[e]) = 2 * Parts + 1 /\ 2 * Parts + 1 \in 0 .. Len(buff[e])
    BY <1>1, <1>5, <1>9, PeerFacts
  <2>3. Hello \o Echo \in Seq(Units) /\ Len(Hello \o Echo) = 2 * Parts + 1
    <3>1. Len(Hello \o Echo) = Len(Hello) + Len(Echo)
      BY UnitsFacts, ConcatProperties
    <3> QED BY <1>1, <3>1, UnitsFacts, JoinType
  <2>4. Sent(p) = Hello \o Echo
    <3>1. Len(Sent(p)) > Parts + 1
      BY <1>1, <1>5, <2>2
    <3> QED BY <1>1, <2>2, <3>1, SentForms
  <2>5. Sent(p) = Taken(e) \o ((Hello \o Echo) \o <<>>) /\ <<>> \o (Hello \o Echo) = Hello \o Echo
    BY <1>3, <2>3, <2>4, ConcatEmptySeq
  <2>6. SubSeq(buff[e], 1, 2 * Parts + 1) = Hello \o Echo
    <3> DEFINE u == Hello \o Echo
    <3>1. u \in Seq(Units) /\ <<>> \in Seq(Units) /\ Len(u) <= Len(buff[e]) /\ Len(u) = 2 * Parts + 1
      BY <2>2, <2>3, EmptySeq
    <3>2. Sent(p) = Taken(e) \o (u \o <<>>)
      BY <2>5
    <3> HIDE DEF u
    <3>3. SubSeq(buff[e], 1, Len(u)) = u
      BY <3>1, <3>2, NextInBuffer
    <3> QED BY <3>1, <3>3 DEF u
  <2>7. Accounts(e, "Doning", 0, Echo, 2 * Parts + 1)
    BY <1>3, <2>1, <2>5, <2>6 DEF Accounts
  <2>8. "Doning" \in ClientStates /\ Echo \in Seq(Units) /\ 0 \in {0, 1} /\ e = "client"
    BY <1>9, UnitsFacts DEF ClientStates
  <2> QED BY <1>3, <1>4, <1>9, <2>2, <2>7, <2>8, ShakeSends
<1>10. CASE /\ e = "client" /\ ~both
            /\ Retrieve(e, Parts + 1) /\ SetAndSend(e, "PostC2", Echo) /\ Return(e, 1)
  <2>1. /\ Sent(e) = Hello
        /\ state'[e] = "PostC2" /\ ret'[e] = 1 => Sent(e)' = Hello \o Echo /\ Taken(e)' = Hello
    BY <1>2, <1>3, <1>10 DEF Sent, Taken
  <2>2. Accounts(e, "PostC2", 1, Echo, Parts + 1)
    BY <1>3, <1>6, <1>7, <2>1 DEF Accounts
  <2>3. "PostC2" \in ClientStates /\ Echo \in Seq(Units) /\ 1 \in {0, 1} /\ e = "client"
    BY <1>10, UnitsFacts DEF ClientStates
  <2>4. Parts + 1 \in 0 .. Len(buff[e]) /\ ~data
    BY <1>3, <1>6, <1>10
  <2> DEFINE m == Parts + 1
             r == 1
             st == "PostC2"
  <2>5. /\ m \in 0 .. Len(buff[e]) /\ Retrieve(e, m) /\ Return(e, r) /\ SetAndSend(e, st, Echo)
        /\ Accounts(e, st, r, Echo, m) /\ r \in {0, 1} /\ r # 0
        /\ st \in ClientStates /\ st # "Doning"
    BY <1>10, <2>2, <2>3, <2>4
  <2> HIDE DEF m, r, st
  <2> QED BY <1>4, <2>3, <2>4, <2>5, ShakeSends
<1>11. CASE /\ Return(e, -1)
            /\ phase' = [phase EXCEPT ![e] = "idle"] /\ UNCHANGED <<state, C2S2, out, wire, buff>>
  <2>1. ret' \in [Sides -> {-1, 0, 1, 2}] /\ ret'[e] = -1 /\ ret'[p] = ret[p]
    BY <1>1, <1>11 DEF Return, TypeOK
  <2>2. phase' \in [Sides -> {"read", "written", "idle"}] /\ phase'[e] = "idle" /\ phase'[p] = phase[p]
    BY <1>1, <1>11 DEF TypeOK
  <2>3. TypeOK'
    BY <1>4, <1>11, <2>1, <2>2 DEF TypeOK
  <2>4. ToldOnce'
    BY <1>2, <1>11, <2>1, <2>2, PeerFacts DEF ToldOnce
  <2>5. Elsewhere(e) /\ buff'[e] = buff[e] /\ wire'[e] = wire[e] /\ out'[p] = out[p]
    BY <1>11, <2>1, <2>2 DEF Elsewhere
  <2>6. wire'[p] \o out'[e] = Way(p) /\ Sent(e)' = Sent(e) /\ Taken(e)' = Taken(e)
    <3>1. wire'[p] \o out'[e] = Way(p)
      BY <1>11, PeerFacts DEF Way
    <3>2. Sent(e)' = Sent(e)
      BY <1>11 DEF Sent
    <3>3. Taken(e)' = <<>>
      BY <1>2, <1>11, <2>1 DEF Taken
    <3> QED BY <1>3, <3>1, <3>2, <3>3
  <2>7. \A x \in Sides : Stream(x)'
    BY <2>5, <2>6, StreamsStill
  <2> QED BY <2>3, <2>4, <2>7
<1> QED BY <1>8, <1>9, <1>10, <1>11 DEF ShakeHello

LEMMA ShakeC2Keeps ==
  ASSUME ShakeInv, NEW e \in Sides, phase[e] = "read", ShakeC2(e), UNCHANGED <<C1S1, data>>
  PROVE  ShakeInv'
<1> DEFINE p == Peer(e)
<1> USE DEF ShakeInv
<1>1. Parts \in Nat /\ Parts > 0 /\ p \in Sides /\ p # e
  BY PartsAssumption, PeerFacts
<1>2. /\ e = "server" /\ state[e] = "WaitC2" /\ Len(buff[e]) >= Parts /\ ret[e] # 0
      /\ state' = [state EXCEPT ![e] = "Done"] /\ Retrieve(e, Parts) /\ ret' = [ret EXCEPT ![e] = 0]
      /\ phase' = [phase EXCEPT ![e] = "idle"] /\ UNCHANGED <<complex, C2S2, out, wire>>
  <2>1. state[e] = "WaitC2" /\ Len(buff[e]) >= Parts
    BY NeedsFacts DEF ShakeC2, Enough
  <2> QED BY <2>1, PeerFacts DEF ShakeC2, Set, Return, TypeOK, ClientStates, ToldOnce
<1>3. Taken(e) = Hello
  BY <1>2 DEF Taken
<1>4. Len(Sent(p)) > Parts + 1
  <2>1. Len(Hello) + Len(buff[e]) <= Len(Sent(p)) /\ Len(buff[e]) \in Nat /\ Len(Sent(p)) \in Nat
    BY <1>3, SentEnough
  <2>2. Len(Hello) = Parts + 1
    BY UnitsFacts
  <2>3. Len(buff[e]) >= Parts
    BY <1>2
  <2> DEFINE m == Len(buff[e])
             n == Len(Sent(p))
  <2>4. m \in Nat /\ n \in Nat /\ m >= Parts /\ (Parts + 1) + m <= n
    BY <2>1, <2>2, <2>3
  <2> HIDE DEF m, n
  <2>5. n > Parts + 1
    BY <1>1, <2>4
  <2> QED BY <2>5 DEF n
<1>5. \E v \in Seq(Units) : Sent(p) = Hello \o (Echo \o v)
  <2>1. Sent(p) = Hello \o Echo \/ Sent(p) = (Hello \o Echo) \o Data
    BY <1>1, <1>4, SentForms
  <2>2. Hello \o Echo = Hello \o (Echo \o <<>>) /\ <<>> \in Seq(Units)
    BY UnitsFacts, EmptySeq, ConcatEmptySeq
  <2>3. (Hello \o Echo) \o Data = Hello \o (Echo \o Data)
    BY UnitsFacts, JoinThree
  <2> QED BY <2>1, <2>2, <2>3, UnitsFacts
<1>6. Parts \in 0 .. Len(buff[e]) /\ SubSeq(buff[e], 1, Parts) = Echo
  <2>1. PICK v \in Seq(Units) : Sent(p) = Taken(e) \o (Echo \o v)
    BY <1>3, <1>5
  <2>2. Echo \in Seq(Units) /\ Len(Echo) = Parts /\ Parts <= Len(buff[e])
    BY <1>2, UnitsFacts
  <2> QED BY <2>1, <2>2, NextInBuffer
<1>7. /\ state' \in [Sides -> ClientStates \cup ServerStates] /\ state'[e] = "Done" /\ state'[p] = state[p]
      /\ state'["client"] \in ClientStates /\ state'["server"] \in ServerStates
  BY <1>1, <1>2, PeerFacts DEF TypeOK, ClientStates, ServerStates
<1>8. /\ ret' \in [Sides -> {-1, 0, 1, 2}] /\ ret'[e] = 0 /\ ret'[p] = ret[p]
      /\ phase' \in [Sides -> {"read", "written", "idle"}] /\ phase'[e] = "idle" /\ phase'[p] = phase[p]
  BY <1>1, <1>2 DEF TypeOK
<1>9. /\ buff' \in [Sides -> Seq(Units)] /\ buff'[e] = SubSeq(buff[e], Parts + 1, Len(buff[e]))
      /\ buff'[p] = buff[p]
  <2>1. buff[e] \in Seq(Units)
    BY DEF TypeOK
  <2>2. SubSeq(buff[e], Parts + 1, Len(buff[e])) \in Seq(Units)
    BY <1>6, <2>1, CutJoins
  <2> QED BY <1>1, <1>2, <2>2 DEF Retrieve, TypeOK
<1>10. TypeOK'
  BY <1>2, <1>7, <1>8, <1>9 DEF TypeOK
<1>11. ToldOnce'
  BY <1>1, <1>2, <1>7, <1>8, PeerFacts DEF ToldOnce
<1>12. Elsewhere(e) /\ data' = data /\ wire'[e] = wire[e] /\ out'[p] = out[p]
  BY <1>2, <1>7, <1>8, <1>9 DEF Elsewhere
<1>13. Sent(e)' = Sent(e) \o <<>> /\ Sent(e)' = Sent(e)
  <2>1. Sent(e)' = Sent(e)
    BY <1>2, <1>7 DEF Sent
  <2>2. Sent(e) \o <<>> = Sent(e)
    BY StreamTypes, ConcatEmptySeq
  <2> QED BY <2>1, <2>2
<1>14. wire'[p] \o out'[e] = Way(p) \o <<>>
  <2>1. wire'[p] \o out'[e] = Way(p)
    BY <1>2, PeerFacts DEF Way
  <2>2. Way(p) \o <<>> = Way(p)
    BY <1>1, StreamTypes, ConcatEmptySeq
  <2> QED BY <2>1, <2>2
<1>15. Taken(e)' = Taken(e) \o SubSeq(buff[e], 1, Parts)
  BY <1>3, <1>6, <1>8 DEF Taken
<1>16. \A x \in Sides : Stream(x)'
  <2>1. <<>> \in Seq(Units) /\ Parts \in 0 .. Len(buff[e])
    BY <1>6, EmptySeq
  <2> QED BY <1>9, <1>12, <1>13, <1>14, <1>15, <2>1, StreamsKept
<1> QED BY <1>10, <1>11, <1>16

LEMMA ShakeNothingKeeps ==
  ASSUME ShakeInv, NEW e \in Sides, phase[e] = "read", ShakeNothing(e), UNCHANGED <<C1S1, data>>
  PROVE  ShakeInv'
<1> DEFINE p == Peer(e)
<1> USE DEF ShakeInv
<1>1. /\ ret' = [ret EXCEPT ![e] = 1] /\ phase' = [phase EXCEPT ![e] = "idle"]
      /\ UNCHANGED <<state, complex, C2S2, out, wire, buff>>
      /\ p \in Sides /\ p # e /\ ret[e] # 0
  BY PeerFacts DEF ShakeNothing, Return, ToldOnce
<1>2. /\ ret' \in [Sides -> {-1, 0, 1, 2}] /\ ret'[e] = 1 /\ ret'[p] = ret[p]
      /\ phase' \in [Sides -> {"read", "written", "idle"}] /\ phase'[e] = "idle" /\ phase'[p] = phase[p]
  BY <1>1 DEF TypeOK
<1>3. TypeOK'
  BY <1>1, <1>2 DEF TypeOK
<1>4. ToldOnce'
  BY <1>1, <1>2, PeerFacts DEF ToldOnce
<1>5. Elsewhere(e) /\ data' = data /\ buff'[e] = buff[e] /\ wire'[e] = wire[e] /\ out'[p] = out[p]
  BY <1>1, <1>2 DEF Elsewhere
<1>6. wire'[p] \o out'[e] = Way(p)
  BY <1>1, PeerFacts DEF Way
<1>7. Sent(e)' = Sent(e) /\ Taken(e)' = Taken(e)
  <2>1. Sent(e)' = Sent(e)
    BY <1>1 DEF Sent
  <2>2. Taken(e)' = Taken(e)
    BY <1>1, <1>2 DEF Taken
  <2> QED BY <2>1, <2>2
<1>8. \A x \in Sides : Stream(x)'
  BY <1>5, <1>6, <1>7, StreamsStill
<1> QED BY <1>3, <1>4, <1>8

LEMMA ShakeStep == ShakeInv /\ [Next]_vars => ShakeInv'
<1> SUFFICES ASSUME ShakeInv, [Next]_vars PROVE ShakeInv'
  OBVIOUS
<1>1. CASE UNCHANGED vars
  BY <1>1 DEF vars, ShakeInv, TypeOK, ToldOnce, Stream, Taken, Way, Sent
<1>2. CASE SendData
  BY <1>2, SendDataKeeps
<1>3. ASSUME NEW e \in Sides, Start(e) \/ OnWrite(e) \/ WriteComplete(e) \/ OnRead(e) PROVE ShakeInv'
  BY <1>3, StartKeeps, OnWriteKeeps, WriteCompleteKeeps, OnReadKeeps
<1>4. ASSUME NEW e \in Sides, HandShake(e) PROVE ShakeInv'
  <2>1. phase[e] = "read" /\ UNCHANGED <<C1S1, data>>
    BY <1>4 DEF HandShake
  <2> QED BY <1>4, <2>1, ShakeHelloKeeps, ShakeC2Keeps, ShakeNothingKeeps DEF HandShake
<1> QED BY <1>1, <1>2, <1>3, <1>4 DEF Next

\* ShakeInv is an invariant of the two sides, whatever packets TCP makes of what
\* they send.
THEOREM HandShakeInvariant == Safety => []ShakeInv
BY InitShake, ShakeStep, PTL DEF Safety

-----------------------------------------------------------------------------
(* The report of room.                                                     *)

\* Only a side with queued output waits for one.
EdgeInv == edge \in [Sides -> BOOLEAN] /\ \A e \in Sides : edge[e] => out[e] # <<>>

LEMMA QueueEdge ==
  ASSUME TypeOK, EdgeInv, NEW e \in Sides, NEW units, Queue(e, units)
  PROVE  EdgeInv'
<1>1. out' = [out EXCEPT ![e] = units] /\ edge' = [edge EXCEPT ![e] = units # <<>>]
  BY DEF Queue
<1>2. out'[e] = units /\ \A x \in Sides : x # e => out'[x] = out[x]
  BY <1>1 DEF TypeOK
<1>3. /\ edge' \in [Sides -> BOOLEAN] /\ edge'[e] = (units # <<>>)
      /\ \A x \in Sides : x # e => edge'[x] = edge[x]
  BY <1>1 DEF EdgeInv
<1> QED BY <1>2, <1>3 DEF EdgeInv

LEMMA SendEdge ==
  ASSUME TypeOK, EdgeInv, NEW e \in Sides, NEW units, Send(e, units)
  PROVE  EdgeInv'
BY QueueEdge DEF Send, Write

LEMMA EdgeStep == ShakeInv /\ EdgeInv /\ [Next]_vars => EdgeInv'
<1> SUFFICES ASSUME TypeOK, EdgeInv, [Next]_vars PROVE EdgeInv'
  BY DEF ShakeInv
<1>1. CASE UNCHANGED <<out, edge>>
  BY <1>1 DEF EdgeInv
<1>2. CASE UNCHANGED vars
  BY <1>1, <1>2 DEF vars
<1>3. CASE SendData
  BY <1>3, PeerFacts, SendEdge DEF SendData
<1>4. ASSUME NEW e \in Sides, Start(e) PROVE EdgeInv'
  BY <1>1, <1>4, SendEdge DEF Start, SetAndSend
<1>5. ASSUME NEW e \in Sides, OnWrite(e) PROVE EdgeInv'
  BY <1>5, QueueEdge DEF OnWrite, Write
<1>6. ASSUME NEW e \in Sides, WriteComplete(e) PROVE EdgeInv'
  BY <1>1, <1>6, SendEdge DEF WriteComplete, SetAndSend
<1>7. ASSUME NEW e \in Sides, OnRead(e) PROVE EdgeInv'
  <2>1. PICK again \in BOOLEAN : edge' = [edge EXCEPT ![e] = again /\ out[e] # <<>>]
    BY <1>7 DEF OnRead
  <2>2. out' = out
    BY <1>7 DEF OnRead
  <2> QED BY <2>1, <2>2 DEF EdgeInv
<1>8. ASSUME NEW e \in Sides, HandShake(e) PROVE EdgeInv'
  BY <1>1, <1>8, SendEdge DEF HandShake, ShakeHello, ShakeC2, ShakeNothing, SetAndSend
<1> QED BY <1>2, <1>3, <1>4, <1>5, <1>6, <1>7, <1>8 DEF Next

\* OnWrite is called for a connection of the handshake only if it has output
\* queued: EPOLLOUT is taken back when all is written.
THEOREM HandShakeEdge == Safety => []EdgeInv
<1>1. Init => EdgeInv
  BY DEF Init, EdgeInv
<1> QED BY <1>1, EdgeStep, HandShakeInvariant, PTL DEF Safety

-----------------------------------------------------------------------------
(* What is left when HandShake has returned 0.                             *)

\* What a side that was told 0 has still to get.
LEMMA LeftToGet ==
  ASSUME ShakeInv, NEW e \in Sides, ret[e] = 0
  PROVE  /\ buff[e] \in Seq(Units) /\ wire[e] \in Seq(Units) /\ out[Peer(e)] \in Seq(Units)
         /\ (buff[e] \o wire[e]) \o out[Peer(e)] \in {<<>>, Data}
<1> USE DEF ShakeInv
<1> DEFINE p == Peer(e)
           s == buff[e] \o wire[e]
           o == out[p]
           h == Hello \o Echo
           w == Way(e)
           x == s \o o
<1>1. p \in Sides /\ buff[e] \in Seq(Units) /\ wire[e] \in Seq(Units) /\ o \in Seq(Units)
  BY PeerFacts DEF TypeOK
<1>2. s \in Seq(Units) /\ h \in Seq(Units) /\ x \in Seq(Units)
  BY <1>1, UnitsFacts, JoinType
<1>3. buff[e] \o w = x
  BY <1>1, JoinThree DEF Way
<1>4. h \o x = Sent(p)
  <2>1. Taken(e) = h
    BY DEF Taken
  <2>2. Taken(e) \o (buff[e] \o w) = Sent(p)
    BY DEF Stream
  <2> QED BY <1>3, <2>1, <2>2
<1>5. Sent(p) = h \/ Sent(p) = h \o Data
  <2>1. /\ Len(Taken(e)) \in Nat /\ Len(buff[e]) \in Nat /\ Len(Sent(p)) \in Nat
        /\ Len(Taken(e)) + Len(buff[e]) <= Len(Sent(p))
    BY SentEnough
  <2>2. Len(Taken(e)) = (Parts + 1) + Parts
    <3>1. Taken(e) = h
      BY DEF Taken
    <3>2. Len(h) = Len(Hello) + Len(Echo)
      BY UnitsFacts, ConcatProperties
    <3> HIDE DEF h
    <3> QED BY <3>1, <3>2, UnitsFacts
  <2> DEFINE m == Len(Taken(e))
             k == Len(Sent(p))
             f == Len(buff[e])
  <2>3. m \in Nat /\ k \in Nat /\ f \in Nat /\ m + f <= k /\ m = (Parts + 1) + Parts
    BY <2>1, <2>2
  <2> HIDE DEF m, k, f
  <2>4. k > Parts + 1
    BY <2>3, PartsAssumption
  <2>5. Len(Sent(p)) > Parts + 1
    BY <2>4 DEF k
  <2> QED BY <1>1, <2>5, SentForms
<1>6. Data \in Seq(Units) /\ <<>> \in Seq(Units) /\ h \o <<>> = h
  BY <1>2, UnitsFacts, EmptySeq, ConcatEmptySeq
<1> HIDE DEF h, x
<1>7. h \o x = h \/ h \o x = h \o Data
  BY <1>4, <1>5
<1>8. x = <<>> \/ x = Data
  BY <1>2, <1>6, <1>7, ConcatSimplifications
<1> QED BY <1>1, <1>8 DEF x

\* Wherever TCP cuts the packets and whenever the writes complete: a side whose
\* HandShake returned 0 has taken C0C1 and C2, or S0S1 and S2, and no more, so
\* what it finds next is the other side's messages.
THEOREM HandShakeMessagesNext == Spec => []MessagesNext
<1>1. ASSUME NEW s \in Seq(Units), NEW o \in Seq(Units), s \o o \in {<<>>, Data}
      PROVE  \A i \in DOMAIN s : s[i][1] = "data"
  <2> SUFFICES ASSUME NEW i \in DOMAIN s PROVE s[i][1] = "data"
    OBVIOUS
  <2> DEFINE x == s \o o
  <2>1. /\ Len(x) = Len(s) + Len(o)
        /\ \A j \in 1 .. Len(s) + Len(o) : x[j] = IF j <= Len(s) THEN s[j] ELSE o[j - Len(s)]
    BY ConcatProperties
  <2>2. Len(s) \in Nat /\ Len(o) \in Nat /\ i \in 1 .. Len(s)
    BY LenProperties
  <2>3. i \in 1 .. Len(s) + Len(o) /\ i <= Len(s)
    BY <2>2
  <2>4. x[i] = s[i] /\ (x = <<>> \/ x = Data)
    BY <1>1, <2>1, <2>3
  <2>5. Len(<<>>) = 0 /\ Len(Data) = 1 /\ Data[1][1] = "data"
    BY UnitsFacts, EmptySeq
  <2> HIDE DEF x
  <2>6. x = Data
    BY <2>1, <2>2, <2>4, <2>5
  <2>7. Len(s) + Len(o) = 1
    BY <2>1, <2>5, <2>6
  <2> DEFINE m == Len(s)
             n == Len(o)
  <2>8. m \in Nat /\ n \in Nat /\ i \in 1 .. m /\ m + n = 1
    BY <2>2, <2>7
  <2> HIDE DEF m, n
  <2>9. i = 1
    BY <2>8
  <2> QED BY <2>4, <2>5, <2>6, <2>9
<1>2. ShakeInv => MessagesNext
  <2> SUFFICES ASSUME ShakeInv, NEW e \in Sides, ret[e] = 0
               PROVE  \A i \in DOMAIN (buff[e] \o wire[e]) : (buff[e] \o wire[e])[i][1] = "data"
    BY DEF MessagesNext
  <2> DEFINE s == buff[e] \o wire[e]
             o == out[Peer(e)]
  <2>1. o \in Seq(Units) /\ s \o o \in {<<>>, Data}
    BY LeftToGet
  <2>2. s \in Seq(Units)
    BY LeftToGet, JoinType
  <2> HIDE DEF s, o
  <2>3. \A i \in DOMAIN s : s[i][1] = "data"
    BY <1>1, <2>1, <2>2
  <2> QED BY <2>3 DEF s
<1> QED BY <1>2, HandShakeInvariant, PTL DEF Spec

-----------------------------------------------------------------------------
(* The two schemes.                                                        *)

\* A packet is made once, by Start; until then it has no version 3, so nobody
\* answers it.
SchemeInv ==
  /\ \A e \in Sides : state[e] = "Init" => C1S1[e] = Unset
  /\ AnswersTheScheme

LEMMA SchemeStep == ShakeInv /\ SchemeInv /\ [Next]_vars => SchemeInv'
<1> SUFFICES ASSUME ShakeInv, SchemeInv, [Next]_vars PROVE SchemeInv'
  OBVIOUS
<1> USE DEF ShakeInv
<1>1. ASSUME UNCHANGED <<C1S1, C2S2>>, \A e \in Sides : state'[e] = "Init" => state[e] = "Init"
      PROVE  SchemeInv'
  BY <1>1 DEF SchemeInv, AnswersTheScheme
<1>2. CASE UNCHANGED vars
  BY <1>1, <1>2 DEF vars
<1>3. CASE SendData
  BY <1>1, <1>3 DEF SendData
<1>4. ASSUME NEW e \in Sides, OnWrite(e) \/ OnRead(e) PROVE SchemeInv'
  BY <1>1, <1>4 DEF OnWrite, OnRead
<1>5. ASSUME NEW e \in Sides, NEW s, s # "Init", Set(e, s) PROVE \A x \in Sides : state'[x] = "Init" => state[x] = "Init"
  BY <1>5 DEF Set, TypeOK
<1>6. ASSUME NEW e \in Sides, WriteComplete(e) PROVE SchemeInv'
  <2>1. UNCHANGED <<C1S1, C2S2>>
    BY <1>6 DEF WriteComplete
  <2>2. CASE SetAndSend(e, "PostS2", Echo)
    BY <1>1, <1>5, <2>1, <2>2 DEF SetAndSend
  <2>3. CASE Set(e, IF state[e] \in DOMAIN Posted THEN Posted[state[e]] ELSE state[e])
    BY <1>1, <2>1, <2>3, PostedFacts DEF Set, TypeOK
  <2> QED BY <1>6, <2>2, <2>3, PostedFacts DEF WriteComplete
<1>7. ASSUME NEW e \in Sides, Start(e) PROVE SchemeInv'
  <2> DEFINE p == Peer(e)
  <2>1. p \in Sides /\ p # e /\ \A x \in Sides : x = e \/ x = p
    BY PeerFacts
  <2>2. state[e] = "Init" /\ C2S2' = C2S2 /\ \E q : C1S1' = [C1S1 EXCEPT ![e] = q]
    BY <1>7 DEF Start
  <2>3. state'[e] # "Init" /\ state'[p] = state[p]
    BY <1>7, <2>1 DEF Start, SetAndSend, Set, TypeOK
  <2>4. C1S1'[p] = C1S1[p] /\ Unset.ver # 3 /\ C1S1[e].ver # 3
    BY <2>1, <2>2 DEF SchemeInv, Unset, TypeOK
  <2>5. C2S2[p] \notin {"digest", "plain"}
    BY <2>1, <2>4, PeerFacts DEF SchemeInv, AnswersTheScheme
  <2>6. Peer(e) = p /\ Peer(p) = e
    BY PeerFacts
  <2> QED BY <2>1, <2>2, <2>3, <2>4, <2>5, <2>6 DEF SchemeInv, AnswersTheScheme
<1>8. ASSUME NEW e \in Sides, HandShake(e) PROVE SchemeInv'
  <2> DEFINE p == Peer(e)
             q == C1S1[p]
  <2>1. C1S1' = C1S1 /\ p \in Sides /\ \A x \in Sides : x = e \/ x = p
    BY <1>8, PeerFacts DEF HandShake
  <2>2. \A x \in Sides : state'[x] = "Init" => state[x] = "Init"
    BY <1>8, <1>5 DEF HandShake, ShakeHello, ShakeC2, ShakeNothing, SetAndSend
  <2>3. CASE C2S2' = C2S2
    BY <1>1, <2>1, <2>2, <2>3
  <2>4. CASE /\ complex' = [complex EXCEPT ![e] = @ /\ ~(q.ver = 3 /\ q.version = 0)]
             /\ CheckC1S1(e) >= 0
             /\ C2S2' = [C2S2 EXCEPT ![e] = IF complex'[e] THEN "digest" ELSE "plain"]
    <3>1. complex'[e] = (complex[e] /\ ~(q.ver = 3 /\ q.version = 0)) /\ complex[e] \in BOOLEAN
      BY <2>4 DEF TypeOK
    <3>2. q.ver = 3
      BY <2>4 DEF CheckC1S1
    <3>3. q.version # 0 =>
            complex[e] /\ \E off \in {First, Second} : VerifyDigest(q, off, p)
      BY <2>4, <3>2 DEF CheckC1S1
    <3>4. q.version # 0 => complex[e] /\ q.key = p /\ q.at # 0
      BY <3>3 DEF VerifyDigest, First, Second
    <3>5. C2S2'[e] = IF complex'[e] THEN "digest" ELSE "plain"
      BY <2>4 DEF TypeOK
    <3>6. /\ C2S2'[e] = "digest" => q.ver = 3 /\ q.version # 0 /\ q.key = p /\ q.at # 0
          /\ C2S2'[e] = "plain" => q.ver = 3 /\ q.version = 0
      BY <3>1, <3>2, <3>4, <3>5
    <3>7. \A x \in Sides : x # e => C2S2'[x] = C2S2[x]
      BY <2>4 DEF TypeOK
    <3> QED BY <2>1, <2>2, <3>6, <3>7 DEF SchemeInv, AnswersTheScheme
  <2> QED BY <1>8, <2>3, <2>4 DEF HandShake, ShakeHello, ShakeC2, ShakeNothing
<1> QED BY <1>2, <1>3, <1>4, <1>6, <1>7, <1>8 DEF Next

\* Whatever the other program sends and in which order the packets cross, C2 or
\* S2 is made in the scheme of the packet that was checked, not of another.
THEOREM HandShakeAnswersTheScheme == Spec => []AnswersTheScheme
<1>1. Init => SchemeInv
  BY DEF Init, SchemeInv, AnswersTheScheme
<1>2. SchemeInv => AnswersTheScheme
  BY DEF SchemeInv
<1> QED BY <1>1, <1>2, SchemeStep, HandShakeInvariant, PTL DEF Spec, Safety
=============================================================================
