--------------------------- MODULE UdpSocketProofs ---------------------------
(***************************************************************************)
(* Proofs about UdpSocket, for any datagrams, any descriptors and a send     *)
(* buffer of any size.                                                     *)
(***************************************************************************)
EXTENDS UdpSocket, SequenceTheorems, WellFoundedInduction, TLAPS

-----------------------------------------------------------------------------
(* Induction over sequences, and what Full makes of them.                  *)

\* A set of numbers that is not empty has a smallest one.
LEMMA LeastOfNat ==
  ASSUME NEW S, S \subseteq Nat, S # {}
  PROVE  \E x \in S : \A y \in S : x <= y
<1> DEFINE Less == {ss \in Nat \X Nat : ss[1] < ss[2]}
<1>1. OpToRel(<, Nat) = Less
  BY DEF OpToRel
<1>2. IsWellFoundedOn(Less, Nat)
  BY <1>1, NatLessThanWellFounded
<1>3. \E x \in S : \A y \in S : ~(<<y, x>> \in Less)
  <2> HIDE DEF Less
  <2> QED BY <1>2, WFMin
<1>4. PICK x \in S : \A y \in S : ~(<<y, x>> \in Less)
  BY <1>3
<1>5. ASSUME NEW y \in S PROVE x <= y
  <2>1. <<y, x>> \in Nat \X Nat /\ <<y, x>>[1] = y /\ <<y, x>>[2] = x
    OBVIOUS
  <2>2. ~(y < x)
    BY <1>4, <2>1
  <2> QED BY <2>2
<1> QED BY <1>5

\* A set that has the empty sequence, and with each sequence all that are one
\* element longer, has every sequence.
LEMMA EverySequence ==
  ASSUME NEW S, NEW T, <<>> \in T,
         \A s \in Seq(S), e \in S : s \in T => Append(s, e) \in T
  PROVE  Seq(S) \subseteq T
<1> SUFFICES ASSUME NEW s0 \in Seq(S), s0 \notin T PROVE FALSE
  OBVIOUS
<1> DEFINE Lengths == {n \in Nat : \E s \in Seq(S) : s \notin T /\ Len(s) = n}
<1>1. Lengths \subseteq Nat /\ Lengths # {}
  BY LenProperties
<1>2. PICK n \in Lengths : \A k \in Lengths : n <= k
  BY <1>1, LeastOfNat
<1>3. PICK s \in Seq(S) : s \notin T /\ Len(s) = n
  BY <1>2
<1>4. s # <<>>
  BY <1>3
<1>5. PICK u \in Seq(S), e \in S : s = Append(u, e)
  BY <1>4, SequenceEmptyOrAppend
<1>6. Len(u) \in Nat /\ Len(s) = Len(u) + 1
  BY <1>5, AppendProperties, LenProperties
<1>7. u \in T
  BY <1>2, <1>3, <1>6
<1> QED BY <1>3, <1>5, <1>7

\* The function Full is defined by: f[i] is what the first i datagrams leave.
Leaves(ms, f) ==
  f = [i \in 0 .. Len(ms) |->
         IF i = 0 THEN <<>> ELSE IF ms[i] \in Empty THEN f[i - 1] ELSE Append(f[i - 1], ms[i])]

\* Two such functions agree as far as their datagrams do.
LEMMA LeavesAgree ==
  ASSUME NEW S, NEW s \in Seq(S), NEW t \in Seq(S), NEW f, NEW g, Leaves(s, f), Leaves(t, g),
         NEW n \in Nat, n <= Len(s), n <= Len(t), \A i \in 1 .. n : s[i] = t[i]
  PROVE  f[n] = g[n]
<1> SUFFICES ASSUME f[n] # g[n] PROVE FALSE
  OBVIOUS
<1> DEFINE Differ == {i \in 0 .. n : f[i] # g[i]}
<1>1. Differ \subseteq Nat /\ Differ # {}
  OBVIOUS
<1>2. PICK k \in Differ : \A i \in Differ : k <= i
  BY <1>1, LeastOfNat
<1>3. Len(s) \in Nat /\ Len(t) \in Nat
  BY LenProperties
<1>4. k \in 0 .. Len(s) /\ k \in 0 .. Len(t)
  BY <1>2, <1>3
<1>5. /\ f[k] = IF k = 0 THEN <<>> ELSE IF s[k] \in Empty THEN f[k - 1] ELSE Append(f[k - 1], s[k])
      /\ g[k] = IF k = 0 THEN <<>> ELSE IF t[k] \in Empty THEN g[k - 1] ELSE Append(g[k - 1], t[k])
  BY <1>4 DEF Leaves
<1>6. CASE k = 0
  BY <1>2, <1>5, <1>6
<1>7. CASE k # 0
  <2>1. k \in 1 .. n /\ k - 1 \in 0 .. n /\ ~(k <= k - 1)
    BY <1>2, <1>7
  <2>2. f[k - 1] = g[k - 1]
    BY <1>2, <2>1
  <2> QED BY <1>2, <1>5, <2>1, <2>2
<1> QED BY <1>6, <1>7

\* Every sequence has such a function.
LEMMA LeavesExists == ASSUME NEW S, NEW ms \in Seq(S) PROVE \E f : Leaves(ms, f)
<1> DEFINE T == {s \in Seq(S) : \E f : Leaves(s, f)}
<1>1. <<>> \in T
  <2> DEFINE f == [i \in 0 .. 0 |-> <<>>]
  <2>1. Leaves(<<>>, f)
    BY DEF Leaves
  <2> QED BY <2>1, EmptySeq
<1>2. ASSUME NEW s \in Seq(S), NEW e \in S, s \in T PROVE Append(s, e) \in T
  <2> DEFINE t == Append(s, e)
             n == Len(s)
  <2>1. PICK f : Leaves(s, f)
    BY <1>2
  <2> DEFINE h == [i \in 0 .. n + 1 |->
                     IF i <= n THEN f[i] ELSE IF t[i] \in Empty THEN f[n] ELSE Append(f[n], t[i])]
  <2>2. n \in Nat /\ t \in Seq(S) /\ Len(t) = n + 1 /\ \A i \in 1 .. n : t[i] = s[i]
    BY AppendProperties, LenProperties
  <2>3. ASSUME NEW i \in 0 .. n + 1
        PROVE  h[i] = IF i = 0 THEN <<>> ELSE IF t[i] \in Empty THEN h[i - 1] ELSE Append(h[i - 1], t[i])
    <3> HIDE DEF t, n
    <3>1. CASE i = 0
      <4>1. f[0] = <<>>
        BY <2>1, <2>2 DEF Leaves, n
      <4> QED BY <2>2, <3>1, <4>1
    <3>2. CASE i # 0 /\ i <= n
      <4>1. i \in 0 .. n /\ i - 1 \in 0 .. n + 1 /\ i - 1 <= n /\ i \in 1 .. n
        BY <2>2, <3>2
      <4>2. f[i] = IF s[i] \in Empty THEN f[i - 1] ELSE Append(f[i - 1], s[i])
        BY <2>1, <3>2, <4>1 DEF Leaves, n
      <4> QED BY <2>2, <3>2, <4>1, <4>2
    <3>3. CASE i = n + 1
      <4>1. i - 1 = n /\ i # 0 /\ ~(i <= n) /\ n \in 0 .. n + 1
        BY <2>2, <3>3
      <4> QED BY <3>3, <4>1
    <3> QED BY <2>2, <3>1, <3>2, <3>3
  <2>4. Leaves(t, h)
    <3>1. h = [i \in 0 .. n + 1 |-> h[i]]
      OBVIOUS
    <3> HIDE DEF h, t, n
    <3> QED BY <2>2, <2>3, <3>1 DEF Leaves
  <2> QED BY <2>2, <2>4
<1>3. Seq(S) \subseteq T
  <2> HIDE DEF T
  <2> QED BY <1>1, <1>2, EverySequence
<1> QED BY <1>3

LEMMA FullLeaves ==
  ASSUME NEW S, NEW ms \in Seq(S)
  PROVE  \E f : Leaves(ms, f) /\ Full(ms) = f[Len(ms)]
<1> DEFINE f == CHOOSE g : Leaves(ms, g)
<1>1. Leaves(ms, f)
  BY LeavesExists
<1>2. Full(ms) = f[Len(ms)]
  BY DEF Full, Leaves
<1> QED BY <1>1, <1>2

\* One datagram more.
LEMMA FullOfAppend ==
  ASSUME NEW S, NEW ms \in Seq(S), NEW m \in S
  PROVE  Full(Append(ms, m)) = IF m \in Empty THEN Full(ms) ELSE Append(Full(ms), m)
<1> DEFINE t == Append(ms, m)
           n == Len(ms)
<1>1. n \in Nat /\ t \in Seq(S) /\ Len(t) = n + 1 /\ t[n + 1] = m /\ \A i \in 1 .. n : t[i] = ms[i]
  BY AppendProperties, LenProperties
<1> HIDE DEF t
<1>2. PICK f : Leaves(ms, f) /\ Full(ms) = f[n]
  BY FullLeaves
<1>3. PICK g : Leaves(t, g) /\ Full(t) = g[n + 1]
  BY <1>1, FullLeaves
<1> HIDE DEF n
<1>4. g[n + 1] = IF m \in Empty THEN g[n] ELSE Append(g[n], m)
  <2>1. n + 1 \in 0 .. Len(t) /\ n + 1 # 0 /\ (n + 1) - 1 = n
    BY <1>1
  <2> QED BY <1>1, <1>3, <2>1 DEF Leaves
<1>5. g[n] = f[n]
  BY <1>1, <1>2, <1>3, LeavesAgree DEF n
<1> QED BY <1>2, <1>3, <1>4, <1>5 DEF t

\* A datagram of size 0 leaves no trace, wherever it is.
LEMMA EmptyLeavesNoTrace ==
  ASSUME NEW S, NEW s \in Seq(S), NEW m \in S, m \in Empty, NEW ms \in Seq(S)
  PROVE  Full(Append(s, m) \o ms) = Full(s \o ms)
<1> DEFINE u == Append(s, m)
           T == {t \in Seq(S) : Full(u \o t) = Full(s \o t)}
<1>1. u \in Seq(S)
  BY AppendProperties
<1>2. <<>> \in T
  <2>1. u \o <<>> = u /\ s \o <<>> = s /\ <<>> \in Seq(S)
    BY <1>1, ConcatEmptySeq, EmptySeq
  <2> QED BY <2>1, FullOfAppend
<1> HIDE DEF u
<1>3. ASSUME NEW t \in Seq(S), NEW e \in S, t \in T PROVE Append(t, e) \in T
  <2>1. ASSUME NEW v \in Seq(S) PROVE v \o Append(t, e) = Append(v \o t, e) /\ v \o t \in Seq(S)
    <3>1. v \o t \in Seq(S) /\ <<e>> \in Seq(S)
      BY ConcatProperties
    <3>2. (v \o t) \o <<e>> = v \o (t \o <<e>>)
      BY <3>1, ConcatAssociative
    <3> QED BY <3>1, <3>2, AppendIsConcat
  <2>2. /\ Full(u \o Append(t, e)) = Full(Append(u \o t, e))
        /\ Full(s \o Append(t, e)) = Full(Append(s \o t, e))
    BY <1>1, <2>1
  <2>3. /\ Full(Append(u \o t, e)) = IF e \in Empty THEN Full(u \o t) ELSE Append(Full(u \o t), e)
        /\ Full(Append(s \o t, e)) = IF e \in Empty THEN Full(s \o t) ELSE Append(Full(s \o t), e)
    BY <1>1, <2>1, FullOfAppend
  <2>4. Append(t, e) \in Seq(S)
    BY AppendProperties
  <2> QED BY <1>3, <2>2, <2>3, <2>4
<1>4. Seq(S) \subseteq T
  <2> HIDE DEF T
  <2> QED BY <1>2, <1>3, EverySequence
<1> QED BY <1>4 DEF u

-----------------------------------------------------------------------------
(* The socket: its descriptor, its entry in the loop and how it closes.    *)

AllTasks == Messages \cup {"open", "close", "stop"}

TypeOK ==
  /\ role \in {"server", "client"}
  /\ fd \in Fds \cup {NoFd} /\ entries \subseteq Fds
  /\ closed \in BOOLEAN /\ stopped \in BOOLEAN /\ connected \in BOOLEAN
  /\ mail \in Seq(AllTasks)

\* A socket is opened when it has no descriptor and no other call to open it
\* is on its way: so it has none when the task runs.
OpensOnce ==
  \A i \in DOMAIN mail : mail[i] = "open" =>
    fd = NoFd /\ \A j \in DOMAIN mail : mail[j] = "open" => j = i

\* OnRead begins with an open socket: if it is closed meanwhile, by a callback,
\* then it has no descriptor left to read from.
ReadsOpen ==
  closed /\ (phase = "read" \/ (phase = "callback" /\ ret = "read")) => fd = NoFd

SocketInv == TypeOK /\ OpensOnce /\ ReadsOpen /\ (stopped => closed) /\ NoStaleEntry

LEMMA InitSocket == Init => SocketInv
<1> SUFFICES ASSUME Init PROVE SocketInv
  OBVIOUS
<1>1. mail \in Seq(AllTasks) /\ DOMAIN mail = {}
  BY EmptySeq DEF Init
<1> QED BY <1>1 DEF Init, SocketInv, TypeOK, OpensOnce, ReadsOpen, NoStaleEntry

\* The ways to close: closed_ stays set, the first close takes the descriptor,
\* and what is left in events_ is the server's that was not stopped.
LEMMA Closing ==
  ASSUME SocketInv, OnClose \/ Stop, role' = role
  PROVE  /\ fd' \in {fd, NoFd} /\ entries' \subseteq entries
         /\ closed' \in BOOLEAN /\ stopped' \in BOOLEAN /\ connected' \in BOOLEAN
         /\ closed => closed'
         /\ closed' => closed \/ fd' = NoFd
         /\ stopped' => closed'
         /\ NoStaleEntry'
<1> USE DEF SocketInv, TypeOK, NoStaleEntry, CloseSocket, DelEvent
<1>1. CASE Stop
  BY <1>1 DEF Stop
<1>2. CASE role = "client" /\ ClientOnClose
  <2>1. CASE connected
    <3>1. /\ entries' = entries \ {fd} /\ connected' = FALSE /\ closed' = TRUE /\ stopped' = stopped
          /\ fd' = IF closed THEN fd ELSE NoFd
      BY <1>2, <2>1 DEF ClientOnClose, object
    <3>2. entries' = {}
      BY <1>2, <3>1
    <3> QED BY <3>1, <3>2
  <2>2. CASE ~connected
    BY <1>2, <2>2 DEF ClientOnClose, object
  <2> QED BY <2>1, <2>2
<1>3. CASE role = "server" /\ ServerOnClose
  BY <1>3 DEF ServerOnClose
<1> QED BY <1>1, <1>2, <1>3 DEF OnClose

\* What every step keeps as long as it touches the object only to close it and
\* does not begin to read.
LEMMA ClosingKeeps ==
  ASSUME SocketInv, role' = role,
         OnClose \/ Stop \/ UNCHANGED object,
         mail' = mail,
         (phase' = "read" \/ (phase' = "callback" /\ ret' = "read")) =>
            (phase = "read" \/ (phase = "callback" /\ ret = "read"))
  PROVE  SocketInv'
<1>1. CASE UNCHANGED object
  BY <1>1 DEF SocketInv, TypeOK, OpensOnce, ReadsOpen, NoStaleEntry, object
<1>2. CASE OnClose \/ Stop
  <2>1. /\ fd' \in {fd, NoFd} /\ entries' \subseteq entries
        /\ closed' \in BOOLEAN /\ stopped' \in BOOLEAN /\ connected' \in BOOLEAN
        /\ closed => closed'
        /\ closed' => closed \/ fd' = NoFd
        /\ stopped' => closed'
        /\ NoStaleEntry'
    BY <1>2, Closing
  <2>2. TypeOK'
    BY <2>1 DEF SocketInv, TypeOK
  <2>3. OpensOnce' /\ ReadsOpen'
    BY <2>1 DEF SocketInv, TypeOK, OpensOnce, ReadsOpen
  <2> QED BY <2>1, <2>2, <2>3 DEF SocketInv
<1> QED BY <1>1, <1>2

\* Every task but the first stays where it was, one place nearer.
LEMMA TailKeeps ==
  ASSUME TypeOK, OpensOnce, mail # <<>>, mail' = Tail(mail)
  PROVE  /\ mail' \in Seq(AllTasks)
         /\ \A i \in DOMAIN mail' : i + 1 \in DOMAIN mail /\ mail'[i] = mail[i + 1]
         /\ Head(mail) = "open" =>
              fd = NoFd /\ \A i \in DOMAIN mail' : mail'[i] # "open"
<1>1. /\ mail' \in Seq(AllTasks) /\ Len(mail') = Len(mail) - 1 /\ Head(mail) = mail[1]
      /\ \A i \in 1 .. Len(mail') : mail'[i] = mail[i + 1]
  BY HeadTailProperties DEF TypeOK
<1>2. /\ Len(mail) \in Nat \ {0} /\ DOMAIN mail = 1 .. Len(mail)
      /\ DOMAIN mail' = 1 .. Len(mail) - 1
  BY <1>1, EmptySeq, LenProperties DEF TypeOK
<1>3. \A i \in DOMAIN mail' : i \in 1 .. Len(mail') /\ i + 1 \in DOMAIN mail /\ i + 1 # 1
  BY <1>1, <1>2
<1>4. 1 \in DOMAIN mail
  BY <1>2
<1>5. \A i \in DOMAIN mail' : mail'[i] = mail[i + 1]
  BY <1>1, <1>3
<1> QED BY <1>1, <1>3, <1>4, <1>5 DEF OpensOnce

LEMMA PostKeeps == ASSUME SocketInv, NEW task \in AllTasks, Post(task) PROVE SocketInv'
<1> USE DEF SocketInv
<1>1. /\ mail' = Append(mail, task) /\ UNCHANGED <<role, phase, ret, object>>
      /\ \A i \in DOMAIN mail : mail[i] # task
      /\ task = "open" => fd = NoFd \/ task \in Messages
  BY DEF Post
<1>2. fd' = fd /\ entries' = entries /\ closed' = closed /\ stopped' = stopped /\ connected' = connected
  BY <1>1 DEF object
<1>3. /\ mail' \in Seq(AllTasks) /\ Len(mail') = Len(mail) + 1 /\ mail'[Len(mail) + 1] = task
      /\ \A i \in 1 .. Len(mail) : mail'[i] = mail[i]
  BY <1>1, AppendProperties DEF TypeOK
<1>4. /\ Len(mail) \in Nat /\ DOMAIN mail = 1 .. Len(mail)
      /\ DOMAIN mail' = 1 .. Len(mail) + 1
  BY <1>3, LenProperties DEF TypeOK
<1>5. task = "open" => fd = NoFd
  BY <1>1, MessagesAssumption
<1>6. OpensOnce'
  <2> SUFFICES ASSUME NEW i \in DOMAIN mail', mail'[i] = "open"
               PROVE  fd = NoFd /\ \A j \in DOMAIN mail' : mail'[j] = "open" => j = i
    BY <1>2 DEF OpensOnce
  <2>1. ASSUME NEW k \in DOMAIN mail', mail'[k] = "open"
        PROVE  \/ k \in DOMAIN mail /\ mail[k] = "open"
               \/ k = Len(mail) + 1 /\ task = "open"
    <3>1. k \in 1 .. Len(mail) \/ k = Len(mail) + 1
      BY <1>4
    <3> QED BY <1>3, <1>4, <2>1, <3>1
  <2>2. \A k \in DOMAIN mail : mail[k] = "open" => task # "open"
    BY <1>1
  <2> QED BY <1>5, <2>1, <2>2 DEF OpensOnce
<1>7. TypeOK'
  BY <1>1, <1>2, <1>3 DEF TypeOK
<1>8. ReadsOpen' /\ (stopped' => closed') /\ NoStaleEntry'
  BY <1>1, <1>2 DEF ReadsOpen, NoStaleEntry
<1> QED BY <1>6, <1>7, <1>8

\* The task that opens the socket finds it without a descriptor, and no other
\* such task behind it.
LEMMA RunTaskKeeps == ASSUME SocketInv, RunTask PROVE SocketInv'
<1> USE DEF SocketInv
<1>1. /\ phase = "idle" /\ mail # <<>> /\ mail' = Tail(mail) /\ role' = role
      /\ \/ UNCHANGED object /\ phase' = phase /\ ret' = ret
         \/ /\ Head(mail) = "open"
            /\ \/ OnClose /\ UNCHANGED <<phase, ret>>
               \/ \E f \in Fds : /\ AddEvent(f) /\ connected' \in BOOLEAN
                               /\ \/ UNCHANGED <<phase, ret>>
                                  \/ phase' = "callback" /\ ret' = "idle"
         \/ (OnClose \/ Stop) /\ UNCHANGED <<phase, ret>>
  <2> USE DEF RunTask
  <2>1. /\ phase = "idle" /\ mail # <<>> /\ mail' = Tail(mail) /\ role' = role
    OBVIOUS
  <2>2. CASE UNCHANGED <<object, input, phase, ret>>
    BY <2>1, <2>2
  <2>3. CASE Head(mail) = "open" /\ ((role = "server" /\ ServerOpen) \/ (role = "client" /\ ConnectInLoop))
    <3>1. ServerOpen \/ ConnectInLoop
      BY <2>3
    <3>2. \/ OnClose /\ UNCHANGED <<phase, ret>>
          \/ \E f \in Fds : /\ AddEvent(f) /\ connected' \in BOOLEAN
                          /\ \/ UNCHANGED <<phase, ret>>
                             \/ phase' = "callback" /\ ret' = "idle"
      BY <3>1 DEF ServerOpen, ConnectInLoop, NoSocket, TypeOK
    <3> QED BY <2>1, <2>3, <3>2
  <2>4. CASE (OnClose \/ Stop) /\ UNCHANGED <<output, input, sockErr, phase, ret>>
    BY <2>1, <2>4
  <2> QED BY <2>2, <2>3, <2>4
<1>2. /\ mail' \in Seq(AllTasks)
      /\ \A i \in DOMAIN mail' : i + 1 \in DOMAIN mail /\ mail'[i] = mail[i + 1]
      /\ Head(mail) = "open" =>
           fd = NoFd /\ \A i \in DOMAIN mail' : mail'[i] # "open"
  BY <1>1, TailKeeps
<1>3. ASSUME NEW i \in DOMAIN mail', mail'[i] = "open"
      PROVE  fd = NoFd /\ \A j \in DOMAIN mail' : mail'[j] = "open" => j = i
  <2>1. i + 1 \in DOMAIN mail /\ mail[i + 1] = "open"
    BY <1>2, <1>3
  <2>2. ASSUME NEW j \in DOMAIN mail', mail'[j] = "open" PROVE j = i
    <3>1. j + 1 \in DOMAIN mail /\ mail[j + 1] = "open"
      BY <1>2, <2>2
    <3>2. j + 1 = i + 1
      BY <2>1, <3>1 DEF OpensOnce
    <3>3. DOMAIN mail' = 1 .. Len(mail')
      BY <1>2, LenProperties
    <3> QED BY <3>2, <3>3
  <2> QED BY <2>1, <2>2 DEF OpensOnce
<1>5. CASE UNCHANGED object /\ phase' = phase /\ ret' = ret
  <2>1. fd' = fd /\ entries' = entries /\ closed' = closed /\ stopped' = stopped /\ connected' = connected
    BY <1>5 DEF object
  <2>2. OpensOnce'
    BY <1>3, <2>1 DEF OpensOnce
  <2>3. TypeOK'
    BY <1>1, <1>2, <2>1 DEF TypeOK
  <2> QED BY <1>1, <1>5, <2>1, <2>2, <2>3 DEF ReadsOpen, NoStaleEntry
<1>6. CASE (OnClose \/ Stop) /\ UNCHANGED <<phase, ret>>
  <2>1. /\ fd' \in {fd, NoFd} /\ entries' \subseteq entries
        /\ closed' \in BOOLEAN /\ stopped' \in BOOLEAN /\ connected' \in BOOLEAN
        /\ closed' => closed \/ fd' = NoFd
        /\ stopped' => closed'
        /\ NoStaleEntry'
    BY <1>1, <1>6, Closing
  <2>2. OpensOnce'
    BY <1>3, <2>1 DEF OpensOnce
  <2>3. TypeOK'
    BY <1>1, <1>2, <2>1 DEF TypeOK
  <2>4. ReadsOpen'
    BY <1>1, <1>6 DEF ReadsOpen
  <2> QED BY <2>1, <2>2, <2>3, <2>4
<1>7. CASE /\ Head(mail) = "open"
           /\ \E f \in Fds : /\ AddEvent(f) /\ connected' \in BOOLEAN
                           /\ \/ UNCHANGED <<phase, ret>>
                              \/ phase' = "callback" /\ ret' = "idle"
  <2>1. PICK f \in Fds : AddEvent(f)
    BY <1>7
  <2>2. /\ fd' = f /\ entries' = entries \cup {f} /\ closed' = closed /\ stopped' = stopped
        /\ connected' \in BOOLEAN
    BY <1>7, <2>1 DEF AddEvent
  <2>3. OpensOnce'
    BY <1>2, <1>7 DEF OpensOnce
  <2>4. TypeOK'
    BY <1>1, <1>2, <2>2 DEF TypeOK
  <2>5. ReadsOpen'
    BY <1>1, <1>7 DEF ReadsOpen
  <2>6. NoStaleEntry'
    <3>1. fd = NoFd /\ NoFd \notin entries
      BY <1>2, <1>7, FdsAssumption DEF TypeOK
    <3> QED BY <1>1, <2>2, <3>1 DEF NoStaleEntry
  <2> QED BY <2>2, <2>3, <2>4, <2>5, <2>6
<1> QED BY <1>1, <1>5, <1>6, <1>7

LEMMA SocketStep == SocketInv /\ [Next]_vars => SocketInv'
<1> SUFFICES ASSUME SocketInv, [Next]_vars PROVE SocketInv'
  OBVIOUS
<1>1. CASE UNCHANGED vars
  <2>1. UNCHANGED object /\ UNCHANGED <<role, phase, ret, mail>>
    BY <1>1 DEF vars
  <2> QED BY <2>1, ClosingKeeps
<1>2. ASSUME NEW d, PeerSends(d) PROVE SocketInv'
  BY <1>2, ClosingKeeps DEF PeerSends
<1>3. CASE PeerRefuses
  BY <1>3, ClosingKeeps DEF PeerRefuses
<1>4. CASE Transmit
  BY <1>4, ClosingKeeps DEF Transmit
<1>5. ASSUME NEW task \in Messages \cup {"open", "close", "stop"}, Post(task) PROVE SocketInv'
  BY <1>5, PostKeeps DEF AllTasks
<1>6. CASE CallbackClose
  BY <1>6, ClosingKeeps DEF CallbackClose
<1>7. ASSUME NEW m \in Messages, CallbackSend(m) PROVE SocketInv'
  BY <1>7, ClosingKeeps DEF CallbackSend
<1>8. CASE RunTask
  BY <1>8, RunTaskKeeps
<1>9. CASE CallbackDone
  <2>1. UNCHANGED <<role, object, mail>> /\ phase = "callback" /\ phase' = ret
    BY <1>9 DEF CallbackDone
  <2>2. (phase' = "read" \/ (phase' = "callback" /\ ret' = "read")) => ret = "read"
    BY <1>9 DEF CallbackDone
  <2> QED BY <2>1, <2>2, ClosingKeeps
<1>10. CASE Dispatch
  <2>1. CASE phase' = "read" /\ ~closed /\ UNCHANGED object
    BY <1>10, <2>1 DEF Dispatch, SocketInv, TypeOK, OpensOnce, ReadsOpen, NoStaleEntry, object
  <2>2. CASE (OnClose \/ UNCHANGED object) /\ phase' \in {"idle", "write"}
    BY <1>10, <2>2, ClosingKeeps DEF Dispatch
  <2> QED BY <1>10, <2>1, <2>2 DEF Dispatch, SocketInv, TypeOK
<1>11. CASE OnRead
  <2>1. CASE UNCHANGED object
    BY <1>11, <2>1, ClosingKeeps DEF OnRead
  <2>2. CASE OnClose /\ phase' = "idle"
    BY <1>11, <2>2, ClosingKeeps DEF OnRead
  <2> QED BY <1>11, <2>1, <2>2 DEF OnRead
<1>12. CASE OnWrite
  <2>1. UNCHANGED object \/ OnClose
    BY <1>12 DEF OnWrite
  <2>2. UNCHANGED <<role, mail>>
    BY <1>12 DEF OnWrite
  <2>3. phase' # "read" /\ (phase' = "callback" => ret' = "idle")
    BY <1>12 DEF OnWrite
  <2> QED BY <2>1, <2>2, <2>3, ClosingKeeps
<1>13. CASE OnTimeOut
  BY <1>13, ClosingKeeps DEF OnTimeOut
<1> QED
  BY <1>1, <1>2, <1>3, <1>4, <1>5, <1>6, <1>7, <1>8, <1>9, <1>10, <1>11, <1>12, <1>13
  DEF Next, Network, App, InLoop

THEOREM SocketInvariant == Safety => []SocketInv
BY InitSocket, SocketStep, PTL DEF Safety

\* At all times the loop has the socket under its open descriptor only, but for
\* a server that another way than Stop closed.
THEOREM SocketNoStaleEntry == Spec => []NoStaleEntry
<1>1. SocketInv => NoStaleEntry
  BY DEF SocketInv
<1> QED BY <1>1, SocketInvariant, PTL DEF Spec

\* However the callbacks, the tasks and the peers interleave, a socket that is
\* closed calls message_cb_ no more.
THEOREM SocketClosedIsSilent == Spec => ClosedIsSilent
<1>1. SocketInv /\ [Next]_vars => [closed => heard' = heard]_vars
  <2> SUFFICES ASSUME SocketInv, Next, closed PROVE heard' = heard
    BY DEF vars
  <2>1. CASE OnRead
    BY <2>1 DEF OnRead, SocketInv, ReadsOpen
  <2>2. CASE ~OnRead
    BY <2>2 DEF Next, Network, App, InLoop, PeerRefuses, Transmit, PeerSends, Post,
       CallbackClose, CallbackSend, RunTask, CallbackDone, Dispatch, OnWrite, OnTimeOut
  <2> QED BY <2>1, <2>2
<1> QED BY <1>1, SocketInvariant, PTL DEF Spec, Safety, ClosedIsSilent

-----------------------------------------------------------------------------
(* The datagrams: what was sent, what is queued and what was to be sent.   *)

ListsOK == wire \in Seq(Messages) /\ list \in Seq(Messages) /\ due \in Seq(Messages)

DatagramInv == ListsOK /\ DatagramsInOrder

LEMMA AppendAfter ==
  ASSUME NEW S, NEW s \in Seq(S), NEW t \in Seq(S), NEW e \in S
  PROVE  s \o Append(t, e) = Append(s \o t, e)
<1>1. s \o t \in Seq(S) /\ <<e>> \in Seq(S)
  BY ConcatProperties
<1>2. (s \o t) \o <<e>> = s \o (t \o <<e>>)
  BY <1>1, ConcatAssociative
<1> QED BY <1>1, <1>2, AppendIsConcat

\* What is moved from the head of one sequence to the end of another that
\* comes before it stays where it was.
LEMMA MoveKeeps ==
  ASSUME NEW S, NEW s \in Seq(S), NEW t \in Seq(S), t # <<>>
  PROVE  Append(s, Head(t)) \o Tail(t) = s \o t
<1> DEFINE x == Head(t)
           u == Tail(t)
<1>1. x \in S /\ u \in Seq(S) /\ <<x>> \in Seq(S)
  BY HeadTailProperties
<1>2. t = <<x>> \o u
  <2>1. Len(t) \in Nat /\ Len(t) # 0
    BY EmptySeq
  <2>2. 1 \in 1 .. Len(t) /\ Len(t) \in 1 .. Len(t)
    BY <2>1
  <2>3. SubSeq(t, 1, Len(t)) = <<t[1]>> \o SubSeq(t, 1 + 1, Len(t))
    BY <2>2, SubSeqRecursiveFirst
  <2>4. SubSeq(t, 1, Len(t)) = t /\ u = SubSeq(t, 2, Len(t)) /\ x = t[1]
    BY SubSeqFull, TailIsSubSeq, HeadTailProperties
  <2> QED BY <2>3, <2>4
<1> HIDE DEF x, u
<1>3. (s \o <<x>>) \o u = s \o (<<x>> \o u)
  BY <1>1, ConcatAssociative
<1>4. Append(s, x) = s \o <<x>>
  BY <1>1, AppendIsConcat
<1> QED BY <1>2, <1>3, <1>4 DEF x, u

LEMMA SendKeeps == ASSUME DatagramInv, NEW m \in Messages, SendInLoop(m) PROVE DatagramInv'
<1> USE DEF DatagramInv, ListsOK, DatagramsInOrder
<1>1. due' = Append(due, m) /\ due' \in Seq(Messages)
  BY AppendProperties DEF SendInLoop
<1>2. /\ wire \o list \in Seq(Messages) /\ Append(list, m) \in Seq(Messages)
      /\ Append(wire, m) \in Seq(Messages)
  BY ConcatProperties, AppendProperties
<1>3. Full(due') = IF m \in Empty THEN Full(wire \o list) ELSE Append(Full(wire \o list), m)
  BY <1>1, FullOfAppend
<1>4. Full(wire \o Append(list, m)) = Full(due')
  <2>1. wire \o Append(list, m) = Append(wire \o list, m)
    BY AppendAfter
  <2>2. Full(Append(wire \o list, m)) =
          IF m \in Empty THEN Full(wire \o list) ELSE Append(Full(wire \o list), m)
    BY <1>2, FullOfAppend
  <2> QED BY <1>3, <2>1, <2>2
<1>5. CASE wire' = wire /\ list' = Append(list, m)
  BY <1>1, <1>2, <1>4, <1>5
<1>6. CASE list = <<>> /\ m \notin Empty /\ wire' = Append(wire, m) /\ list' = list
  <2>1. Append(wire, m) \o <<>> = Append(wire, m) /\ wire \o <<>> = wire
    BY <1>2, ConcatEmptySeq
  <2>2. Full(wire' \o list') = Append(Full(wire), m)
    BY <1>6, <2>1, FullOfAppend
  <2> QED BY <1>1, <1>2, <1>3, <1>6, <2>1, <2>2
<1>7. CASE m \in Empty /\ wire' = Append(wire, m) /\ list' = Append(list, m)
  <2>1. Full(Append(wire, m) \o Append(list, m)) = Full(wire \o Append(list, m))
    BY <1>2, <1>7, EmptyLeavesNoTrace
  <2> QED BY <1>1, <1>2, <1>4, <1>7, <2>1
<1> QED BY <1>5, <1>6, <1>7 DEF SendInLoop, Queue

LEMMA WriteKeeps == ASSUME DatagramInv, OnWrite PROVE DatagramInv'
<1> USE DEF DatagramInv, ListsOK, DatagramsInOrder
<1>1. due' = due
  BY DEF OnWrite
<1>2. CASE wire' = wire /\ list' = list
  BY <1>1, <1>2
<1>3. CASE list # <<>> /\ wire' = Append(wire, Head(list)) /\ list' = Tail(list)
  <2>1. Head(list) \in Messages /\ Tail(list) \in Seq(Messages)
    BY <1>3, HeadTailProperties
  <2>2. Append(wire, Head(list)) \in Seq(Messages)
    BY <2>1, AppendProperties
  <2>3. wire' \o list' = wire \o list
    BY <1>3, MoveKeeps
  <2> QED BY <1>1, <1>3, <2>1, <2>2, <2>3
<1>4. CASE list # <<>> /\ Head(list) \in Empty /\ wire' = Append(wire, Head(list)) /\ list' = list
  <2>1. Head(list) \in Messages
    BY <1>4, HeadTailProperties
  <2>2. Append(wire, Head(list)) \in Seq(Messages)
    BY <2>1, AppendProperties
  <2>3. Full(wire' \o list') = Full(wire \o list)
    BY <1>4, <2>1, EmptyLeavesNoTrace
  <2> QED BY <1>1, <1>4, <2>2, <2>3
<1> QED BY <1>2, <1>3, <1>4 DEF OnWrite

LEMMA InitDatagrams == Init => DatagramInv
<1> SUFFICES ASSUME Init PROVE DatagramInv
  OBVIOUS
<1>1. <<>> \in Seq(Messages) /\ <<>> \o <<>> = <<>>
  BY EmptySeq, ConcatEmptySeq
<1> QED BY <1>1 DEF Init, DatagramInv, ListsOK, DatagramsInOrder

LEMMA DatagramStep == DatagramInv /\ [Next]_vars => DatagramInv'
<1> SUFFICES ASSUME DatagramInv, [Next]_vars PROVE DatagramInv'
  OBVIOUS
<1>1. CASE UNCHANGED <<list, wire, due>>
  BY <1>1 DEF DatagramInv, ListsOK, DatagramsInOrder
<1>2. ASSUME NEW m \in Messages, SendInLoop(m) PROVE DatagramInv'
  BY <1>2, SendKeeps
<1>3. CASE OnWrite
  BY <1>3, WriteKeeps
<1>4. CASE RunTask
  BY <1>1, <1>2, <1>4 DEF RunTask, output
<1>5. ASSUME NEW m \in Messages, CallbackSend(m) PROVE DatagramInv'
  BY <1>2, <1>5 DEF CallbackSend
<1>6. CASE UNCHANGED output
  BY <1>1, <1>6 DEF output
<1> QED BY <1>1, <1>3, <1>4, <1>5, <1>6
  DEF Next, Network, App, InLoop, PeerRefuses, Transmit, PeerSends, Post, CallbackClose,
      CallbackDone, Dispatch, OnRead, OnTimeOut, vars, output

\* Whatever the socket refuses and whoever sends meanwhile, what has content is
\* sent and queued in the order of the calls, each once; a datagram of size 0,
\* which is sent and queued, disturbs none of the others.
THEOREM SocketDatagramsInOrder == Spec => []DatagramsInOrder
<1>1. DatagramInv => DatagramsInOrder
  BY DEF DatagramInv
<1> QED BY <1>1, InitDatagrams, DatagramStep, PTL DEF Spec, Safety
=============================================================================
