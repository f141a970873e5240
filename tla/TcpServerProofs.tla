--------------------------- MODULE TcpServerProofs ---------------------------
(***************************************************************************)
(* Proofs about TcpServer, for any connections, any descriptors and any      *)
(* number of events and tasks.  The tables of the server (connections_,      *)
(* events_, epoll's) change in four ways: a connection is closed, one is     *)
(* accepted, the Acceptor opens a new socket, the Acceptor stops.  There is   *)
(* one lemma for each; the handlers of Loop are made of them.                *)
(***************************************************************************)
EXTENDS TcpServer, SequenceTheorems, WellFoundedInduction, TLAPS

-----------------------------------------------------------------------------
(* The lowest free descriptor.                                             *)

\* A set of numbers that is not empty has a smallest one.
LEMMA MinOfNat == ASSUME NEW S, S \subseteq Nat, S # {} PROVE Min(S) \in S
<1> DEFINE Less == {ss \in Nat \X Nat : ss[1] < ss[2]}
<1>1. OpToRel(<, Nat) = Less
  BY DEF OpToRel
<1>2. IsWellFoundedOn(Less, Nat)
  BY <1>1, NatLessThanWellFounded
<1>3. \E x \in S : \A y \in S : ~(<<y, x>> \in Less)
  <2> HIDE DEF Less
  <2> QED BY <1>2, WFMin
<1>4. PICK x \in S : \A y \in S : ~(<<y, x>> \in Less)
  BY <1>3
<1>5. ASSUME NEW y \in S PROVE x <= y
  <2>1. <<y, x>> \in Nat \X Nat /\ <<y, x>>[1] = y /\ <<y, x>>[2] = x
    OBVIOUS
  <2>2. ~(y < x)
    BY <1>4, <2>1
  <2> QED BY <2>2
<1> HIDE DEF Less
<1> QED BY <1>5 DEF Min

-----------------------------------------------------------------------------
(* The inductive invariant.                                                *)

Events == Conns \cup {Acceptor, NoConn}

ObjTypeOK ==
  /\ life \in [Conns -> {"none", "alive", "dead"}]
  /\ closed \in [Conns -> BOOLEAN]
  /\ fd \in [Conns -> Fds \cup {NoFd}]
  /\ connections \in SUBSET Conns
  /\ events \in [Fds -> Events]
  /\ interest \in SUBSET Fds
  /\ listener \in Fds \cup {NoFd}
  /\ held \in SUBSET Conns

\* Who is in events_ is open and has the descriptor it is under.
EventsOwned ==
  \A f \in Fds : /\ events[f] \in Conns => Open(events[f]) /\ fd[events[f]] = f
                 /\ events[f] = Acceptor => listener = f

\* An open connection is in connections_ and in events_; no descriptor has two owners.
OpenRecorded ==
  \A c \in Conns : /\ Open(c) <=> c \in connections
                   /\ Open(c) => fd[c] \in Fds /\ events[fd[c]] = c
                   /\ fd[c] # NoFd => Open(c) /\ fd[c] # listener

\* epoll's table is that of the loop.
SameTables == interest = {f \in Fds : events[f] # NoConn}

\* What is known of a connection from its life: before it is made, while it is
\* open, while only the application has it, when it is gone.
Lives ==
  \A c \in Conns : /\ life[c] = "none" => ~closed[c] /\ fd[c] = NoFd
                   /\ life[c] = "dead" => closed[c]
                   /\ closed[c] => fd[c] = NoFd /\ (life[c] = "alive" <=> c \in held)
                   /\ c \in held => life[c] = "alive"

\* Nobody is accepted before there is a listener.
NobodyYet == listener = NoFd => \A c \in Conns : life[c] = "none"

Tables == ObjTypeOK /\ EventsOwned /\ OpenRecorded /\ SameTables /\ Lives /\ NobodyYet

LoopTypeOK ==
  /\ phase \in {"wait", "batch", "read", "tasks", "timer"}
  /\ cur \in Conns \cup {NoConn}
  /\ phase = "read" => cur \in Conns
  /\ batch \in Seq(Reports)
  /\ mail \in Seq(Conns \cup {Acceptor})

\* Whose tasks are posted: connections that have been made, and the Acceptor's
\* Open at most once and only while nobody listens.
Posted ==
  \A i \in DOMAIN mail :
    /\ mail[i] \in Conns => life[mail[i]] # "none"
    /\ mail[i] = Acceptor => ~Listening /\ \A j \in DOMAIN mail : mail[j] = Acceptor => i = j

ServerInv == Tables /\ LoopTypeOK /\ Posted

\* What a step does to the tables that the posted tasks rely on: nobody is
\* unmade, and the Acceptor is watched no more than before.
TasksStand ==
  /\ \A c \in Conns : life[c] # "none" => life'[c] # "none"
  /\ Listening' => Listening

-----------------------------------------------------------------------------
(* The four ways in which the tables change.                               *)

\* A connection is closed.
LEMMA CloseStep ==
  ASSUME Tables, NEW c \in Conns, Open(c), NEW g, NEW keep \in BOOLEAN, OnClose(c, g, keep)
  PROVE  Tables' /\ TasksStand /\ (Listens => Listens')
<1> DEFINE f == fd[c]
<1>1. f \in Fds /\ events[f] = c /\ f # listener /\ life[c] = "alive" /\ ~closed[c]
  BY FdsAssumption DEF Tables, OpenRecorded, Open
<1>2. /\ closed' = [closed EXCEPT ![c] = TRUE]
      /\ connections' = connections \ {c}
      /\ fd' = [fd EXCEPT ![c] = NoFd]
      /\ interest' = interest \ {f}
      /\ listener' = listener
  BY DEF OnClose
<1>3. events' = [h \in Fds |-> IF h = f THEN NoConn ELSE events[h]]
  BY DEF OnClose, DelEvent
<1>4. \A h \in Fds : events'[h] = IF h = f THEN NoConn ELSE events[h]
  BY <1>3
<1>5. /\ life' \in [Conns -> {"none", "alive", "dead"}]
      /\ \A d \in Conns : d # c => life'[d] = life[d]
      /\ life'[c] \in {"alive", "dead"}
      /\ held' \in SUBSET Conns
      /\ \A d \in Conns : d # c => (d \in held' <=> d \in held)
      /\ life'[c] = "alive" <=> c \in held'
  BY <1>1 DEF OnClose, Tables, ObjTypeOK
<1>6. ObjTypeOK'
  <2>1. events' \in [Fds -> Events]
    BY <1>3 DEF Tables, ObjTypeOK, Events
  <2> QED BY <1>2, <1>5, <2>1 DEF Tables, ObjTypeOK
<1>7. \A d \in Conns : /\ d # c => closed'[d] = closed[d] /\ fd'[d] = fd[d]
                       /\ closed'[c] = TRUE /\ fd'[c] = NoFd
  BY <1>2 DEF Tables, ObjTypeOK
<1>8. \A d \in Conns : Open(d)' <=> (d # c /\ Open(d))
  BY <1>5, <1>7 DEF Open
<1>9. EventsOwned'
  <2> SUFFICES ASSUME NEW h \in Fds
               PROVE  /\ events'[h] \in Conns => Open(events[h])' /\ fd'[events'[h]] = h
                      /\ events'[h] = Acceptor => listener' = h
    BY DEF EventsOwned
  <2>1. CASE h = f
    BY <1>4, <2>1, ConnsAssumption
  <2>2. CASE h # f
    <3>1. events'[h] = events[h]
      BY <1>4, <2>2
    <3>2. events[h] \in Conns => events[h] # c
      BY <2>2 DEF Tables, EventsOwned
    <3> QED BY <1>2, <1>7, <1>8, <3>1, <3>2 DEF Tables, EventsOwned
  <2> QED BY <2>1, <2>2
<1>10. OpenRecorded'
  <2> SUFFICES ASSUME NEW d \in Conns
               PROVE  /\ Open(d)' <=> d \in connections'
                      /\ Open(d)' => fd'[d] \in Fds /\ events'[fd'[d]] = d
                      /\ fd'[d] # NoFd => Open(d)' /\ fd'[d] # listener'
    BY DEF OpenRecorded
  <2>1. CASE d = c
    BY <1>2, <1>7, <1>8, <2>1
  <2>2. CASE d # c
    <3>1. fd'[d] = fd[d] /\ (Open(d)' <=> Open(d)) /\ (d \in connections' <=> d \in connections)
      BY <1>2, <1>7, <1>8, <2>2
    <3>2. Open(d) => fd[d] # f
      BY <1>1, <2>2 DEF Tables, OpenRecorded
    <3>3. Open(d) => events'[fd[d]] = events[fd[d]]
      BY <1>4, <3>2 DEF Tables, OpenRecorded
    <3> QED BY <1>2, <3>1, <3>3 DEF Tables, OpenRecorded
  <2> QED BY <2>1, <2>2
<1>11. SameTables'
  <2>1. \A h \in Fds : events'[h] # NoConn <=> (h # f /\ events[h] # NoConn)
    BY <1>4
  <2> QED BY <1>2, <2>1 DEF Tables, SameTables
<1>12. Lives'
  BY <1>1, <1>5, <1>7 DEF Tables, Lives
<1>13. NobodyYet'
  BY <1>1, <1>2 DEF Tables, NobodyYet
<1>14. TasksStand
  BY <1>1, <1>4, <1>5, ConnsAssumption DEF TasksStand, Listening
<1>15. Listens => Listens'
  BY <1>1, <1>2, <1>4 DEF Listens, Tables, ObjTypeOK
<1> QED BY <1>6, <1>9, <1>10, <1>11, <1>12, <1>13, <1>14, <1>15 DEF Tables

\* What is watched under the listener's descriptor, and under a free one.
LEMMA FreeIsUnwatched ==
  ASSUME Tables
  PROVE  /\ \A f \in FreeFds : events[f] = NoConn /\ f # listener
         /\ \A c \in Conns : ~(listener \in Fds /\ events[listener] = c)
         /\ FreeFds \cup ({listener} \ {NoFd}) \subseteq Fds
         /\ FreeFds \cup ({listener} \ {NoFd}) # {}
<1>1. ASSUME NEW f \in FreeFds PROVE events[f] = NoConn /\ f # listener
  <2>1. f \in Fds /\ f # listener /\ \A c \in Conns : fd[c] # f
    BY DEF FreeFds
  <2>2. events[f] \notin Conns /\ events[f] # Acceptor
    BY <2>1 DEF Tables, EventsOwned
  <2> QED BY <2>1, <2>2 DEF Tables, ObjTypeOK, Events
<1>2. \A c \in Conns : ~(listener \in Fds /\ events[listener] = c)
  BY FdsAssumption DEF Tables, EventsOwned, OpenRecorded
<1>3. FreeFds \cup ({listener} \ {NoFd}) \subseteq Fds
  BY DEF FreeFds, Tables, ObjTypeOK
<1>4. CASE listener = NoFd
  <2>1. \A f \in Fds : f \in FreeFds
    BY <1>4, FdsAssumption DEF FreeFds, Tables, NobodyYet, Lives
  <2> QED BY <1>1, <1>2, <1>3, <2>1, FdsAssumption
<1>5. CASE listener # NoFd
  BY <1>1, <1>2, <1>3, <1>5
<1> QED BY <1>4, <1>5

\* The Acceptor opens a new socket: after Stop, which leaves events_ only when
\* it is watched there, or when nobody listens.
LEMMA RebuildStep ==
  ASSUME Tables, NEW stop \in BOOLEAN, Rebuild(stop), stop \/ ~Listening,
         UNCHANGED <<life, closed, fd, connections, held>>
  PROVE  Tables' /\ Listens'
<1> DEFINE f == Min(FreeFds \cup ({listener} \ {NoFd}))
           left == IF stop THEN DelEvent(events, listener) ELSE events
<1>1. f \in Fds /\ (f = listener \/ f \in FreeFds)
  BY FreeIsUnwatched, FdsAssumption, MinOfNat
<1>2. /\ listener' = f
      /\ events' = [left EXCEPT ![f] = IF @ = NoConn THEN Acceptor ELSE @]
      /\ interest' = (interest \ {listener}) \cup (IF left[f] = NoConn THEN {f} ELSE {})
  BY DEF Rebuild, AddEvent
<1> HIDE DEF f
<1>3. left \in [Fds -> Events] /\ \A h \in Fds : left[h] = IF h = listener THEN NoConn ELSE events[h]
  <2>1. CASE stop
    BY <2>1 DEF DelEvent, Tables, ObjTypeOK, Events
  <2>2. CASE ~stop
    <3>1. listener \in Fds => events[listener] = NoConn
      BY <2>2, FreeIsUnwatched DEF Listening, Tables, ObjTypeOK, Events
    <3> QED BY <2>2, <3>1 DEF Tables, ObjTypeOK
  <2> QED BY <2>1, <2>2
<1> HIDE DEF left
<1>4. left[f] = NoConn
  BY <1>1, <1>3, FreeIsUnwatched
<1>5. \A h \in Fds : events'[h] = IF h = f THEN Acceptor
                                 ELSE IF h = listener THEN NoConn ELSE events[h]
  BY <1>1, <1>2, <1>3, <1>4
<1>6. interest' = (interest \ {listener}) \cup {f}
  BY <1>2, <1>4
<1>7. ObjTypeOK'
  <2>1. events' \in [Fds -> Events]
    BY <1>2, <1>3 DEF Events
  <2> QED BY <1>1, <1>2, <1>6, <2>1 DEF Tables, ObjTypeOK
<1>8. \A c \in Conns : fd[c] # f /\ (Open(c)' <=> Open(c))
  <2>1. \A c \in Conns : fd[c] # f
    BY <1>1, FdsAssumption DEF FreeFds, Tables, OpenRecorded
  <2> QED BY <2>1 DEF Open
<1>9. EventsOwned'
  BY <1>2, <1>5, <1>8, ConnsAssumption DEF Tables, EventsOwned, Open
<1>10. OpenRecorded'
  <2> SUFFICES ASSUME NEW c \in Conns
               PROVE  /\ Open(c)' <=> c \in connections'
                      /\ Open(c)' => fd'[c] \in Fds /\ events'[fd'[c]] = c
                      /\ fd'[c] # NoFd => Open(c)' /\ fd'[c] # listener'
    BY DEF OpenRecorded
  <2>1. Open(c) => fd[c] \in Fds /\ fd[c] # listener /\ events[fd[c]] = c
    BY FdsAssumption DEF Tables, OpenRecorded
  <2>2. Open(c) => events'[fd[c]] = c
    BY <1>5, <1>8, <2>1
  <2> QED BY <1>2, <1>8, <2>1, <2>2 DEF Tables, OpenRecorded
<1>11. SameTables'
  <2>1. \A h \in Fds : events'[h] # NoConn <=> h = f \/ (h # listener /\ events[h] # NoConn)
    BY <1>5, ConnsAssumption
  <2> QED BY <1>1, <1>6, <2>1 DEF Tables, SameTables
<1>12. Lives'
  BY DEF Tables, Lives
<1>13. NobodyYet'
  BY <1>1, <1>2, FdsAssumption DEF NobodyYet
<1>14. Listens'
  BY <1>1, <1>2, <1>5, <1>6, FdsAssumption DEF Listens
<1> QED BY <1>7, <1>9, <1>10, <1>11, <1>12, <1>13, <1>14 DEF Tables

\* A connection is accepted under the lowest free descriptor.
LEMMA AcceptStep ==
  ASSUME Tables, LoopTypeOK, NEW c \in Conns, OnAccept(c)
  PROVE  Tables' /\ TasksStand /\ (Listens => Listens')
<1> DEFINE f == Min(FreeFds)
<1>1. f \in FreeFds /\ f \in Fds /\ events[f] = NoConn /\ f # listener
  <2>1. FreeFds \subseteq Nat /\ FreeFds # {}
    BY FdsAssumption DEF OnAccept, FreeFds
  <2>2. f \in FreeFds
    BY <2>1, MinOfNat
  <2> QED BY <2>2, FreeIsUnwatched DEF FreeFds
<1>2. /\ fd' = [fd EXCEPT ![c] = f]
      /\ events' = [events EXCEPT ![f] = c]
      /\ interest' = interest \cup {f}
      /\ life' = [life EXCEPT ![c] = "alive"]
      /\ connections' = connections \cup {c}
      /\ UNCHANGED <<closed, listener, held>>
      /\ life[c] = "none"
  BY <1>1 DEF OnAccept, AddEvent
<1>3. Accepting
  BY DEF OnAccept
<1> HIDE DEF f
<1>4. \A h \in Fds : events'[h] = IF h = f THEN c ELSE events[h]
  BY <1>2 DEF Tables, ObjTypeOK
<1>5. \A d \in Conns : /\ fd'[d] = IF d = c THEN f ELSE fd[d]
                       /\ life'[d] = IF d = c THEN "alive" ELSE life[d]
  BY <1>2 DEF Tables, ObjTypeOK
<1>6. ~closed[c] /\ fd[c] = NoFd /\ ~Open(c)
  BY <1>2 DEF Tables, Lives, Open
<1>7. \A d \in Conns : Open(d)' <=> (d = c \/ Open(d))
  BY <1>2, <1>5, <1>6 DEF Open
<1>8. \A d \in Conns : fd[d] # f
  BY <1>1 DEF FreeFds
<1>9. ObjTypeOK'
  BY <1>1, <1>2 DEF Tables, ObjTypeOK, Events
<1>10. EventsOwned'
  <2> SUFFICES ASSUME NEW h \in Fds
               PROVE  /\ events'[h] \in Conns => Open(events[h])' /\ fd'[events'[h]] = h
                      /\ events'[h] = Acceptor => listener' = h
    BY DEF EventsOwned
  <2>1. CASE h = f
    BY <1>4, <1>5, <1>7, <2>1, ConnsAssumption DEF Open
  <2>2. CASE h # f
    <3>1. events'[h] = events[h]
      BY <1>4, <2>2
    <3>2. events[h] \in Conns => events[h] # c /\ Open(events[h]) /\ fd[events[h]] = h
      BY <1>6 DEF Tables, EventsOwned
    <3> QED BY <1>2, <1>5, <1>7, <3>1, <3>2 DEF Tables, EventsOwned, Open
  <2> QED BY <2>1, <2>2
<1>11. OpenRecorded'
  <2> SUFFICES ASSUME NEW d \in Conns
               PROVE  /\ Open(d)' <=> d \in connections'
                      /\ Open(d)' => fd'[d] \in Fds /\ events'[fd'[d]] = d
                      /\ fd'[d] # NoFd => Open(d)' /\ fd'[d] # listener'
    BY DEF OpenRecorded
  <2>1. CASE d = c
    BY <1>1, <1>2, <1>4, <1>5, <1>7, <2>1
  <2>2. CASE d # c
    <3>1. fd'[d] = fd[d] /\ (Open(d)' <=> Open(d)) /\ (d \in connections' <=> d \in connections)
      BY <1>2, <1>5, <1>7, <2>2
    <3>2. Open(d) => events'[fd[d]] = events[fd[d]]
      BY <1>4, <1>8 DEF Tables, OpenRecorded
    <3> QED BY <1>2, <3>1, <3>2 DEF Tables, OpenRecorded
  <2> QED BY <2>1, <2>2
<1>12. SameTables'
  <2>1. \A h \in Fds : events'[h] # NoConn <=> h = f \/ events[h] # NoConn
    BY <1>4, ConnsAssumption
  <2> QED BY <1>1, <1>2, <2>1 DEF Tables, SameTables
<1>13. Lives'
  BY <1>2, <1>5, <1>6 DEF Tables, Lives
<1>14. NobodyYet'
  <2>1. Head(batch) \in Reports
    BY <1>3, HeadTailProperties DEF Accepting, LoopTypeOK
  <2>2. Head(batch).fd \in Fds /\ events[Head(batch).fd] = Acceptor
    BY <1>3, <2>1 DEF Accepting, Receiver, Reports
  <2>3. listener # NoFd
    BY <2>2, FdsAssumption DEF Tables, EventsOwned
  <2> QED BY <1>2, <2>3 DEF NobodyYet
<1>15. TasksStand
  BY <1>4, <1>5, ConnsAssumption DEF TasksStand, Listening
<1>16. Listens => Listens'
  BY <1>1, <1>2, <1>4 DEF Listens, Tables, ObjTypeOK
<1> QED BY <1>9, <1>10, <1>11, <1>12, <1>13, <1>14, <1>15, <1>16 DEF Tables

\* The Acceptor leaves events_, its socket stays open.
LEMMA StopStep == ASSUME Tables, Stop PROVE Tables' /\ TasksStand
<1>1. listener \in Fds
  BY DEF Stop, Tables, ObjTypeOK
<1>2. \A h \in Fds : events'[h] = IF h = listener THEN NoConn ELSE events[h]
  BY DEF Stop, DelEvent
<1>3. interest' = interest \ {listener}
  BY DEF Stop
<1>4. UNCHANGED <<life, closed, fd, connections, listener, held>>
  BY DEF Stop
<1>5. \A c \in Conns : fd[c] # listener /\ (Open(c)' <=> Open(c))
  BY <1>1, <1>4, FdsAssumption DEF Tables, OpenRecorded, Open
<1>6. ObjTypeOK'
  <2>1. events' \in [Fds -> Events]
    BY DEF Stop, DelEvent, Tables, ObjTypeOK, Events
  <2> QED BY <1>3, <1>4, <2>1 DEF Tables, ObjTypeOK
<1>7. EventsOwned'
  BY <1>2, <1>4, ConnsAssumption DEF Tables, EventsOwned, Open
<1>8. OpenRecorded'
  BY <1>2, <1>4, <1>5 DEF Tables, OpenRecorded
<1>9. SameTables'
  BY <1>2, <1>3 DEF Tables, SameTables
<1>10. Lives' /\ NobodyYet'
  BY <1>4 DEF Tables, Lives, NobodyYet
<1>11. TasksStand
  BY <1>2, <1>4, ConnsAssumption DEF TasksStand, Listening
<1> QED BY <1>6, <1>7, <1>8, <1>9, <1>10, <1>11 DEF Tables

\* Steps that leave the tables alone, but for who holds a connection.
LEMMA SameStep ==
  ASSUME Tables, UNCHANGED <<objVars, held>>
  PROVE  Tables' /\ TasksStand /\ (Listens => Listens')
BY DEF Tables, ObjTypeOK, EventsOwned, OpenRecorded, SameTables, Lives, NobodyYet, TasksStand,
     Listening, Listens, Open, objVars

\* message_cb_ keeps a reference to an open connection.
LEMMA MessageStep ==
  ASSUME Tables, LoopTypeOK, ReadMessage PROVE Tables' /\ TasksStand /\ (Listens => Listens')
<1>1. cur \in Conns /\ Open(cur) /\ held' = held \cup {cur} /\ UNCHANGED objVars
  BY DEF ReadMessage, LoopTypeOK
<1> USE <1>1 DEF Tables, objVars
<1>2. ObjTypeOK'
  BY DEF ObjTypeOK
<1>3. EventsOwned' /\ OpenRecorded' /\ SameTables' /\ NobodyYet'
  BY DEF EventsOwned, OpenRecorded, SameTables, NobodyYet, Open
<1>4. Lives'
  BY DEF Lives, Open
<1>5. TasksStand /\ (Listens => Listens')
  BY DEF TasksStand, Listening, Listens
<1> QED BY <1>2, <1>3, <1>4, <1>5

\* A worker lets go of its reference; a closed connection dies with the last one.
LEMMA ReleaseStep ==
  ASSUME Tables, NEW c \in Conns, Release(c) PROVE Tables' /\ TasksStand /\ (Listens => Listens')
<1>1. /\ c \in held /\ held' = held \ {c}
      /\ closed[c] => life' = [life EXCEPT ![c] = "dead"]
      /\ ~closed[c] => life' = life
      /\ UNCHANGED <<closed, fd, connections, events, interest, listener>>
  BY DEF Release
<1>2. /\ life[c] = "alive"
      /\ life' \in [Conns -> {"none", "alive", "dead"}]
      /\ \A d \in Conns : life'[d] = IF d = c /\ closed[c] THEN "dead" ELSE life[d]
  BY <1>1 DEF Tables, ObjTypeOK, Lives
<1>3. \A d \in Conns : Open(d)' <=> Open(d)
  BY <1>1, <1>2 DEF Open
<1>4. ObjTypeOK'
  BY <1>1, <1>2 DEF Tables, ObjTypeOK
<1>5. EventsOwned' /\ OpenRecorded' /\ SameTables'
  <2>1. EventsOwned'
    BY <1>1, <1>3 DEF Tables, EventsOwned
  <2>2. OpenRecorded'
    BY <1>1, <1>3 DEF Tables, OpenRecorded
  <2>3. SameTables'
    BY <1>1 DEF Tables, SameTables
  <2> QED BY <2>1, <2>2, <2>3
<1>6. Lives'
  BY <1>1, <1>2 DEF Tables, Lives
<1>7. NobodyYet'
  BY <1>1, <1>2 DEF Tables, NobodyYet
<1>8. TasksStand /\ (Listens => Listens')
  BY <1>1, <1>2 DEF TasksStand, Listening, Listens
<1> QED BY <1>4, <1>5, <1>6, <1>7, <1>8 DEF Tables

-----------------------------------------------------------------------------
(* The posted tasks.                                                       *)

Shorter == mail' = mail \/ (mail # <<>> /\ mail' = Tail(mail))

\* The tasks left over keep what is known of them.
LEMMA PostedStands == ASSUME LoopTypeOK, Posted, Shorter, TasksStand PROVE Posted'
<1>1. mail \in Seq(Conns \cup {Acceptor})
  BY DEF LoopTypeOK
<1>2. CASE mail' = mail
  BY <1>1, <1>2, ConnsAssumption DEF Posted, TasksStand
<1>3. CASE mail # <<>> /\ mail' = Tail(mail)
  <2>1. \A i \in DOMAIN mail' : i + 1 \in DOMAIN mail /\ mail'[i] = mail[i + 1] /\ i \in Int
    BY <1>1, <1>3, HeadTailProperties
  <2> QED BY <2>1 DEF Posted, TasksStand
<1> QED BY <1>2, <1>3 DEF Shorter

\* While somebody listens no Open is posted, so a new socket is as good.
LEMMA PostedWithout ==
  ASSUME Posted, Listening, UNCHANGED <<life, mail>> PROVE Posted'
BY DEF Posted

\* The elements of a sequence with one more at its end.
LEMMA AppendedAt ==
  ASSUME NEW S, NEW s \in Seq(S), NEW e \in S
  PROVE  \A i \in DOMAIN Append(s, e) : \/ i \in DOMAIN s /\ Append(s, e)[i] = s[i]
                                        \/ i = Len(s) + 1 /\ Append(s, e)[i] = e
<1> DEFINE t == Append(s, e)
<1>1. t \in Seq(S) /\ Len(t) = Len(s) + 1 /\ Len(s) \in Nat
  BY AppendProperties
<1>2. DOMAIN s = 1 .. Len(s) /\ DOMAIN t = 1 .. Len(s) + 1
  BY <1>1
<1>3. ASSUME NEW i \in 1 .. Len(s) + 1
      PROVE  (i \in 1 .. Len(s) /\ t[i] = s[i]) \/ (i = Len(s) + 1 /\ t[i] = e)
  <2>1. i \in 1 .. Len(s) \/ i = Len(s) + 1
    BY <1>1
  <2> QED BY <2>1, AppendProperties
<1> QED BY <1>2, <1>3

\* A task is posted for a connection that has been made.
LEMMA PostedMore ==
  ASSUME Tables, LoopTypeOK, Posted, NEW c \in Conns, ForceClose(c) PROVE Posted'
<1>1. mail \in Seq(Conns \cup {Acceptor}) /\ mail' = Append(mail, c) /\ life[c] = "alive"
  BY DEF LoopTypeOK, ForceClose, Tables, Lives
<1>2. \A i \in DOMAIN mail' : mail'[i] = c \/ (i \in DOMAIN mail /\ mail'[i] = mail[i])
  BY <1>1
<1>3. c # Acceptor
  BY ConnsAssumption
<1>4. UNCHANGED <<life, events>>
  BY DEF ForceClose, objVars
<1> QED BY <1>1, <1>2, <1>3, <1>4 DEF Posted, Listening

-----------------------------------------------------------------------------
(* The steps.                                                              *)

LEMMA InitServer == Init => ServerInv
<1> SUFFICES ASSUME Init PROVE ServerInv
  OBVIOUS
<1>1. ObjTypeOK
  BY DEF Init, ObjTypeOK, Events
<1>2. EventsOwned /\ OpenRecorded /\ SameTables
  BY ConnsAssumption, FdsAssumption DEF Init, EventsOwned, OpenRecorded, SameTables, Open
<1>3. Lives /\ NobodyYet
  BY DEF Init, Lives, NobodyYet
<1>4. LoopTypeOK /\ Posted
  BY DEF Init, LoopTypeOK, Posted
<1> QED BY <1>1, <1>2, <1>3, <1>4 DEF ServerInv, Tables

\* The report at the head of the batch, and its receiver.
LEMMA ReceiverType ==
  ASSUME Tables, LoopTypeOK, batch # <<>>
  PROVE  /\ Tail(batch) \in Seq(Reports)
         /\ Head(batch).fd \in Fds
         /\ Receiver \in Conns => Open(Receiver)
         /\ Receiver = Acceptor => Listening
<1>1. Head(batch) \in Reports /\ Tail(batch) \in Seq(Reports)
  BY HeadTailProperties DEF LoopTypeOK
<1>2. Head(batch).fd \in Fds
  BY <1>1 DEF Reports
<1> QED BY <1>1, <1>2 DEF Receiver, Tables, EventsOwned, Listening

\* The task at the head of the mail.
LEMMA TaskType ==
  ASSUME LoopTypeOK, mail # <<>>
  PROVE  Tail(mail) \in Seq(Conns \cup {Acceptor}) /\ 1 \in DOMAIN mail /\ Head(mail) = mail[1]
BY HeadTailProperties DEF LoopTypeOK

Safe == ServerInv' /\ (Listens => Listens' \/ Stop)

\* A step is safe if the tables are, and it only takes tasks from the mail.
LEMMA StepIsSafe ==
  ASSUME LoopTypeOK, Posted, Tables', TasksStand, Listens => Listens' \/ Stop, LoopTypeOK', Shorter
  PROVE  Safe
BY PostedStands DEF Safe, ServerInv

\* A task or a callback opens the Acceptor's socket; or accept has failed.
LEMMA RebuildIsSafe ==
  ASSUME ServerInv, NEW stop \in BOOLEAN, Rebuild(stop),
         UNCHANGED <<life, closed, fd, connections, held>>,
         \/ stop /\ Listening /\ mail' = mail
         \/ ~Listening /\ mail' = mail /\ \A i \in DOMAIN mail : mail[i] # Acceptor
         \/ mail # <<>> /\ Head(mail) = Acceptor /\ mail' = Tail(mail),
         LoopTypeOK'
  PROVE  Safe
<1> USE DEF ServerInv
<1>1. CASE stop /\ Listening /\ mail' = mail
  BY <1>1, RebuildStep, PostedWithout DEF Safe
<1>2. CASE ~Listening /\ mail' = mail /\ \A i \in DOMAIN mail : mail[i] # Acceptor
  <2>1. Tables' /\ Listens'
    BY <1>2, RebuildStep
  <2>2. Posted'
    BY <1>2 DEF Posted
  <2> QED BY <2>1, <2>2 DEF Safe
<1>3. CASE mail # <<>> /\ Head(mail) = Acceptor /\ mail' = Tail(mail)
  <2>1. 1 \in DOMAIN mail /\ mail[1] = Acceptor
    BY <1>3, TaskType
  <2>2. ~Listening
    BY <2>1 DEF Posted
  <2>3. Tables' /\ Listens'
    BY <2>2, RebuildStep
  <2>4. mail \in Seq(Conns \cup {Acceptor})
    BY DEF LoopTypeOK
  <2>5. \A i \in DOMAIN mail' : /\ i + 1 \in DOMAIN mail /\ i + 1 # 1
                               /\ mail'[i] = mail[i + 1]
    BY <1>3, <2>4, HeadTailProperties
  <2>6. \A i \in DOMAIN mail' : mail'[i] # Acceptor /\ (mail'[i] \in Conns => life[mail'[i]] # "none")
    BY <2>1, <2>5 DEF Posted
  <2>7. Posted'
    BY <2>6 DEF Posted
  <2> QED BY <2>3, <2>7 DEF Safe
<1> QED BY <1>1, <1>2, <1>3

\* OnClose of an open connection by a handler of the loop's thread.
LEMMA CloseIsSafe ==
  ASSUME ServerInv, NEW c \in Conns, Open(c), NEW g, NEW keep \in BOOLEAN, OnClose(c, g, keep),
         Shorter, LoopTypeOK'
  PROVE  Safe
<1>1. Tables' /\ TasksStand /\ (Listens => Listens')
  BY CloseStep DEF ServerInv
<1> QED BY <1>1, StepIsSafe DEF ServerInv

\* A step that leaves the tables alone.
LEMMA SameIsSafe ==
  ASSUME ServerInv, UNCHANGED <<objVars, held>>, Shorter, LoopTypeOK' PROVE Safe
<1>1. Tables' /\ TasksStand /\ (Listens => Listens')
  BY SameStep DEF ServerInv
<1> QED BY <1>1, StepIsSafe DEF ServerInv

\* The handlers of Loop: every one keeps the invariant, and the Acceptor listens
\* until Stop.
LEMMA HandlerStep == ServerInv /\ Handlers => Safe
<1> SUFFICES ASSUME ServerInv, Handlers PROVE Safe
  OBVIOUS
<1> USE DEF ServerInv
<1>1. CASE Start
  <2>1. LoopTypeOK'
    <3>1. mail' = mail \/ mail' = Append(mail, Acceptor)
      BY <1>1 DEF Start
    <3>2. mail' \in Seq(Conns \cup {Acceptor})
      BY <3>1, AppendProperties DEF LoopTypeOK
    <3>3. UNCHANGED <<phase, cur, batch>>
      BY <1>1 DEF Start
    <3> QED BY <3>2, <3>3 DEF LoopTypeOK
  <2>2. CASE Rebuild(FALSE) /\ UNCHANGED mail
    BY <1>1, <2>1, <2>2, RebuildIsSafe DEF Start
  <2>3. CASE mail' = Append(mail, Acceptor) /\ UNCHANGED <<events, interest, listener>>
    <3>1. UNCHANGED <<objVars, held>>
      BY <1>1, <2>3 DEF Start, objVars
    <3>2. Tables' /\ (Listens => Listens')
      BY <3>1, SameStep
    <3>3. mail \in Seq(Conns \cup {Acceptor})
      BY DEF LoopTypeOK
    <3>4. \A i \in DOMAIN mail' :
            \/ i \in DOMAIN mail /\ mail'[i] = mail[i]
            \/ i = Len(mail) + 1 /\ mail'[i] = Acceptor
      BY <2>3, <3>3, AppendedAt
    <3>5. ~Listening' /\ \A i \in DOMAIN mail : mail[i] # Acceptor
      BY <1>1, <2>3 DEF Start, Listening
    <3>6. Posted'
      BY <3>1, <3>4, <3>5, ConnsAssumption DEF Posted, objVars
    <3> QED BY <2>1, <3>2, <3>6 DEF Safe
  <2> QED BY <1>1, <2>2, <2>3 DEF Start
<1>2. CASE Stop
  <2>1. LoopTypeOK' /\ Shorter
    BY <1>2 DEF Stop, LoopTypeOK, Shorter
  <2> QED BY <1>2, <2>1, StopStep, StepIsSafe
<1>3. CASE EpollQuiet \/ BatchDone \/ TasksDone \/ TimerDone \/ ReadDestroyed
  <2>1. LoopTypeOK' /\ Shorter /\ UNCHANGED <<objVars, held>>
    BY <1>3 DEF EpollQuiet, BatchDone, TasksDone, TimerDone, ReadDestroyed, LoopTypeOK, Shorter
  <2> QED BY <2>1, SameIsSafe
<1>4. CASE DispatchGone \/ DispatchRead \/ AcceptDone
  <2>1. LoopTypeOK' /\ Shorter /\ UNCHANGED <<objVars, held>>
    BY <1>4, ReceiverType DEF DispatchGone, DispatchRead, AcceptDone, Accepting, LoopTypeOK, Shorter
  <2> QED BY <2>1, SameIsSafe
<1>5. CASE DispatchErr
  <2>1. batch # <<>> /\ batch' = Tail(batch) /\ UNCHANGED <<phase, cur, mail>>
    BY <1>5 DEF DispatchErr
  <2>2. LoopTypeOK' /\ Shorter
    BY <2>1, ReceiverType DEF LoopTypeOK, Shorter
  <2>3. ASSUME Receiver \in Conns, NEW keep \in BOOLEAN, OnClose(Receiver, FALSE, keep) PROVE Safe
    BY <2>1, <2>2, <2>3, ReceiverType, CloseIsSafe
  <2>4. ASSUME Receiver = Acceptor, Rebuild(TRUE),
               UNCHANGED <<life, closed, fd, connections, held>>
        PROVE  Safe
    BY <2>1, <2>2, <2>4, ReceiverType, RebuildIsSafe
  <2> QED BY <1>5, <2>3, <2>4 DEF DispatchErr
<1>6. CASE AcceptFails
  <2>1. batch # <<>> /\ batch' = Tail(batch) /\ UNCHANGED <<phase, cur, mail>> /\ Receiver = Acceptor
    BY <1>6 DEF AcceptFails, Accepting
  <2>2. LoopTypeOK'
    BY <2>1, ReceiverType DEF LoopTypeOK
  <2>3. Rebuild(TRUE) /\ UNCHANGED <<life, closed, fd, connections, held>>
    BY <1>6 DEF AcceptFails
  <2> QED BY <2>1, <2>2, <2>3, ReceiverType, RebuildIsSafe
<1>7. CASE RunOpen
  <2>1. LoopTypeOK'
    BY <1>7, TaskType DEF RunOpen, LoopTypeOK
  <2> QED BY <1>7, <2>1, RebuildIsSafe DEF RunOpen
<1>8. CASE ReadMessage
  <2>1. LoopTypeOK' /\ Shorter
    BY <1>8 DEF ReadMessage, LoopTypeOK, Shorter
  <2> QED BY <1>8, <2>1, MessageStep, StepIsSafe
<1>9. CASE ReadEnd
  <2>1. LoopTypeOK' /\ Shorter /\ cur \in Conns /\ Open(cur)
    BY <1>9 DEF ReadEnd, LoopTypeOK, Shorter
  <2>2. PICK keep \in BOOLEAN : OnClose(cur, FALSE, keep)
    BY <1>9 DEF ReadEnd
  <2> QED BY <2>1, <2>2, CloseIsSafe
<1>10. CASE ReadDone
  <2>1. LoopTypeOK' /\ Shorter /\ UNCHANGED <<objVars, held>>
    BY <1>10 DEF ReadDone, LoopTypeOK, Shorter
  <2> QED BY <2>1, SameIsSafe
<1>11. CASE RunTask
  <2> DEFINE c == Head(mail)
  <2>1. mail # <<>> /\ c \in Conns /\ mail' = Tail(mail) /\ UNCHANGED <<phase, cur, batch>>
    BY <1>11 DEF RunTask
  <2>2. LoopTypeOK' /\ Shorter
    BY <2>1, TaskType DEF LoopTypeOK, Shorter
  <2>3. CASE UNCHANGED <<objVars, held>>
    BY <2>1, <2>2, <2>3, SameIsSafe
  <2>4. ASSUME life[c] # "dead", ~closed[c], NEW keep \in BOOLEAN, OnClose(c, FALSE, keep)
        PROVE  Safe
    <3>1. life[c] # "none"
      BY <2>1, TaskType DEF Posted
    <3>2. life[c] \in {"none", "alive", "dead"}
      BY <2>1 DEF Tables, ObjTypeOK
    <3>3. Open(c)
      BY <2>4, <3>1, <3>2 DEF Open
    <3> QED BY <2>1, <2>2, <2>4, <3>3, CloseIsSafe
  <2> QED BY <1>11, <2>3, <2>4 DEF RunTask, CloseAgain
<1> QED BY <1>1, <1>2, <1>3, <1>4, <1>5, <1>6, <1>7, <1>8, <1>9, <1>10, <1>11 DEF Handlers

\* All the steps.
LEMMA ServerStep == ServerInv /\ [Next]_vars => Safe
<1> SUFFICES ASSUME ServerInv, [Next]_vars PROVE Safe
  OBVIOUS
<1> USE DEF ServerInv
<1>1. CASE Handlers
  BY <1>1, HandlerStep
<1>2. ASSUME NEW b \in BoundedSeq(Reports, MaxBatch), EpollWait(b) PROVE Safe
  <2>1. b \in Seq(Reports)
    BY BoundsAssumption, SeqDef DEF BoundedSeq, SeqOf
  <2>2. LoopTypeOK' /\ Shorter /\ UNCHANGED <<objVars, held>>
    BY <1>2, <2>1 DEF EpollWait, LoopTypeOK, Shorter
  <2> QED BY <2>2, SameIsSafe
<1>3. ASSUME NEW c \in Conns, OnAccept(c) PROVE Safe
  <2>1. LoopTypeOK' /\ Shorter
    BY <1>3 DEF OnAccept, LoopTypeOK, Shorter
  <2> QED BY <1>3, <2>1, AcceptStep, StepIsSafe
<1>4. ASSUME NEW c \in Conns, ReadForceClose(c) PROVE Safe
  <2>1. LoopTypeOK' /\ Shorter /\ Open(c)
    BY <1>4 DEF ReadForceClose, LoopTypeOK, Shorter
  <2>2. PICK keep \in BOOLEAN : OnClose(c, TRUE, keep)
    BY <1>4 DEF ReadForceClose
  <2> QED BY <2>1, <2>2, CloseIsSafe
<1>5. ASSUME NEW c \in Conns, Timeout(c) PROVE Safe
  <2>1. LoopTypeOK' /\ Shorter /\ Open(c)
    BY <1>5 DEF Timeout, LoopTypeOK, Shorter
  <2>2. PICK keep \in BOOLEAN : OnClose(c, TRUE, keep)
    BY <1>5 DEF Timeout
  <2> QED BY <2>1, <2>2, CloseIsSafe
<1>6. ASSUME NEW c \in Conns, ForceClose(c) PROVE Safe
  <2>1. LoopTypeOK' /\ UNCHANGED <<objVars, held>>
    BY <1>6 DEF ForceClose, LoopTypeOK
  <2> QED BY <1>6, <2>1, SameStep, PostedMore DEF Safe
<1>7. ASSUME NEW c \in Conns, Release(c) PROVE Safe
  <2>1. LoopTypeOK' /\ Shorter
    BY <1>7 DEF Release, LoopTypeOK, Shorter
  <2> QED BY <1>7, <2>1, ReleaseStep, StepIsSafe
<1>8. CASE UNCHANGED vars
  <2>1. LoopTypeOK' /\ Shorter /\ UNCHANGED <<objVars, held>>
    BY <1>8 DEF vars, LoopTypeOK, Shorter
  <2> QED BY <2>1, SameIsSafe
<1> QED BY <1>1, <1>2, <1>3, <1>4, <1>5, <1>6, <1>7, <1>8 DEF Next

-----------------------------------------------------------------------------
(* The theorems.                                                           *)

\* ServerInv is an invariant of the server, with any number of descriptors.
THEOREM ServerInvariant == Spec => []ServerInv
<1>1. ServerInv /\ [Next]_vars => ServerInv'
  BY ServerStep DEF Safe
<1> QED BY <1>1, InitServer, PTL DEF Spec

\* connections_, events_ and epoll agree, whatever descriptors are used again and
\* whatever reports of the batch are stale.
THEOREM ServerOpenIsWatched == Spec => []OpenIsWatched
<1>1. ServerInv => OpenIsWatched
  <2> SUFFICES ASSUME ServerInv PROVE OpenIsWatched
    OBVIOUS
  <2>1. \A c \in Conns : Open(c) => fd[c] # NoFd /\ events[fd[c]] = c
    BY FdsAssumption DEF ServerInv, Tables, OpenRecorded
  <2>2. \A f \in interest : events[f] = Acceptor \/ Open(events[f])
    BY DEF ServerInv, Tables, SameTables, EventsOwned, ObjTypeOK, Events
  <2> QED BY <2>1, <2>2 DEF OpenIsWatched, ServerInv, Tables, OpenRecorded, SameTables
<1> QED BY <1>1, ServerInvariant, PTL

\* A closed connection has given back its descriptor and lives only while the
\* application holds it.
THEOREM ServerClosedIsReleased == Spec => []ClosedIsReleased
<1>1. ServerInv => ClosedIsReleased
  BY DEF ServerInv, Tables, Lives, ClosedIsReleased
<1> QED BY <1>1, ServerInvariant, PTL

\* A server that listens goes on until Stop, whatever happens to its socket.
THEOREM ServerListensUntilStopped == Spec => ListensUntilStopped
<1>1. ServerInv /\ [Next]_vars => [Listens => Listens' \/ Stop]_vars
  BY ServerStep DEF Safe
<1> QED BY <1>1, ServerInvariant, PTL DEF Spec, ListensUntilStopped
=============================================================================
