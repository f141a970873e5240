------------------------------ MODULE TcpServer ------------------------------
(***************************************************************************)
(* A network::TcpServer: the Acceptor that listens for it, its connections   *)
(* and who keeps them alive.  A                                            *)
(* TcpConnection lives while a shared_ptr to it exists: in connections_, in  *)
(* the loop's events_ (by descriptor), with the application (held), or on    *)
(* the stack of a callback.  Tasks posted by ForceClose and the handlers     *)
(* Loop calls have the bare this.                                          *)
(*                                                                         *)
(* The Acceptor is an Event like a connection; when accept fails it closes    *)
(* its socket and opens another.                                            *)
(*                                                                         *)
(* The loop works through the events one epoll_wait reported (batch), then   *)
(* through the posted tasks, then turns the timing wheel.  The kernel hands  *)
(* out the lowest free descriptor.                                         *)
(***************************************************************************)
EXTENDS Integers, Sequences, FiniteSets, FiniteSetsExt, SequencesExt

CONSTANTS Conns,     \* the connections that may be accepted
          Fds,       \* descriptors, small integers
          MaxBatch,  \* bound: events of one epoll_wait
          MaxMail,   \* bound: tasks waiting in the loop
          Acceptor,  \* the acceptor_: an Event, as the connections are
          NoConn, NoFd

ASSUME FdsAssumption ==
  Fds \subseteq Nat /\ Fds # {} /\ IsFiniteSet(Fds) /\ NoFd \notin Fds
ASSUME ConnsAssumption == NoConn \notin Conns /\ Acceptor \notin Conns \cup {NoConn}
ASSUME BoundsAssumption == MaxBatch \in Nat /\ MaxMail \in Nat

VARIABLES
  phase,        \* what the loop's thread does
  cur,          \* the connection whose OnRead runs, or NoConn
  batch,        \* the rest of the events that epoll_wait reported
  life,         \* life[c]: not made yet, alive or destroyed
  closed,       \* closed[c]: closed_
  fd,           \* fd[c]: fd_
  connections,  \* connections_
  events,       \* events_: descriptor to event
  interest,     \* the descriptors registered with epoll
  listener,     \* fd_ of the Acceptor
  held,         \* the connections the application has a shared_ptr to
  mail,         \* posted tasks: a connection's ForceClose, the Acceptor's Open
  fault         \* what went wrong: the run ends there

objVars == <<life, closed, fd, connections, events, interest, listener>>
vars == <<phase, cur, batch, objVars, held, mail, fault>>

Reports == [fd : Fds, kind : {"in", "err"}]

Init ==
  /\ phase = "wait" /\ cur = NoConn /\ batch = <<>>
  /\ life = [c \in Conns |-> "none"]
  /\ closed = [c \in Conns |-> FALSE]
  /\ fd = [c \in Conns |-> NoFd]
  /\ connections = {}
  /\ events = [f \in Fds |-> NoConn]
  /\ interest = {} /\ listener = NoFd
  /\ held = {} /\ mail = <<>> /\ fault = "none"

Open(c) == life[c] = "alive" /\ ~closed[c]

FreeFds == {f \in Fds : listener # f /\ \A c \in Conns : fd[c] # f}

\* The loop's table and epoll's, after AddEvent and DelEvent: AddEvent does
\* nothing if the descriptor is in events_ already, DelEvent if it is not.
AddEvent(evs, f, x) == [evs EXCEPT ![f] = IF @ = NoConn THEN x ELSE @]
DelEvent(evs, f) == [g \in Fds |-> IF g = f THEN NoConn ELSE evs[g]]

-----------------------------------------------------------------------------
(* OnClose of c, in the loop's thread.  OnConnectionClose erases c from      *)
(* connections_ and DelEvent from events_, and destroy_connection_cb_ may     *)
(* make the application drop its own reference (keep is FALSE).  Then the     *)
(* shared_ptr that was the argument goes, and with it c if nobody else has    *)
(* one.  Event::Close still works on c: unless a caller's shared_ptr guards   *)
(* c, that may be a destroyed object.                                       *)

\* Mutant: the connection is not taken out of events_.
OnCloseWatched(c, guarded, keep) ==
  LET dies == ~(c \in held /\ keep) IN
  /\ closed' = [closed EXCEPT ![c] = TRUE]
  /\ connections' = connections \ {c}
  /\ fd' = [fd EXCEPT ![c] = NoFd]
  /\ held' = IF keep THEN held ELSE held \ {c}
  /\ life' = [life EXCEPT ![c] = IF dies THEN "dead" ELSE @]
  /\ interest' = interest \ {fd[c]}
  /\ UNCHANGED <<events, listener, fault>>

\* Mutant: the connection is not taken out of connections_.
OnCloseKept(c, guarded, keep) ==
  /\ closed' = [closed EXCEPT ![c] = TRUE]
  /\ events' = DelEvent(events, fd[c])
  /\ fd' = [fd EXCEPT ![c] = NoFd]
  /\ interest' = interest \ {fd[c]}
  /\ held' = IF keep THEN held ELSE held \ {c}
  /\ UNCHANGED <<life, connections, listener, fault>>

OnClose(c, guarded, keep) ==
  LET dies == ~(c \in held /\ keep) IN
  /\ closed' = [closed EXCEPT ![c] = TRUE]
  /\ connections' = connections \ {c}
  /\ events' = DelEvent(events, fd[c])
  /\ fd' = [fd EXCEPT ![c] = NoFd]
  /\ held' = IF keep THEN held ELSE held \ {c}
  /\ life' = [life EXCEPT ![c] = IF dies THEN "dead" ELSE @]
  /\ interest' = interest \ {fd[c]}
  /\ UNCHANGED listener
  /\ fault' = IF dies /\ ~guarded THEN "closed a destroyed connection" ELSE fault

\* OnClose of a connection that is closed already: nothing is left to do.
CloseAgain(c) == closed[c] /\ UNCHANGED <<objVars, held, fault>>

-----------------------------------------------------------------------------
(* The Acceptor.                                                           *)

\* Mutant: OnClose opens the new socket without Stop.
RebuildWatched(started) ==
  LET f == Min(FreeFds \cup ({listener} \ {NoFd})) IN
  /\ listener' = f
  /\ events' = AddEvent(events, f, Acceptor)
  /\ interest' = (interest \ {listener}) \cup (IF events[f] = NoConn THEN {f} ELSE {})

\* Stop and then Open: the old descriptor leaves events_ and is closed, and
\* the new socket, which has the lowest free one, is watched.  Start runs Open
\* alone.
Rebuild(stop) ==
  LET f == Min(FreeFds \cup ({listener} \ {NoFd}))
      left == IF stop THEN DelEvent(events, listener) ELSE events IN
  /\ listener' = f
  /\ events' = AddEvent(left, f, Acceptor)
  /\ interest' = (interest \ {listener}) \cup (IF left[f] = NoConn THEN {f} ELSE {})

Listening == \E f \in Fds : events[f] = Acceptor

\* The server does not listen: another thread posts Open, or a callback of
\* the loop's thread runs it at once.
Start ==
  /\ ~Listening /\ \A i \in DOMAIN mail : mail[i] # Acceptor
  /\ \/ /\ Len(mail) < MaxMail /\ mail' = Append(mail, Acceptor)
        /\ UNCHANGED <<events, interest, listener>>
     \/ phase = "read" /\ Rebuild(FALSE) /\ UNCHANGED mail
  /\ UNCHANGED <<phase, cur, batch, life, closed, fd, connections, held, fault>>

\* In a callback of the loop's thread: DelEvent; the socket stays open.
Stop ==
  /\ phase = "read" /\ listener # NoFd /\ events[listener] # NoConn
  /\ events' = DelEvent(events, listener)
  /\ interest' = interest \ {listener}
  /\ UNCHANGED <<phase, cur, batch, life, closed, fd, connections, listener, held, mail, fault>>

-----------------------------------------------------------------------------
(* Loop.                                                                   *)

\* epoll_wait reports events of registered descriptors, each once.
EpollWait(b) ==
  /\ phase = "wait" /\ b # <<>>
  /\ \A i \in DOMAIN b : b[i].fd \in interest
  /\ \A i, j \in DOMAIN b : i # j => b[i].fd # b[j].fd
  /\ batch' = b /\ phase' = "batch"
  /\ UNCHANGED <<cur, objVars, held, mail, fault>>

\* epoll_wait reports nothing the server cares about.
EpollQuiet ==
  /\ phase = "wait" /\ (mail # <<>> \/ connections # {})
  /\ phase' = "batch"
  /\ UNCHANGED <<cur, batch, objVars, held, mail, fault>>

\* Who gets the report at the head of the batch: the descriptor may be gone
\* from events_, or belong to a connection accepted in between.
Receiver == events[Head(batch).fd]

DispatchGone ==
  /\ phase = "batch" /\ batch # <<>> /\ Receiver = NoConn
  /\ batch' = Tail(batch)
  /\ UNCHANGED <<phase, cur, objVars, held, mail, fault>>

\* EPOLLERR or a hang-up: the handler closes.
DispatchErr ==
  /\ phase = "batch" /\ batch # <<>> /\ Head(batch).kind = "err"
  /\ \/ Receiver \in Conns /\ \E keep \in BOOLEAN : OnClose(Receiver, FALSE, keep)
     \/ Receiver = Acceptor /\ Rebuild(TRUE)
        /\ UNCHANGED <<life, closed, fd, connections, held, fault>>
  /\ batch' = Tail(batch)
  /\ UNCHANGED <<phase, cur, mail>>

DispatchRead ==
  /\ phase = "batch" /\ batch # <<>> /\ Head(batch).kind = "in"
  /\ Receiver \in Conns
  /\ cur' = Receiver
  /\ phase' = "read"
  /\ batch' = Tail(batch)
  /\ UNCHANGED <<objVars, held, mail, fault>>

Accepting == phase = "batch" /\ batch # <<>> /\ Head(batch).kind = "in" /\ Receiver = Acceptor

\* Acceptor::OnRead and TcpServer::OnAccept: the new connection is recorded
\* and watched, unless its descriptor is still in events_.
OnAccept(c) ==
  /\ Accepting
  /\ life[c] = "none" /\ FreeFds # {}
  /\ LET f == Min(FreeFds) IN
       /\ fd' = [fd EXCEPT ![c] = f]
       /\ events' = AddEvent(events, f, c)
       /\ interest' = IF events[f] = NoConn THEN interest \cup {f} ELSE interest
  /\ life' = [life EXCEPT ![c] = "alive"]
  /\ connections' = connections \cup {c}
  /\ UNCHANGED <<phase, cur, batch, closed, listener, held, mail, fault>>

\* accept finds nobody else waiting.
AcceptDone ==
  /\ Accepting
  /\ batch' = Tail(batch)
  /\ UNCHANGED <<phase, cur, objVars, held, mail, fault>>

\* accept fails, as it does when no descriptor is left: Acceptor::OnClose.
AcceptFails ==
  /\ Accepting
  /\ Rebuild(TRUE)
  /\ batch' = Tail(batch)
  /\ UNCHANGED <<phase, cur, life, closed, fd, connections, held, mail, fault>>

\* ReadFd on an object that is gone.
ReadDestroyed ==
  /\ phase = "read" /\ life[cur] = "dead"
  /\ fault' = "read from a destroyed connection"
  /\ UNCHANGED <<phase, cur, batch, objVars, held, mail>>

\* ReadFd has data: message_cb_ runs and may keep a reference.
ReadMessage ==
  /\ phase = "read" /\ Open(cur)
  /\ held' = held \cup {cur}
  /\ UNCHANGED <<phase, cur, batch, objVars, mail, fault>>

\* message_cb_ calls ForceClose of its own or of another connection, which
\* closes at once; a shared_ptr of message_cb_ guards it until message_cb_ returns.
ReadForceClose(c) ==
  /\ phase = "read" /\ Open(cur) /\ Open(c)
  /\ c = cur \/ c \in held
  /\ \E keep \in BOOLEAN : OnClose(c, TRUE, keep)
  /\ UNCHANGED <<phase, cur, batch, mail>>

\* The peer has closed: ReadFd returns 0 and OnRead closes.
ReadEnd ==
  /\ phase = "read" /\ Open(cur)
  /\ \E keep \in BOOLEAN : OnClose(cur, FALSE, keep)
  /\ phase' = "batch" /\ cur' = NoConn
  /\ UNCHANGED <<batch, mail>>

\* Nothing more to read, or the descriptor was closed in the callback.
ReadDone ==
  /\ phase = "read" /\ life[cur] = "alive"
  /\ phase' = "batch" /\ cur' = NoConn
  /\ UNCHANGED <<batch, objVars, held, mail, fault>>

BatchDone ==
  /\ phase = "batch" /\ batch = <<>>
  /\ phase' = "tasks"
  /\ UNCHANGED <<cur, batch, objVars, held, mail, fault>>

\* RunFunctions runs a posted ForceClose or the Open of Start.
RunTask ==
  /\ phase = "tasks" /\ mail # <<>> /\ Head(mail) \in Conns
  /\ mail' = Tail(mail)
  /\ IF life[Head(mail)] = "dead"
     THEN fault' = "ran a task of a destroyed connection" /\ UNCHANGED <<objVars, held>>
     ELSE \/ CloseAgain(Head(mail))
          \/ ~closed[Head(mail)] /\ \E keep \in BOOLEAN : OnClose(Head(mail), FALSE, keep)
  /\ UNCHANGED <<phase, cur, batch>>

RunOpen ==
  /\ phase = "tasks" /\ mail # <<>> /\ Head(mail) = Acceptor
  /\ Rebuild(FALSE)
  /\ mail' = Tail(mail)
  /\ UNCHANGED <<phase, cur, batch, life, closed, fd, connections, held, fault>>

TasksDone ==
  /\ phase = "tasks" /\ mail = <<>>
  /\ phase' = "timer"
  /\ UNCHANGED <<cur, batch, objVars, held, mail, fault>>

\* The wheel drops the idle entry of c: the weak pointer is locked and
\* OnTimeout closes; the last reference may be the locked one.
Timeout(c) ==
  /\ phase = "timer" /\ Open(c)
  /\ \E keep \in BOOLEAN : OnClose(c, TRUE, keep)
  /\ UNCHANGED <<phase, cur, batch, mail>>

TimerDone ==
  /\ phase = "timer"
  /\ phase' = "wait"
  /\ UNCHANGED <<cur, batch, objVars, held, mail, fault>>

-----------------------------------------------------------------------------
(* A worker thread that has a shared_ptr to c.                             *)

ForceClose(c) ==
  /\ c \in held /\ Len(mail) < MaxMail
  /\ mail' = Append(mail, c)
  /\ UNCHANGED <<phase, cur, batch, objVars, held, fault>>

\* The worker lets go of its shared_ptr.  If it was the last one, the
\* destructor runs here, and OnClose leaves the process: wrong thread.
Release(c) ==
  /\ c \in held
  /\ held' = held \ {c}
  /\ IF closed[c]
     THEN /\ life' = [life EXCEPT ![c] = "dead"]
          /\ fault' = "exit: destroyed in another thread"
     ELSE UNCHANGED <<life, fault>>
  /\ UNCHANGED <<phase, cur, batch, closed, fd, connections, events, interest, listener, mail>>

-----------------------------------------------------------------------------
Handlers ==
  \/ Start \/ Stop \/ EpollQuiet \/ DispatchGone \/ DispatchErr \/ DispatchRead
  \/ AcceptDone \/ AcceptFails \/ RunOpen
  \/ ReadDestroyed \/ ReadMessage \/ ReadEnd \/ ReadDone \/ BatchDone \/ RunTask
  \/ TasksDone \/ TimerDone

Next ==
  /\ fault = "none"
  /\ \/ Handlers
     \/ \E b \in BoundedSeq(Reports, MaxBatch) : EpollWait(b)
     \/ \E c \in Conns : OnAccept(c) \/ ReadForceClose(c) \/ Timeout(c)
                         \/ ForceClose(c) \/ Release(c)

Spec == Init /\ [][Next]_vars

-----------------------------------------------------------------------------
(* Properties.                                                             *)

\* connections_, events_ and epoll agree: an open connection is recorded and
\* watched under its descriptor, also when the descriptor was used before, and
\* nothing else is watched but the listener.
OpenIsWatched ==
  /\ \A c \in Conns : Open(c) <=> c \in connections
  /\ \A c \in Conns : Open(c) => fd[c] # NoFd /\ events[fd[c]] = c
  /\ interest = {f \in Fds : events[f] # NoConn}
  /\ \A f \in interest : events[f] = Acceptor \/ Open(events[f])

\* A closed connection has given its descriptor back and is not kept alive by
\* the server: it lives on only while the application holds it.
ClosedIsReleased ==
  \A c \in Conns : closed[c] => fd[c] = NoFd /\ (life[c] = "alive" <=> c \in held)

\* The listener is watched under the descriptor it has now.
Listens == listener # NoFd /\ listener \in interest /\ events[listener] = Acceptor

\* A server that listens goes on until Stop, however often accept fails, the
\* socket is closed and opened again and the descriptor changes.
ListensUntilStopped == [][Listens => Listens' \/ Stop]_vars

\* Event::Close at the end of OnClose is for a connection whose destructor has
\* not run, says its comment.
CloseBeforeDestructor == fault # "closed a destroyed connection"

=============================================================================
