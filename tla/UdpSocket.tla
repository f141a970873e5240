------------------------------ MODULE UdpSocket ------------------------------
(***************************************************************************)
(* One network::UdpSocket, as UdpServer (Start, Stop) or as UdpClient        *)
(* (Connect): the list buffer_list_ of datagrams that were not sent at once, *)
(* OnRead, OnWrite, the ways to close, and the entry in the loop's events_.  *)
(*                                                                         *)
(* Handlers run in the loop's thread; between two system calls the kernel    *)
(* goes on.  A datagram is sent whole or not at all.  close_cb_ does not     *)
(* connect again itself, and nobody connects a socket that is open.          *)
(***************************************************************************)
EXTENDS Integers, Sequences

CONSTANTS
  Messages,  \* the datagrams to send: each once
  Empty,     \* those of size 0
  Lists,     \* those sent through Send(list)
  Fds,       \* descriptors the kernel gives out
  NoFd,      \* -1
  SndBuf,    \* datagrams the socket's send buffer holds
  Chunks,    \* bound: datagrams the peers send
  Opens      \* bound: calls of Start or Connect

ASSUME MessagesAssumption ==
  /\ Empty \subseteq Messages /\ Lists \subseteq Messages
  /\ Messages \cap {"open", "close", "stop"} = {}
ASSUME FdsAssumption == NoFd \notin Fds
ASSUME BoundsAssumption == SndBuf \in Nat \ {0} /\ Chunks \in Nat /\ Opens \in Nat

VARIABLES
  role,      \* "server" or "client": the derived class
  phase,     \* what the loop's thread does with the socket
  ret,       \* where it goes on after a callback
  fd,        \* fd_
  entries,   \* the descriptors events_ has this socket under
  polled,    \* epoll watches fd_
  closed,    \* closed_
  connected, \* connected_ of the client
  writeOn,   \* event_ has EPOLLOUT
  list,      \* buffer_list_
  mail,      \* the tasks other threads have posted to the loop
  opens,     \* how often Start or Connect was called
  ready,     \* kernel: the socket is on epoll's ready list
  inq,       \* kernel: received datagrams, "data" or "empty"
  chunks,    \* kernel: datagrams the peers may still send
  sockErr,   \* kernel: an error is pending (ICMP: port unreachable)
  pending,   \* kernel: datagrams in the send buffer
  wire,      \* history: the datagrams the socket took
  due,       \* history: the datagrams SendInLoop was called for
  heard,     \* history: how often message_cb_ ran
  stopped    \* history: Stop was what closed the server

object == <<fd, entries, polled, closed, connected, stopped>>
output == <<writeOn, list, wire, due, pending>>
input == <<inq, chunks>>
vars == <<role, phase, ret, object, output, mail, opens, ready, input, sockErr, heard>>

Init ==
  /\ role \in {"server", "client"} /\ phase = "idle" /\ ret = "idle"
  /\ fd = NoFd /\ entries = {} /\ polled = FALSE /\ closed = FALSE /\ connected = FALSE
  /\ writeOn = FALSE /\ list = <<>> /\ mail = <<>> /\ opens = 0
  /\ ready = FALSE /\ inq = <<>> /\ chunks = Chunks /\ sockErr = FALSE /\ pending = 0
  /\ wire = <<>> /\ due = <<>> /\ heard = 0 /\ stopped = FALSE

-----------------------------------------------------------------------------
(* The socket and epoll.                                                   *)

\* A UDP socket counts as writable while half of its send buffer is free.
Writable(n) == 2 * n <= SndBuf

Poll ==
  {e \in {"IN", "OUT", "ERR"} :
     CASE e = "IN"  -> inq # <<>>
       [] e = "OUT" -> writeOn /\ Writable(pending)
       [] e = "ERR" -> sockErr}

PeerSends(d) ==
  /\ fd # NoFd /\ chunks > 0
  /\ inq' = Append(inq, d) /\ chunks' = chunks - 1 /\ ready' = polled
  /\ UNCHANGED <<role, phase, ret, object, output, mail, opens, sockErr, heard>>

\* The peer's port is closed; only a connected socket hears of it.
PeerRefuses ==
  /\ fd # NoFd /\ role = "client" /\ wire # <<>> /\ ~sockErr
  /\ sockErr' = TRUE /\ ready' = polled
  /\ UNCHANGED <<role, phase, ret, object, output, mail, opens, input, heard>>

Transmit ==
  /\ pending > 0
  /\ pending' = pending - 1
  /\ ready' = (ready \/ (polled /\ writeOn /\ Writable(pending')))
  /\ UNCHANGED <<role, phase, ret, object, writeOn, list, wire, due, mail, opens, input, sockErr, heard>>

\* Mutant: epoll is not told of the output.
EnableWritingUnseen(n) == writeOn' = (writeOn \/ fd \in entries) /\ UNCHANGED ready

\* EnableWriting(true) with n datagrams in the send buffer: an entry in events_
\* is needed, and epoll looks at the socket again.  Nothing takes EPOLLOUT back.
EnableWriting(n) ==
  /\ writeOn' = (writeOn \/ fd \in entries)
  /\ ready' = (ready \/ (polled /\ (inq # <<>> \/ sockErr \/ Writable(n))))

-----------------------------------------------------------------------------
(* Closing.                                                                *)

\* UdpSocket::OnClose: closed_ makes close_cb_ and Event::Close happen once.
CloseSocket ==
  /\ closed' = TRUE
  /\ fd' = IF closed THEN fd ELSE NoFd

\* DelEvent: the descriptor leaves events_ and epoll.
DelEvent == entries' = entries \ {fd} /\ polled' = FALSE

\* Mutant: the client closes without leaving the loop.
ClientOnCloseWatched ==
  \/ /\ connected
     /\ connected' = FALSE /\ CloseSocket /\ polled' = FALSE
     /\ ready' = FALSE /\ UNCHANGED <<entries, stopped>>
  \/ ~connected /\ UNCHANGED <<object, ready>>

\* UdpClient::OnClose does nothing when the client is not connected.
ClientOnClose ==
  \/ /\ connected
     /\ DelEvent /\ connected' = FALSE /\ CloseSocket
     /\ ready' = FALSE /\ UNCHANGED stopped
  \/ ~connected /\ UNCHANGED <<object, ready>>

\* UdpServer has the OnClose of UdpSocket, which leaves the entry in events_;
\* closing the descriptor takes it out of epoll.
ServerOnClose ==
  /\ CloseSocket
  /\ polled' = (polled /\ closed) /\ ready' = (ready /\ polled')
  /\ UNCHANGED <<entries, connected, stopped>>

\* UdpServer::Stop, in the loop: DelEvent and then OnClose.
Stop ==
  /\ DelEvent /\ CloseSocket
  /\ ready' = FALSE /\ stopped' = (stopped \/ ~closed)
  /\ UNCHANGED connected

OnClose == (role = "client" /\ ClientOnClose) \/ (role = "server" /\ ServerOnClose)

\* AddEvent of the new descriptor f does nothing if it is in events_ already.
AddEvent(f) ==
  /\ fd' = f /\ entries' = entries \cup {f} /\ polled' = (f \notin entries)
  /\ ready' = (polled' /\ writeOn)
  /\ inq' = <<>> /\ sockErr' = FALSE /\ pending' = 0
  /\ UNCHANGED <<closed, stopped, chunks>>

\* There may be no descriptor; bind and connect may fail unnoticed.
NoSocket == OnClose /\ UNCHANGED <<input, sockErr, pending, phase, ret>>
ServerOpen == NoSocket \/ \E f \in Fds : AddEvent(f) /\ UNCHANGED <<connected, phase, ret>>
ConnectInLoop ==
  \/ NoSocket
  \/ /\ \E f \in Fds : AddEvent(f)
     /\ connected' = TRUE
     /\ phase' = "callback" /\ ret' = "idle"               \* connected_cb_

-----------------------------------------------------------------------------
(* Sending.                                                                *)

\* What sendto makes of a datagram.
SendFails == fd = NoFd \/ sockErr \/ pending >= SndBuf

\* Mutant: a datagram that cannot be sent at once goes to the front.
QueueInFront(m) == list' = <<m>> \o list

Queue(m) == list' = Append(list, m)

\* SendInLoop.  A buffer goes to the socket if nothing is queued; a datagram of
\* size 0 is sent, and queued because sendto did not return more than 0.
SendInLoop(m) ==
  LET direct == m \notin Lists /\ list = <<>>
      taken  == direct /\ ~SendFails
  IN
  /\ due' = Append(due, m)
  /\ wire' = (IF taken THEN Append(wire, m) ELSE wire)
  /\ pending' = (IF taken THEN pending + 1 ELSE pending)
  /\ sockErr' = (sockErr /\ ~(direct /\ fd # NoFd))
  /\ IF taken /\ m \notin Empty
     THEN UNCHANGED <<list, writeOn, ready>>
     ELSE Queue(m) /\ EnableWriting(pending')

\* Send, ForceClose, Start or Connect, and Stop in another thread.
Post(task) ==
  /\ CASE task \in Messages -> \A i \in DOMAIN due : due[i] # task
       [] task = "open"  -> fd = NoFd /\ opens < Opens
       [] task = "close" -> TRUE
       [] task = "stop"  -> role = "server"
  /\ \A i \in DOMAIN mail : mail[i] # task
  /\ mail' = Append(mail, task)
  /\ opens' = (IF task = "open" THEN opens + 1 ELSE opens)
  /\ UNCHANGED <<role, phase, ret, object, output, ready, input, sockErr, heard>>

RunTask ==
  /\ phase = "idle" /\ mail # <<>>
  /\ mail' = Tail(mail)
  /\ LET task == Head(mail) IN
     \/ /\ task \in Messages /\ SendInLoop(task)
        /\ UNCHANGED <<object, input, phase, ret>>
     \/ /\ task = "open"
        /\ (role = "server" /\ ServerOpen) \/ (role = "client" /\ ConnectInLoop)
        /\ UNCHANGED <<writeOn, list, wire, due>>
     \/ /\ (task = "close" /\ OnClose) \/ (task = "stop" /\ Stop)
        /\ UNCHANGED <<output, input, sockErr, phase, ret>>
  /\ UNCHANGED <<role, opens, heard>>

-----------------------------------------------------------------------------
(* Callbacks and handlers.                                                 *)

CallbackSend(m) ==
  /\ phase = "callback"
  /\ \A i \in DOMAIN mail : mail[i] # m
  /\ \A i \in DOMAIN due : due[i] # m
  /\ SendInLoop(m)
  /\ UNCHANGED <<role, phase, ret, object, mail, opens, input, heard>>

CallbackClose ==
  /\ phase = "callback"
  /\ OnClose
  /\ UNCHANGED <<role, phase, ret, output, mail, opens, input, sockErr, heard>>

CallbackDone ==
  /\ phase = "callback"
  /\ phase' = ret
  /\ UNCHANGED <<role, ret, object, output, mail, opens, ready, input, sockErr, heard>>

\* Loop takes one report of epoll_wait and calls one handler.
Dispatch ==
  /\ phase = "idle" /\ ready
  /\ \/ /\ Poll = {}
        /\ ready' = FALSE /\ UNCHANGED <<object, phase, sockErr>>
     \/ /\ "ERR" \in Poll
        /\ OnClose                                  \* OnError
        /\ sockErr' = FALSE /\ UNCHANGED phase
     \/ /\ "ERR" \notin Poll /\ "IN" \in Poll
        /\ phase' = (IF closed THEN "idle" ELSE "read")
        /\ ready' = FALSE /\ UNCHANGED <<object, sockErr>>
     \/ /\ Poll = {"OUT"}
        /\ phase' = (IF closed THEN "idle" ELSE "write")
        /\ ready' = FALSE /\ UNCHANGED <<object, sockErr>>
  /\ UNCHANGED <<role, ret, output, mail, opens, input, heard>>

\* Mutant: OnRead keeps reading from the descriptor a callback closed.
OnReadOn ==
  /\ phase = "read" /\ inq # <<>>
  /\ inq' = Tail(inq)
  /\ phase' = "callback" /\ ret' = "read" /\ heard' = heard + 1
  /\ UNCHANGED <<role, object, ready, output, mail, opens, chunks, sockErr>>

\* One round of OnRead: recvfrom and what its result leads to.  It goes on
\* after a datagram of size 0, which message_cb_ does not hear of, and after a
\* callback that closed, until recvfrom fails.
OnRead ==
  /\ phase = "read"
  /\ \/ /\ fd # NoFd /\ ~sockErr /\ inq # <<>>
        /\ inq' = Tail(inq)
        /\ IF Head(inq) = "data"
           THEN phase' = "callback" /\ ret' = "read" /\ heard' = heard + 1
           ELSE UNCHANGED <<phase, ret, heard>>
        /\ UNCHANGED <<object, ready, sockErr>>
     \/ /\ fd = NoFd \/ sockErr
        /\ OnClose
        /\ phase' = "idle" /\ sockErr' = FALSE
        /\ UNCHANGED <<inq, ret, heard>>
     \/ /\ fd # NoFd /\ ~sockErr /\ inq = <<>>
        /\ phase' = "idle"
        /\ UNCHANGED <<object, ready, inq, ret, heard, sockErr>>
  /\ UNCHANGED <<role, output, mail, opens, chunks>>

\* One round of OnWrite: sendto for the first datagram.  For one of size 0 it
\* returns 0, which is neither success nor error: OnWrite sends it for ever.
OnWrite ==
  /\ phase = "write"
  /\ \/ /\ list # <<>> /\ ~SendFails
        /\ wire' = Append(wire, Head(list))
        /\ IF Head(list) \in Empty
           THEN phase' = "spin" /\ UNCHANGED list
           ELSE list' = Tail(list) /\ UNCHANGED phase
        /\ pending' = pending + 1
        /\ UNCHANGED <<object, ready, ret, sockErr>>
     \/ /\ list # <<>> /\ sockErr
        /\ OnClose
        /\ phase' = "idle" /\ sockErr' = FALSE
        /\ UNCHANGED <<ret, list, wire, pending>>
     \/ /\ list # <<>> /\ ~sockErr /\ SendFails
        /\ phase' = "idle"
        /\ UNCHANGED <<object, ready, ret, list, wire, pending, sockErr>>
     \/ /\ list = <<>>
        /\ phase' = "callback" /\ ret' = "idle"            \* write_complete_cb_
        /\ UNCHANGED <<object, ready, list, wire, pending, sockErr>>
  /\ UNCHANGED <<role, writeOn, due, mail, opens, input, heard>>

\* The wheel drops the idle entry; only OnWrite extends its life.
OnTimeOut ==
  /\ phase = "idle" /\ fd # NoFd
  /\ OnClose
  /\ UNCHANGED <<role, phase, ret, output, mail, opens, input, sockErr, heard>>

-----------------------------------------------------------------------------
Network == PeerRefuses \/ Transmit \/ \E d \in {"data", "empty"} : PeerSends(d)
App ==
  \/ \E task \in Messages \cup {"open", "close", "stop"} : Post(task)
  \/ CallbackClose \/ \E m \in Messages : CallbackSend(m)
InLoop == RunTask \/ CallbackDone \/ Dispatch \/ OnRead \/ OnWrite

Next == phase # "spin" /\ (Network \/ App \/ InLoop \/ OnTimeOut)

Safety == Init /\ [][Next]_vars

\* The loop goes on and the kernel transmits what is in the send buffer.
Spec ==
  /\ Safety /\ WF_vars(Transmit)
  /\ WF_vars(RunTask) /\ WF_vars(CallbackDone) /\ WF_vars(Dispatch) /\ WF_vars(OnRead) /\ WF_vars(OnWrite)

-----------------------------------------------------------------------------
(* Properties.                                                             *)

\* The datagrams of ms that have content, in their order.
Full(ms) ==
  LET F[i \in 0 .. Len(ms)] ==
        IF i = 0 THEN <<>> ELSE IF ms[i] \in Empty THEN F[i - 1] ELSE Append(F[i - 1], ms[i])
  IN F[Len(ms)]

\* Whatever the socket refuses and whoever sends meanwhile, the datagrams with
\* content are sent and queued in the order of the calls, each once.
DatagramsInOrder == Full(wire \o list) = Full(due)

\* Queued datagrams leave once a Send has found the socket open (those queued
\* before Open wait for that), unless the socket closes, the peers send too (a
\* report of both is taken for input only) or a datagram of size 0 holds OnWrite
\* for ever.
QueueFlushed ==
  (list # <<>> /\ polled /\ writeOn) ~>
    (list = <<>> \/ ~polled \/ closed \/ phase = "spin" \/ chunks < Chunks)

\* A closed socket calls message_cb_ no more, though OnRead goes on after the
\* callback that closed it.
ClosedIsSilent == [][closed => heard' = heard]_vars

\* The loop has the socket under its open descriptor only: a stale entry would
\* keep the next socket with that descriptor out of the loop.  A server leaves
\* such an entry when it closes in another way than Stop.
NoStaleEntry ==
  role = "client" \/ stopped \/ ~closed => entries \subseteq {fd}
=============================================================================
