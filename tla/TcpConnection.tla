---------------------------- MODULE TcpConnection ----------------------------
(***************************************************************************)
(* The output of one network::TcpConnection: Send and SendInLoop, the list  *)
(* io_vec_list_ of what the socket did not take, OnWrite, and the events    *)
(* that epoll reports to the loop and Loop passes on, edge-triggered and at *)
(* most one handler per report.                                            *)
(*                                                                         *)
(* All handlers run in the loop's thread; between two system calls of a     *)
(* handler the kernel and the peer go on.  Bytes are units; the unit at     *)
(* offset i of the buffer of message m is <<m, i>>.  The socket is          *)
(* non-blocking, so no call is interrupted (EINTR).                        *)
(***************************************************************************)
EXTENDS Integers, Sequences, FiniteSets, Functions, SequencesExt

CONSTANTS
  Messages,  \* what is sent: each message once
  Nodes,     \* Nodes[m]: the sizes of the buffers m is made of
  SndBuf,    \* units the socket's send buffer holds
  Width,     \* 2^64: size_t counts modulo Width
  Chunks     \* bound: how often the peer sends data

ASSUME MessagesAssumption ==
  /\ Nodes \in [Messages -> Seq(Nat \ {0})]
  /\ \A m \in Messages : Nodes[m] # <<>>
ASSUME SizesAssumption ==
  /\ SndBuf \in Nat \ {0} /\ Chunks \in Nat
  /\ Width \in Nat
  /\ \A m \in Messages : \A i \in DOMAIN Nodes[m] : Nodes[m][i] + 1 < Width

VARIABLES
  phase,     \* what the loop's thread does with the connection
  ret,       \* where it goes on after a callback
  closed,    \* closed_; the descriptor is closed and out of epoll
  ioVec,     \* io_vec_list_: what to write, as [msg, base, len]
  writeOn,   \* event_ has EPOLLOUT
  mail,      \* the tasks other threads have posted to the loop
  ready,     \* kernel: the socket is on epoll's ready list
  inq,       \* kernel: chunks received and not read
  chunks,    \* kernel: chunks the peer may still send
  fin,       \* kernel: the peer has closed its side
  reset,     \* kernel: the connection was reset
  sockErr,   \* kernel: the error is not reported yet
  unacked,   \* kernel: units in the send buffer
  wire,      \* history: the units the socket took, in order
  due,       \* history: the units SendInLoop was called for, in order
  sent,      \* history: the messages handed to Send
  completed  \* history: what was due when write_complete_cb_ ran last

appVars == <<mail, sent>>
kernelIn == <<inq, chunks, fin, reset>>
kernelOut == <<unacked, wire>>
vars == <<phase, ret, closed, ioVec, writeOn, mail, ready, inq, chunks, fin, reset,
          sockErr, unacked, wire, due, sent, completed>>

Init ==
  /\ phase = "idle" /\ ret = "idle" /\ closed = FALSE
  /\ ioVec = <<>> /\ writeOn = FALSE /\ mail = <<>>
  /\ ready = FALSE /\ inq = 0 /\ chunks = Chunks
  /\ fin = FALSE /\ reset = FALSE /\ sockErr = FALSE
  /\ unacked = 0
  /\ wire = <<>> /\ due = <<>> /\ sent = {} /\ completed = <<>>

-----------------------------------------------------------------------------
(* The socket and epoll.                                                   *)

Free == SndBuf - unacked
Input == inq > 0 \/ fin \/ reset

\* The events epoll finds when it looks at the socket.
Poll ==
  {e \in {"IN", "OUT", "ERR", "HUP"} :
     CASE e = "IN"  -> Input
       [] e = "OUT" -> writeOn /\ (Free > 0 \/ reset)
       [] e = "ERR" -> sockErr
       [] e = "HUP" -> reset}

\* Mutant: epoll is not told, and does not look at the socket.
EnableWritingUnseen(on) == writeOn' = on /\ ready' = ready

\* epoll_ctl(MOD) looks at the socket again and lists it if it finds an event.
EnableWriting(on) ==
  /\ writeOn' = on
  /\ ready' = (ready \/ Input \/ (on /\ unacked' < SndBuf))

\* The units of one iovec; base counts from the start of the buffer.
UnitsOf(v) == [i \in 1 .. v.len |-> <<v.msg, (v.base + i - 1) % Width>>]
Units(list) == FlattenSeq([i \in DOMAIN list |-> UnitsOf(list[i])])
Total(list) == Len(Units(list))

\* The socket takes the first n units of list.
Take(list, n) ==
  /\ wire' = wire \o SubSeq(Units(list), 1, n)
  /\ unacked' = unacked + n

\* Mutant: the buffer a write cuts gets shorter but does not advance.
RestInPlace(list, n) ==
  LET Before(i) == Total(SubSeq(list, 1, i))
      gone      == Max({i \in 0 .. Len(list) : Before(i) <= n})
  IN [i \in 1 .. Len(list) - gone |->
        IF i = 1 THEN [list[gone + 1] EXCEPT !.len = @ - (n - Before(gone))] ELSE list[gone + i]]

\* Mutant: a buffer leaves the list when a part of it is written.
RestGreedy(list, n) ==
  LET Before(i) == Total(SubSeq(list, 1, i))
      gone      == Max({i \in 0 .. Len(list) : i = 0 \/ Before(i - 1) < n})
  IN [i \in 1 .. Len(list) - gone |-> list[gone + i]]

\* What is left of list after n units: whole buffers go, the next one shrinks.
Rest(list, n) ==
  LET Before(i) == Total(SubSeq(list, 1, i))
      gone      == Max({i \in 0 .. Len(list) : Before(i) <= n})
      cut       == n - Before(gone)
  IN [i \in 1 .. Len(list) - gone |->
        IF i = 1 THEN [list[gone + 1] EXCEPT !.base = (@ + cut) % Width, !.len = @ - cut]
        ELSE list[gone + i]]

PeerSends ==
  /\ ~closed /\ ~fin /\ ~reset /\ chunks > 0
  /\ inq' = inq + 1 /\ chunks' = chunks - 1 /\ ready' = TRUE
  /\ UNCHANGED <<phase, ret, closed, ioVec, writeOn, fin, reset, sockErr, kernelOut,
                 due, completed, appVars>>

PeerCloses ==
  /\ ~closed /\ ~fin /\ ~reset
  /\ fin' = TRUE /\ ready' = TRUE
  /\ UNCHANGED <<phase, ret, closed, ioVec, writeOn, inq, chunks, reset, sockErr, kernelOut,
                 due, completed, appVars>>

PeerResets ==
  /\ ~closed /\ ~reset
  /\ reset' = TRUE /\ sockErr' = TRUE /\ ready' = TRUE
  /\ UNCHANGED <<phase, ret, closed, ioVec, writeOn, inq, chunks, fin, kernelOut,
                 due, completed, appVars>>

\* The peer acknowledges units.  Whoever asked for EPOLLOUT on a full buffer
\* (by a write that failed or by epoll looking at it) is told of the room.
PeerAcks ==
  /\ ~closed /\ ~reset /\ unacked > 0
  /\ unacked' \in 0 .. unacked - 1
  /\ ready' = (ready \/ (writeOn /\ Free = 0))
  /\ UNCHANGED <<phase, ret, closed, ioVec, writeOn, kernelIn, sockErr, wire, due,
                 completed, appVars>>

-----------------------------------------------------------------------------
(* The handlers of the connection, in the loop's thread.                   *)

\* OnClose: closed_, then close_cb_ takes the connection out of the loop and
\* Event::Close closes the descriptor.
OnClose == closed' = TRUE /\ ready' = FALSE

\* write_complete_cb_ runs, and then the caller goes on at back; from within a
\* callback it returns into that callback.
WriteComplete(back) ==
  /\ phase' = "callback" /\ ret' = (IF back = "callback" THEN ret ELSE back)
  /\ completed' = due'

\* The write of SendInLoop takes what there is room for; without room it
\* fails and size_t turns the -1 into Width - 1, which no test finds negative.
WriteLen(size) == IF Free > 0 /\ ~reset THEN (IF size < Free THEN size ELSE Free) ELSE Width - 1

\* A second write after the peer's reset raises SIGPIPE, which is not ignored;
\* so does the first one if the peer had closed before.
Killed == reset /\ (~sockErr \/ fin)

\* SendInLoop(buff, size) for message m, whose buffer is its first node.
SendInLoop(m, back) ==
  LET size == Nodes[m][1]
      n    == WriteLen(size)
      left == (size - n) % Width
      all  == <<[msg |-> m, base |-> 0, len |-> size]>>
  IN
  \/ /\ closed
     /\ phase' = back
     /\ UNCHANGED <<ret, closed, ioVec, writeOn, ready, sockErr, kernelOut, due, completed>>
  \/ /\ ~closed /\ ioVec = <<>> /\ Killed
     /\ phase' = "killed"
     /\ UNCHANGED <<ret, closed, ioVec, writeOn, ready, sockErr, kernelOut, due, completed>>
  \/ /\ ~closed /\ ioVec = <<>> /\ ~Killed
     /\ due' = due \o Units(all)
     /\ sockErr' = FALSE
     /\ IF n = Width - 1
        THEN UNCHANGED kernelOut
        ELSE Take(all, n)
     /\ IF left = 0
        THEN /\ WriteComplete(back)
             /\ UNCHANGED <<closed, ioVec, writeOn, ready>>
        ELSE /\ phase' = back
             /\ ioVec' = <<[msg |-> m, base |-> n, len |-> left]>>
             /\ UNCHANGED <<ret, closed, completed>>
             /\ EnableWriting(TRUE)
  \/ /\ ~closed /\ ioVec # <<>>
     /\ due' = due \o Units(all)
     /\ phase' = back
     /\ ioVec' = ioVec \o all
     /\ UNCHANGED <<ret, closed, sockErr, kernelOut, completed>>
     /\ EnableWriting(TRUE)

\* SendInLoop(list): every node is queued, nothing is written here.
SendListInLoop(m, back) ==
  LET all == [i \in DOMAIN Nodes[m] |-> [msg |-> <<m, i>>, base |-> 0, len |-> Nodes[m][i]]] IN
  \/ /\ closed
     /\ phase' = back
     /\ UNCHANGED <<ret, closed, ioVec, writeOn, ready, sockErr, kernelOut, due, completed>>
  \/ /\ ~closed
     /\ due' = due \o Units(all)
     /\ phase' = back
     /\ ioVec' = ioVec \o all
     /\ UNCHANGED <<ret, closed, sockErr, kernelOut, completed>>
     /\ EnableWriting(TRUE)

\* A message with one node goes through Send(buff, size), any other through
\* Send(list).
Deliver(m, back) ==
  IF Len(Nodes[m]) = 1 THEN SendInLoop(m, back) ELSE SendListInLoop(m, back)

\* Send or ForceClose in another thread: RunInLoop queues the task.
Post(m) ==
  /\ m \notin sent
  /\ sent' = sent \cup {m}
  /\ mail' = Append(mail, [send |-> TRUE, msg |-> m])
  /\ UNCHANGED <<phase, ret, closed, ioVec, writeOn, ready, kernelIn, sockErr, kernelOut,
                 due, completed>>

PostClose(m) ==
  /\ \A i \in DOMAIN mail : mail[i].send
  /\ mail' = Append(mail, [send |-> FALSE, msg |-> m])
  /\ UNCHANGED <<phase, ret, closed, ioVec, writeOn, ready, kernelIn, sockErr, kernelOut,
                 due, sent, completed>>

\* RunFunctions runs the oldest task.
RunTask ==
  /\ phase = "idle" /\ mail # <<>>
  /\ mail' = Tail(mail)
  /\ \/ Head(mail).send /\ Deliver(Head(mail).msg, "idle")
     \/ /\ ~Head(mail).send
        /\ OnClose
        /\ UNCHANGED <<phase, ret, ioVec, writeOn, sockErr, kernelOut, due, completed>>
  /\ UNCHANGED <<sent, kernelIn>>

\* The message or write-complete callback sends from the loop's thread.
CallbackSend(m) ==
  /\ phase = "callback" /\ m \notin sent
  /\ sent' = sent \cup {m}
  /\ Deliver(m, "callback")
  /\ UNCHANGED <<mail, kernelIn>>

\* The callback calls ForceClose, which closes at once.
CallbackClose ==
  /\ phase = "callback"
  /\ OnClose
  /\ UNCHANGED <<phase, ret, ioVec, writeOn, kernelIn, sockErr, kernelOut, due, completed, appVars>>

CallbackDone ==
  /\ phase = "callback"
  /\ phase' = ret
  /\ UNCHANGED <<ret, closed, ioVec, writeOn, ready, kernelIn, sockErr, kernelOut, due,
                 completed, appVars>>

\* Loop takes one report of epoll_wait and calls one handler.
Dispatch ==
  /\ phase = "idle" /\ ready
  /\ \/ /\ Poll = {}
        /\ ready' = FALSE
        /\ UNCHANGED <<phase, closed, sockErr>>
     \/ /\ "ERR" \in Poll \/ ("HUP" \in Poll /\ "IN" \notin Poll)
        /\ OnClose
        /\ sockErr' = FALSE
        /\ UNCHANGED phase
     \/ /\ "ERR" \notin Poll /\ "IN" \in Poll
        /\ phase' = "read" /\ ready' = FALSE
        /\ UNCHANGED <<closed, sockErr>>
     \/ /\ Poll = {"OUT"}
        /\ phase' = "write" /\ ready' = FALSE
        /\ UNCHANGED <<closed, sockErr>>
  /\ UNCHANGED <<ret, ioVec, writeOn, kernelIn, kernelOut, due, completed, appVars>>

\* Mutant: OnRead reads once and returns.
OnReadOnce ==
  /\ phase = "read"
  /\ IF ~closed /\ inq > 0
     THEN inq' = inq - 1 /\ phase' = "callback" /\ ret' = "idle"
     ELSE phase' = "idle" /\ UNCHANGED <<inq, ret>>
  /\ UNCHANGED <<closed, ready, sockErr, ioVec, writeOn, chunks, fin, reset, kernelOut, due,
                 completed, appVars>>

\* One round of OnRead: ReadFd and what its result leads to.
OnRead ==
  /\ phase = "read"
  /\ \/ /\ ~closed /\ inq > 0
        /\ inq' = inq - 1
        /\ phase' = "callback" /\ ret' = "read"
        /\ UNCHANGED <<closed, ready, sockErr>>
     \/ /\ ~closed /\ inq = 0 /\ (fin \/ reset)
        /\ OnClose
        /\ sockErr' = FALSE
        /\ phase' = "idle"
        /\ UNCHANGED <<inq, ret>>
     \/ /\ closed \/ (inq = 0 /\ ~fin /\ ~reset)
        /\ phase' = "idle"
        /\ UNCHANGED <<closed, ready, inq, ret, sockErr>>
  /\ UNCHANGED <<ioVec, writeOn, chunks, fin, reset, kernelOut, due, completed, appVars>>

\* One round of OnWrite: writev and what its result leads to.  The list is empty
\* only for a client that still has the EPOLLOUT of its Connect.
OnWrite ==
  LET n == IF Total(ioVec) < Free THEN Total(ioVec) ELSE Free IN
  /\ phase = "write"
  /\ \/ /\ ioVec = <<>>
        /\ UNCHANGED <<closed, ioVec, sockErr, kernelOut, due>>
        /\ EnableWriting(FALSE) /\ WriteComplete("idle")
     \/ /\ ~reset /\ n > 0
        /\ Take(ioVec, n)
        /\ ioVec' = Rest(ioVec, n)
        /\ due' = due
        /\ IF ioVec' = <<>>
           THEN EnableWriting(FALSE) /\ WriteComplete("idle")
           ELSE UNCHANGED <<phase, ret, writeOn, ready, completed>>
        /\ UNCHANGED <<closed, sockErr>>
     \/ /\ ioVec # <<>> /\ ~reset /\ n = 0
        /\ phase' = "idle"
        /\ UNCHANGED <<ret, closed, ioVec, writeOn, ready, sockErr, kernelOut, due, completed>>
     \/ /\ ioVec # <<>> /\ reset /\ ~Killed
        /\ OnClose
        /\ phase' = "idle" /\ sockErr' = FALSE
        /\ UNCHANGED <<ret, ioVec, writeOn, kernelOut, due, completed>>
     \/ /\ ioVec # <<>> /\ Killed
        /\ phase' = "killed"
        /\ UNCHANGED <<ret, closed, ioVec, writeOn, ready, sockErr, kernelOut, due, completed>>
  /\ UNCHANGED <<kernelIn, appVars>>

\* The idle timer of the wheel drops its TimeoutEntry: OnTimeout.
OnTimeout ==
  /\ phase = "idle" /\ ~closed
  /\ OnClose
  /\ UNCHANGED <<phase, ret, ioVec, writeOn, kernelIn, sockErr, kernelOut, due, completed, appVars>>

-----------------------------------------------------------------------------
Peer == PeerSends \/ PeerCloses \/ PeerResets \/ PeerAcks
App == \E m \in Messages : Post(m) \/ PostClose(m) \/ CallbackSend(m)
InLoop == RunTask \/ CallbackDone \/ Dispatch \/ OnRead \/ OnWrite

Next == phase # "killed" /\ (Peer \/ App \/ CallbackClose \/ InLoop \/ OnTimeout)

Safety == Init /\ [][Next]_vars

(***************************************************************************)
(* The loop goes on with its handlers, epoll's reports and the posted       *)
(* tasks, and the peer acknowledges what it was sent.  Nobody has to send,  *)
(* close or reset, and no callback has to do anything but return.           *)
(***************************************************************************)
Fairness ==
  /\ WF_vars(RunTask) /\ WF_vars(CallbackDone) /\ WF_vars(Dispatch)
  /\ WF_vars(OnRead) /\ WF_vars(OnWrite) /\ WF_vars(PeerAcks)

Spec == Safety /\ Fairness

-----------------------------------------------------------------------------
(* Properties.                                                             *)

\* The byte in front of the buffer.
IsStray(u) == u[2] = Width - 1
NoStrays(us) == FlattenSeq([i \in DOMAIN us |-> IF IsStray(us[i]) THEN <<>> ELSE <<us[i]>>])

\* Whatever partial writes, full buffers and callbacks come in between, what
\* the socket took followed by what is queued is what was handed over, every
\* unit once and in order, when stray bytes are left out.
StreamInOrder == ~closed => NoStrays(wire \o Units(ioVec)) = due

\* The comment on a write that fails for a while: nothing counts as sent and
\* the whole buffer is queued, that is, no stray bytes either.  Until the peer
\* resets the connection, a write fails only because the send buffer is full.
StreamIntact == ~closed /\ ~reset => wire \o Units(ioVec) = due

\* Edge-triggered input is read until the socket is empty: while the loop is
\* not in OnRead, unread input or a close of the peer is on the ready list.
InputReported ==
  (phase \in {"idle", "write"} /\ ~closed /\ (inq > 0 \/ fin \/ reset)) => ready

\* write_complete_cb_ runs only when the socket has taken all there was to send.
CompleteMeansWritten ==
  [][completed' # completed => NoStrays(wire') = completed' /\ ioVec' = <<>>]_vars

\* Queued output is written, unless the connection ends or the peer sends data
\* of its own: Loop passes a report of both on as input only, and epoll says
\* no more of the room for output until the peer acknowledges again.
OutputFlushed ==
  ioVec # <<>> ~> (ioVec = <<>> \/ closed \/ phase = "killed" \/ chunks < Chunks)
=============================================================================
