------------------------------ MODULE TcpClient ------------------------------
(***************************************************************************)
(* TcpConnection as its two owners use it: accepted by a server, or as       *)
(* network::TcpClient, which connects first.  While it connects, the first   *)
(* report of the socket goes to UpdateConnectionStatus instead of to the     *)
(* handlers of TcpConnection, and Send drops the message.                   *)
(*                                                                         *)
(* A TcpClient connects once: closed_ is never reset, so a second Connect    *)
(* makes a socket whose input and output nobody handles.                    *)
(***************************************************************************)
EXTENDS TcpConnection

VARIABLES
  status,  \* status_ of a client; "Accepted": not a client
  peer,    \* kernel: "none", "pending" (SYN sent) or "up"; refused is reset
  missed   \* history: input was reported by the report that ended Connecting

clientVars == <<vars, status, peer, missed>>

\* A step of TcpConnection; its OnClose is that of TcpClient.
Base(A) ==
  /\ A
  /\ status' = IF closed' /\ status # "Accepted" THEN "DisConnected" ELSE status
  /\ missed' = (missed /\ phase' # "read")
  /\ UNCHANGED peer

ClientInit ==
  /\ Init
  /\ status \in {"Accepted", "Init"}
  /\ peer = (IF status = "Accepted" THEN "up" ELSE "none")
  /\ missed = FALSE

IsUp == status \in {"Accepted", "Connected"}

-----------------------------------------------------------------------------
\* UpdateConnectionStatus: connected_cb_ runs.
UpdateConnectionStatus ==
  /\ status' = "Connected"
  /\ phase' = "callback" /\ ret' = "idle"

\* ConnectInLoop: connect succeeds at once, goes on, or fails for good (as
\* does the creation of the socket).  EPOLLOUT is asked for in any case.
ConnectInLoop ==
  /\ phase = "idle" /\ status = "Init"
  /\ \/ /\ UpdateConnectionStatus
        /\ peer' = "up" /\ writeOn' = TRUE /\ ready' = TRUE /\ UNCHANGED closed
     \/ /\ status' = "Connecting" /\ peer' = "pending"
        /\ writeOn' = TRUE /\ UNCHANGED <<phase, ret, ready, closed>>
     \/ /\ status' = "DisConnected" /\ OnClose
        /\ UNCHANGED <<phase, ret, peer, writeOn>>
  /\ UNCHANGED <<ioVec, kernelIn, sockErr, kernelOut, due, completed, appVars, missed>>

\* The server's kernel answers the SYN, which makes the socket writable, or
\* refuses it.
PeerAnswers ==
  /\ peer = "pending" /\ ~closed
  /\ ready' = TRUE
  /\ \/ peer' = "up" /\ UNCHANGED <<reset, sockErr>>
     \/ peer' = "none" /\ reset' = TRUE /\ sockErr' = TRUE
  /\ UNCHANGED <<phase, ret, closed, ioVec, writeOn, inq, chunks, fin, kernelOut, due, completed,
                 appVars, status, missed>>

\* Mutant: only a report of output ends the connecting phase.
FirstReportTwice ==
  /\ status = "Connecting" /\ phase = "idle" /\ ready
  /\ "ERR" \notin Poll /\ Poll # {}
  /\ IF Poll = {"OUT"} THEN UpdateConnectionStatus ELSE UNCHANGED <<status, phase, ret>>
  /\ ready' = FALSE /\ missed' = ("IN" \in Poll)
  /\ UNCHANGED <<closed, ioVec, writeOn, kernelIn, sockErr, kernelOut, due, completed, appVars, peer>>

\* OnRead or OnWrite while Connecting; what there is to read is not read.  An
\* error, of the report or found by CheckError, closes as in TcpConnection.
FirstReport ==
  /\ status = "Connecting" /\ phase = "idle" /\ ready
  /\ "ERR" \notin Poll /\ Poll # {}
  /\ UpdateConnectionStatus
  /\ ready' = FALSE /\ missed' = ("IN" \in Poll)
  /\ UNCHANGED <<closed, ioVec, writeOn, kernelIn, sockErr, kernelOut, due, completed, appVars, peer>>

\* Send looks at status_ in the caller's thread.
Send(m) ==
  \/ IsUp /\ Base(Post(m))
  \/ /\ ~IsUp /\ m \notin sent
     /\ sent' = sent \cup {m}
     /\ UNCHANGED <<phase, ret, closed, ioVec, writeOn, mail, ready, kernelIn, sockErr, kernelOut,
                    due, completed, status, peer, missed>>

LoopDispatch == (IsUp \/ "ERR" \in Poll \/ closed) /\ Base(Dispatch)

ClientNext ==
  /\ phase # "killed"
  /\ \/ ConnectInLoop \/ PeerAnswers \/ FirstReport \/ LoopDispatch
     \/ peer = "up" /\ Base(Peer)
     \/ IsUp /\ (Base(CallbackClose) \/ Base(OnTimeout))
     \/ \E m \in Messages : Send(m) \/ Base(PostClose(m)) \/ (IsUp /\ Base(CallbackSend(m)))
     \/ Base(RunTask) \/ Base(CallbackDone) \/ Base(OnRead) \/ Base(OnWrite)

\* The loop goes on and the other side's kernel answers and acknowledges.
ClientSpec ==
  /\ ClientInit /\ [][ClientNext]_clientVars
  /\ WF_clientVars(PeerAnswers) /\ WF_clientVars(FirstReport) /\ WF_clientVars(LoopDispatch)
  /\ WF_clientVars(Base(RunTask)) /\ WF_clientVars(Base(CallbackDone))
  /\ WF_clientVars(Base(OnRead)) /\ WF_clientVars(Base(OnWrite)) /\ WF_clientVars(peer = "up" /\ Base(PeerAcks))

-----------------------------------------------------------------------------
(* Properties.                                                             *)

\* Unread input is on the ready list, unless the server sent it so early that
\* the client's first report had it: that input waits for more.
InputKnown == missed \/ peer # "up" \/ InputReported

\* A connect that was begun ends: the answer of the server's kernel is reported
\* and found, whatever the server sends right after it.
ConnectEnds == status = "Connecting" ~> status \in {"Connected", "DisConnected"}
=============================================================================
