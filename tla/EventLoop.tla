------------------------------ MODULE EventLoop ------------------------------
(***************************************************************************)
(* The task queue of network::EventLoop: threads hand tasks to loops with   *)
(* RunInLoop, a pipe watched edge-triggered by epoll wakes the loop up, and *)
(* every iteration of Loop dispatches the ready events, runs the queued     *)
(* tasks under lock_ and gives the timing wheel its turn.                   *)
(*                                                                         *)
(* A loop stands for its object and for the thread that runs it.  A task   *)
(* makes at most one RunInLoop call itself (Spawn).  The I/O events other   *)
(* than the pipe's, and the timers, appear as the RunInLoop calls their     *)
(* callbacks make (HandlerCall).                                           *)
(***************************************************************************)
EXTENDS Integers, Sequences, FiniteSets, Functions

CONSTANTS
  Loops,       \* the event loops, each with its thread
  Posters,     \* the other threads that call RunInLoop
  Tasks,       \* the tasks; each is handed to RunInLoop at most once
  Spawn,       \* Spawn[t]: the RunInLoop call the body of t makes, or NoCall
  QuitLoops,   \* the loops somebody calls Quit on
  PageUnits,   \* wake-ups (4-byte writes) one page of the pipe holds
  Pages,       \* pages of the pipe: 16 of 4096 bytes on Linux
  NoCall, NoThread, NoLoop

Threads == Loops \cup Posters
Calls == [loop : Loops, task : Tasks]
PipeCap == Pages * PageUnits

\* The tasks nobody's body hands over: the ones threads and handlers start.
Roots == {t \in Tasks : \A p \in Tasks : Spawn[p] # NoCall => Spawn[p].task # t}

ASSUME ThreadsAssumption ==
  /\ Loops \cap Posters = {}
  /\ NoThread \notin Threads
  /\ NoLoop \notin Loops
  /\ NoCall \notin Calls
ASSUME SpawnAssumption ==
  /\ Spawn \in [Tasks -> Calls \cup {NoCall}]
  /\ \A p, q \in Tasks :
       (Spawn[p] # NoCall /\ Spawn[q] # NoCall /\ Spawn[p].task = Spawn[q].task) => p = q
ASSUME PipeAssumption ==
  /\ PageUnits \in Nat \ {0}
  /\ Pages \in Nat \ {0}
ASSUME QuitAssumption == QuitLoops \subseteq Loops

VARIABLES
  pc,          \* pc[th]: where thread th is
  call,        \* call[th]: the RunInLoop call th is in, or NoCall
  ret,         \* ret[th]: where th goes on after that call
  looping,     \* looping[l]: looping_
  lock,        \* lock[l]: the thread that holds lock_, or NoThread
  functions,   \* functions[l]: functions_, oldest first
  pipeOpen,    \* pipeOpen[l]: pipe_event_ exists and is in events_
  unread,      \* unread[l]: wake-ups written to the pipe and not read
  consumed,    \* consumed[l]: wake-ups read from the pipe's first page
  edge,        \* edge[l]: the pipe is on epoll's ready list
  want,        \* history: want[t], the loop t was handed to
  posted,      \* history: posted[l], the tasks queued on l, in order
  ran,         \* history: ran[l], the queued tasks l began, in order
  direct       \* history: direct[l], the tasks l ran without queueing

loopVars == <<looping>>
queueVars == <<functions, posted>>
pipeVars == <<pipeOpen, unread, consumed, edge>>
doneVars == <<ran, direct>>
callVars == <<call, ret, want>>
vars == <<pc, call, ret, looping, lock, functions, pipeOpen, unread, consumed,
          edge, want, posted, ran, direct>>

\* Where a thread is inside RunInLoop, and where it holds the target's lock_.
HoldPcs == {"push", "open", "write"}
CallPcs == {"call"} \cup HoldPcs
LoopPcs == {"start", "check", "wait", "read", "dispatch", "lock", "run", "pop",
            "timer", "exit"} \cup CallPcs

Goto(th, place) == pc' = [pc EXCEPT ![th] = place]

Init ==
  /\ pc = [th \in Threads |-> IF th \in Loops THEN "start" ELSE "idle"]
  /\ call = [th \in Threads |-> NoCall]
  /\ ret = [th \in Threads |-> "idle"]
  /\ looping = [l \in Loops |-> FALSE]
  /\ lock = [l \in Loops |-> NoThread]
  /\ functions = [l \in Loops |-> <<>>]
  /\ pipeOpen = [l \in Loops |-> FALSE]
  /\ unread = [l \in Loops |-> 0]
  /\ consumed = [l \in Loops |-> 0]
  /\ edge = [l \in Loops |-> FALSE]
  /\ want = [t \in Tasks |-> NoLoop]
  /\ posted = [l \in Loops |-> <<>>]
  /\ ran = [l \in Loops |-> <<>>]
  /\ direct = [l \in Loops |-> {}]

-----------------------------------------------------------------------------
(* RunInLoop, in the thread th that calls it.                              *)

\* th enters RunInLoop with call c and goes on at back once it returns.
StartCall(th, c, back) ==
  /\ Goto(th, "call")
  /\ call' = [call EXCEPT ![th] = c]
  /\ ret' = [ret EXCEPT ![th] = back]
  /\ want' = [want EXCEPT ![c.task] = c.loop]

\* The body of task t, run by th: at most one RunInLoop call.
Body(th, t, back) ==
  \/ /\ Spawn[t] = NoCall
     /\ Goto(th, back)
     /\ call' = [call EXCEPT ![th] = NoCall]
     /\ UNCHANGED <<ret, want>>
  \/ /\ Spawn[t] # NoCall
     /\ StartCall(th, Spawn[t], back)

\* A thread without a loop calls RunInLoop.
PosterCall(th, l, t) ==
  /\ pc[th] = "idle"
  /\ t \in Roots /\ want[t] = NoLoop
  /\ StartCall(th, [loop |-> l, task |-> t], "idle")
  /\ UNCHANGED <<loopVars, lock, queueVars, pipeVars, doneVars>>

\* The callback of an I/O event or of a timer of loop th calls RunInLoop.
HandlerCall(th, l, t) ==
  /\ pc[th] \in {"dispatch", "timer"}
  /\ t \in Roots /\ want[t] = NoLoop
  /\ StartCall(th, [loop |-> l, task |-> t], pc[th])
  /\ UNCHANGED <<loopVars, lock, queueVars, pipeVars, doneVars>>

\* IsInLoopThread(): the task runs in the caller, without the queue.
CallDirect(th) ==
  /\ pc[th] = "call" /\ call[th].loop = th
  /\ direct' = [direct EXCEPT ![th] = @ \cup {call[th].task}]
  /\ Body(th, call[th].task, ret[th])
  /\ UNCHANGED <<loopVars, lock, queueVars, pipeVars, ran>>

\* The lock_guard of RunInLoop.
CallLock(th) ==
  /\ pc[th] = "call" /\ call[th].loop # th
  /\ lock[call[th].loop] = NoThread
  /\ lock' = [lock EXCEPT ![call[th].loop] = th]
  /\ Goto(th, "push")
  /\ UNCHANGED <<callVars, loopVars, queueVars, pipeVars, doneVars>>

\* Mutant: the task is pushed in front of those that wait.
CallPushFront(th) ==
  LET l == call[th].loop IN
  /\ pc[th] = "push"
  /\ functions' = [functions EXCEPT ![l] = <<call[th].task>> \o @]
  /\ posted' = [posted EXCEPT ![l] = Append(@, call[th].task)]
  /\ Goto(th, IF pipeOpen[l] THEN "write" ELSE "open")
  /\ UNCHANGED <<callVars, loopVars, lock, pipeVars, doneVars>>

CallPush(th) ==
  LET l == call[th].loop IN
  /\ pc[th] = "push"
  /\ functions' = [functions EXCEPT ![l] = Append(@, call[th].task)]
  /\ posted' = [posted EXCEPT ![l] = Append(@, call[th].task)]
  /\ Goto(th, IF pipeOpen[l] THEN "write" ELSE "open")
  /\ UNCHANGED <<callVars, loopVars, lock, pipeVars, doneVars>>

\* The first WakeUp creates the pipe and adds it to events_ and to epoll.
CallOpen(th) ==
  /\ pc[th] = "open"
  /\ pipeOpen' = [pipeOpen EXCEPT ![call[th].loop] = TRUE]
  /\ Goto(th, "write")
  /\ UNCHANGED <<callVars, loopVars, lock, queueVars, unread, consumed, edge, doneVars>>

\* The pipe takes no write: a page is free again only when all of it is read.
PipeFull(l) == unread[l] + consumed[l] >= PipeCap

\* The non-blocking write to the pipe; its failure is ignored.  A write that
\* succeeds puts the pipe on epoll's ready list.
WriteWakeUp(l) ==
  \/ /\ ~PipeFull(l)
     /\ unread' = [unread EXCEPT ![l] = @ + 1]
     /\ edge' = [edge EXCEPT ![l] = TRUE]
  \/ /\ PipeFull(l)
     /\ UNCHANGED <<unread, edge>>

\* WakeUp writes, then the lock_guard is released and RunInLoop returns.
CallWrite(th) ==
  LET l == call[th].loop IN
  /\ pc[th] = "write"
  /\ WriteWakeUp(l)
  /\ lock' = [lock EXCEPT ![l] = NoThread]
  /\ Goto(th, ret[th])
  /\ call' = [call EXCEPT ![th] = NoCall]
  /\ UNCHANGED <<ret, want, loopVars, queueVars, pipeOpen, consumed, doneVars>>

-----------------------------------------------------------------------------
(* Loop, in the thread of loop l.                                          *)

LoopStart(l) ==
  /\ pc[l] = "start"
  /\ looping' = [looping EXCEPT ![l] = TRUE]
  /\ Goto(l, "check")
  /\ UNCHANGED <<callVars, lock, queueVars, pipeVars, doneVars>>

LoopCheck(l) ==
  /\ pc[l] = "check"
  /\ Goto(l, IF looping[l] THEN "wait" ELSE "exit")
  /\ UNCHANGED <<callVars, loopVars, lock, queueVars, pipeVars, doneVars>>

\* epoll drops a ready entry whose file has nothing to read.
PipeReady(l) == edge[l] /\ unread[l] > 0

\* epoll_wait reports the pipe, once for this edge.
EpollPipe(l) ==
  /\ pc[l] = "wait" /\ PipeReady(l)
  /\ edge' = [edge EXCEPT ![l] = FALSE]
  /\ Goto(l, "read")
  /\ UNCHANGED <<callVars, loopVars, lock, queueVars, pipeOpen, unread, consumed, doneVars>>

\* epoll_wait reports other events only, or its 1000 ms are over.
EpollOther(l) ==
  /\ pc[l] = "wait" /\ ~PipeReady(l)
  /\ edge' = [edge EXCEPT ![l] = FALSE]
  /\ Goto(l, "dispatch")
  /\ UNCHANGED <<callVars, loopVars, lock, queueVars, pipeOpen, unread, consumed, doneVars>>

\* Mutant: a failed epoll_wait has taken the pipe off the ready list.
EpollErrorForgets(l) ==
  /\ pc[l] = "wait"
  /\ edge' = [edge EXCEPT ![l] = FALSE]
  /\ Goto(l, "check")
  /\ UNCHANGED <<callVars, loopVars, lock, queueVars, pipeOpen, unread, consumed, doneVars>>

\* epoll_wait fails (EINTR): no dispatch, no tasks, no timers this time.
EpollError(l) ==
  /\ pc[l] = "wait"
  /\ Goto(l, "check")
  /\ UNCHANGED <<callVars, loopVars, lock, queueVars, pipeVars, doneVars>>

\* Mutant: the read counts as 8 bytes even if the pipe holds 4.
ReadSizeFull(l) == IF unread[l] = 0 THEN 0 ELSE 2

\* PipeEvent::OnRead takes 8 bytes, two wake-ups, whatever the pipe holds.
ReadSize(l) == IF unread[l] < 2 THEN unread[l] ELSE 2

ReadPipe(l) ==
  /\ pc[l] = "read"
  /\ unread' = [unread EXCEPT ![l] = @ - ReadSize(l)]
  /\ consumed' = [consumed EXCEPT ![l] =
                    IF unread[l] = ReadSize(l) THEN 0 ELSE (@ + ReadSize(l)) % PageUnits]
  /\ Goto(l, "dispatch")
  /\ UNCHANGED <<callVars, loopVars, lock, queueVars, pipeOpen, edge, doneVars>>

DispatchDone(l) ==
  /\ pc[l] = "dispatch"
  /\ Goto(l, "lock")
  /\ UNCHANGED <<callVars, loopVars, lock, queueVars, pipeVars, doneVars>>

\* Mutant: RunFunctions goes on without waiting for lock_.
RunLockFree(l) ==
  /\ pc[l] = "lock"
  /\ lock' = [lock EXCEPT ![l] = l]
  /\ Goto(l, "run")
  /\ UNCHANGED <<callVars, loopVars, queueVars, pipeVars, doneVars>>

\* RunFunctions: lock_ is held while every queued task runs.
RunLock(l) ==
  /\ pc[l] = "lock"
  /\ lock[l] = NoThread
  /\ lock' = [lock EXCEPT ![l] = l]
  /\ Goto(l, "run")
  /\ UNCHANGED <<callVars, loopVars, queueVars, pipeVars, doneVars>>

\* The front task runs before it is popped.
RunFront(l) ==
  /\ pc[l] = "run" /\ functions[l] # <<>>
  /\ ran' = [ran EXCEPT ![l] = Append(@, Head(functions[l]))]
  /\ Body(l, Head(functions[l]), "pop")
  /\ UNCHANGED <<loopVars, lock, queueVars, pipeVars, direct>>

\* Mutant: the loop pops the newest task instead of the one it ran.
RunPopLast(l) ==
  /\ pc[l] = "pop"
  /\ functions' = [functions EXCEPT ![l] = SubSeq(@, 1, Len(@) - 1)]
  /\ Goto(l, "run")
  /\ UNCHANGED <<callVars, loopVars, lock, posted, pipeVars, doneVars>>

\* Mutant: the queue is cleared after one task.
RunPopAll(l) ==
  /\ pc[l] = "pop"
  /\ functions' = [functions EXCEPT ![l] = <<>>]
  /\ Goto(l, "run")
  /\ UNCHANGED <<callVars, loopVars, lock, posted, pipeVars, doneVars>>

RunPop(l) ==
  /\ pc[l] = "pop"
  /\ functions' = [functions EXCEPT ![l] = Tail(@)]
  /\ Goto(l, "run")
  /\ UNCHANGED <<callVars, loopVars, lock, posted, pipeVars, doneVars>>

\* Mutant: RunFunctions waits for more tasks with lock_ held.
RunDoneWaits(l) ==
  /\ pc[l] = "run" /\ functions[l] = <<>>
  /\ UNCHANGED vars

RunDone(l) ==
  /\ pc[l] = "run" /\ functions[l] = <<>>
  /\ lock' = [lock EXCEPT ![l] = NoThread]
  /\ Goto(l, "timer")
  /\ UNCHANGED <<callVars, loopVars, queueVars, pipeVars, doneVars>>

\* wheel_.OnTimer(now) is over; its callbacks are HandlerCall steps.
TimerDone(l) ==
  /\ pc[l] = "timer"
  /\ Goto(l, "check")
  /\ UNCHANGED <<callVars, loopVars, lock, queueVars, pipeVars, doneVars>>

\* Quit, from any thread: a store without a lock and without a wake-up.
Quit(l) ==
  /\ l \in QuitLoops /\ looping[l]
  /\ looping' = [looping EXCEPT ![l] = FALSE]
  /\ UNCHANGED <<pc, callVars, lock, queueVars, pipeVars, doneVars>>

-----------------------------------------------------------------------------
InCall(th) ==
  CallDirect(th) \/ CallLock(th) \/ CallPush(th) \/ CallOpen(th) \/ CallWrite(th)

EpollReturn(l) == EpollPipe(l) \/ EpollOther(l)

InLoop(l) ==
  \/ LoopStart(l) \/ LoopCheck(l) \/ EpollReturn(l) \/ ReadPipe(l)
  \/ DispatchDone(l) \/ RunLock(l) \/ RunFront(l) \/ RunPop(l) \/ RunDone(l)
  \/ TimerDone(l)

Next ==
  \/ \E th \in Threads : InCall(th)
  \/ \E th \in Posters, l \in Loops, t \in Tasks : PosterCall(th, l, t)
  \/ \E th \in Loops, l \in Loops, t \in Tasks : HandlerCall(th, l, t)
  \/ \E l \in Loops : InLoop(l) \/ EpollError(l) \/ Quit(l)

Safety == Init /\ [][Next]_vars

(***************************************************************************)
(* The scheduler runs every thread that can step.  epoll_wait returns after *)
(* 1000 ms at the latest and signals do not interrupt it for ever, and a    *)
(* thread that waits for lock_ gets it if it is free again and again: both  *)
(* are strong fairness.  No fairness on PosterCall, HandlerCall,            *)
(* EpollError and Quit: nobody has to call, nothing has to fail.            *)
(***************************************************************************)
Fairness ==
  /\ \A th \in Threads : WF_vars(InCall(th)) /\ SF_vars(CallLock(th))
  /\ \A l \in Loops : WF_vars(InLoop(l)) /\ SF_vars(EpollReturn(l)) /\ SF_vars(RunLock(l))

Spec == Safety /\ Fairness

-----------------------------------------------------------------------------
(* Properties.                                                             *)

\* Every variable keeps its type.
TypeOK ==
  /\ pc \in [Threads -> LoopPcs \cup {"idle"}]
  /\ call \in [Threads -> Calls \cup {NoCall}]
  /\ ret \in [Threads -> {"idle", "dispatch", "timer", "pop"}]
  /\ looping \in [Loops -> BOOLEAN]
  /\ lock \in [Loops -> Threads \cup {NoThread}]
  /\ functions \in [Loops -> Seq(Tasks)]
  /\ pipeOpen \in [Loops -> BOOLEAN]
  /\ unread \in [Loops -> Nat]
  /\ consumed \in [Loops -> Nat]
  /\ edge \in [Loops -> BOOLEAN]
  /\ want \in [Tasks -> Loops \cup {NoLoop}]
  /\ posted \in [Loops -> Seq(Tasks)]
  /\ ran \in [Loops -> Seq(Tasks)]
  /\ direct \in [Loops -> SUBSET Tasks]

\* The loop is inside the front task, or has run it and not popped it yet.
FrontRan(l) == pc[l] = "pop" \/ (pc[l] \in CallPcs /\ ret[l] = "pop")

\* The queued tasks that have not begun.
Pending(l) == IF FrontRan(l) THEN Tail(functions[l]) ELSE functions[l]

\* Threads that work on functions_ of l, and so must hold its lock_.
InQueueOf(th, l) ==
  \/ th = l /\ (pc[l] = "run" \/ FrontRan(l))
  \/ th # l /\ pc[th] \in HoldPcs /\ call[th].loop = l

\* functions_ is touched by one thread at a time, the one that holds lock_:
\* RunFunctions keeps a reference to the front task while the task runs, so a
\* push in between would be a race.
OneAtTheQueue == \A l \in Loops, th \in Threads : InQueueOf(th, l) <=> lock[l] = th

\* No task is lost, run twice or overtaken: what was queued on a loop is what
\* it ran followed by what it still has to run, in that order.
QueueOrder == \A l \in Loops : posted[l] = ran[l] \o Pending(l)

\* A poster between its push and its wake-up.
WakeUpPending(l) ==
  \E th \in Threads : pc[th] \in {"open", "write"} /\ call[th].loop = l

\* A loop that will not look at functions_ before its next epoll_wait.
PastTheQueue(l) == pc[l] \in {"timer", "check", "wait"}
                   \/ (pc[l] \in CallPcs /\ ret[l] = "timer")

\* A loop does not go to sleep on queued tasks: if it is past RunFunctions and
\* tasks are queued, epoll will report the pipe at once, unless a poster is
\* about to write its wake-up, or the pipe was full and the write was dropped.
WakeUpNotLost ==
  \A l \in Loops :
    (PastTheQueue(l) /\ functions[l] # <<>>)
      => PipeReady(l) \/ WakeUpPending(l) \/ PipeFull(l)

\* The queue with its lock, its wake-ups and its front task that stays in
\* functions_ while it runs implements TaskQueue.
Queue == INSTANCE TaskQueue WITH pending <- [l \in Loops |-> Pending(l)]
QueueSpec == Queue!Spec

Begun(t) == \E l \in Loops : t \in Range(ran[l]) \cup direct[l]

\* A task handed to a loop is begun in the end, even when the wake-up was
\* dropped, unless the loop has left Loop.
EveryTaskRuns ==
  \A t \in Tasks :
    want[t] # NoLoop ~> (Begun(t) \/ \E l \in Loops : want[t] = l /\ pc[l] = "exit")

\* RunInLoop returns: a thread that enters it comes out.
RunInLoopReturns ==
  \A th \in Threads : pc[th] \in CallPcs ~> pc[th] \notin CallPcs
=============================================================================
