--------------------------- MODULE EventLoopProofs ---------------------------
(***************************************************************************)
(* Proofs about EventLoop: its safety properties and that it implements     *)
(* TaskQueue, for any loops, threads and tasks.  Places says where a thread *)
(* can be and FrontThere that RunFunctions works on a task that is still in *)
(* functions_; with them the type, the lock, the order and the wake-up are  *)
(* inductive, one lemma per conjunct and in it one step per action.  Apart  *)
(* and Uncalled say that a task is in one place, which TaskQueue asks of a  *)
(* task before it is queued or run.                                         *)
(***************************************************************************)
EXTENDS EventLoop, SequenceTheorems, TLAPS

\* Where each kind of thread can be, and what it carries there.
Places ==
  /\ \A th \in Posters : pc[th] \in CallPcs \cup {"idle"}
  /\ \A l \in Loops : pc[l] \in LoopPcs
  /\ \A th \in Threads : pc[th] \in CallPcs => call[th] \in Calls
  /\ \A th \in Threads : pc[th] \in HoldPcs => call[th].loop # th
  /\ \A th \in Posters : pc[th] \in CallPcs => ret[th] = "idle"
  /\ \A l \in Loops : pc[l] \in CallPcs => ret[l] \in {"dispatch", "timer", "pop"}

\* The front task stays in functions_ until it is popped.
FrontThere == \A l \in Loops : FrontRan(l) => functions[l] # <<>>

\* A call is a loop and a task, and what a task spawns is a call.
LEMMA CallType ==
  /\ \A c \in Calls : c.loop \in Loops /\ c.task \in Tasks
  /\ \A l \in Loops, t \in Tasks :
       /\ [loop |-> l, task |-> t] \in Calls
       /\ [loop |-> l, task |-> t].loop = l /\ [loop |-> l, task |-> t].task = t
  /\ \A t \in Tasks : Spawn[t] # NoCall => Spawn[t] \in Calls
BY SpawnAssumption DEF Calls

\* What running a task's body changes.
LEMMA BodyChanges ==
  ASSUME TypeOK, NEW th \in Threads, NEW t \in Tasks,
         NEW back \in {"idle", "dispatch", "timer", "pop"}, Body(th, t, back)
  PROVE  /\ pc' = [pc EXCEPT ![th] = IF Spawn[t] = NoCall THEN back ELSE "call"]
         /\ call' = [call EXCEPT ![th] = Spawn[t]]
         /\ Spawn[t] # NoCall => ret' = [ret EXCEPT ![th] = back]
         /\ Spawn[t] = NoCall => ret' = ret
         /\ Spawn[t] \in Calls \cup {NoCall}
         /\ pc' \in [Threads -> LoopPcs \cup {"idle"}]
         /\ call' \in [Threads -> Calls \cup {NoCall}]
         /\ ret' \in [Threads -> {"idle", "dispatch", "timer", "pop"}]
         /\ want' \in [Tasks -> Loops \cup {NoLoop}]
<1>1. Spawn[t] \in Calls \cup {NoCall}
  BY SpawnAssumption
<1>2. CASE Spawn[t] = NoCall
  BY <1>1, <1>2 DEF Body, StartCall, Goto, TypeOK, LoopPcs, CallPcs
<1>3. CASE Spawn[t] # NoCall
  <2>1. /\ Goto(th, "call") /\ call' = [call EXCEPT ![th] = Spawn[t]]
        /\ ret' = [ret EXCEPT ![th] = back]
        /\ want' = [want EXCEPT ![Spawn[t].task] = Spawn[t].loop]
    BY <1>3 DEF Body, StartCall
  <2>2. Spawn[t] \in Calls /\ Spawn[t].loop \in Loops /\ Spawn[t].task \in Tasks
    BY <1>3, CallType
  <2>3. want' \in [Tasks -> Loops \cup {NoLoop}]
    BY <2>1, <2>2 DEF TypeOK
  <2> QED BY <1>1, <1>3, <2>1, <2>2, <2>3 DEF Goto, TypeOK, LoopPcs, CallPcs
<1> QED BY <1>2, <1>3

\* Every step of a thread keeps the types.
LEMMA TypeStep == TypeOK /\ Places /\ FrontThere /\ [Next]_vars => TypeOK'
<1> SUFFICES ASSUME TypeOK, Places, FrontThere, [Next]_vars PROVE TypeOK'
  OBVIOUS
<1> USE DEF TypeOK, CallPcs, HoldPcs, LoopPcs, Threads, callVars, loopVars, queueVars, pipeVars, doneVars
<1>1. ASSUME NEW th \in Threads, CallDirect(th) PROVE TypeOK'
  <2>1. call[th] \in Calls /\ call[th].loop = th /\ call[th].task \in Tasks
    BY <1>1, CallType DEF CallDirect, Places
  <2>2. ret[th] \in {"idle", "dispatch", "timer", "pop"}
    OBVIOUS
  <2>3. Body(th, call[th].task, ret[th])
    BY <1>1 DEF CallDirect
  <2>4. /\ pc' \in [Threads -> LoopPcs \cup {"idle"}]
        /\ call' \in [Threads -> Calls \cup {NoCall}]
        /\ ret' \in [Threads -> {"idle", "dispatch", "timer", "pop"}]
        /\ want' \in [Tasks -> Loops \cup {NoLoop}]
    <3> HIDE DEF TypeOK, CallPcs, HoldPcs, LoopPcs, Threads
    <3> QED BY <2>1, <2>2, <2>3, BodyChanges
  <2>5. direct' \in [Loops -> SUBSET Tasks]
    BY <1>1, <2>1 DEF CallDirect
  <2> QED BY <1>1, <2>4, <2>5 DEF CallDirect
<1>2. ASSUME NEW th \in Threads, CallLock(th) PROVE TypeOK'
  BY <1>2 DEF CallLock, Goto, Places
<1>3. ASSUME NEW th \in Threads, CallPush(th) PROVE TypeOK'
  BY SMTT(60), <1>3, CallType DEF CallPush, Goto, Places
<1>4. ASSUME NEW th \in Threads, CallOpen(th) PROVE TypeOK'
  BY <1>4 DEF CallOpen, Goto, Places
<1>5. ASSUME NEW th \in Threads, CallWrite(th) PROVE TypeOK'
  <2>1. call[th] \in Calls /\ call[th].loop \in Loops
    BY <1>5, CallType DEF CallWrite, Places
  <2>2. unread' \in [Loops -> Nat] /\ edge' \in [Loops -> BOOLEAN]
    <3>1. CASE PipeFull(call[th].loop)
      BY <1>5, <2>1, <3>1 DEF CallWrite, WriteWakeUp
    <3>2. CASE ~PipeFull(call[th].loop)
      <4>1. /\ unread' = [unread EXCEPT ![call[th].loop] = @ + 1]
            /\ edge' = [edge EXCEPT ![call[th].loop] = TRUE]
        BY <1>5, <3>2 DEF CallWrite, WriteWakeUp
      <4>2. unread' \in [Loops -> Nat]
        BY <2>1, <4>1
      <4>3. edge' \in [Loops -> BOOLEAN]
        BY <2>1, <4>1
      <4> QED BY <4>2, <4>3
    <3> QED BY <3>1, <3>2
  <2> QED BY <1>5, <2>1, <2>2 DEF CallWrite, Goto
<1>6. ASSUME NEW th \in Posters, NEW l \in Loops, NEW t \in Tasks, PosterCall(th, l, t) PROVE TypeOK'
  BY <1>6, CallType DEF PosterCall, StartCall, Goto
<1>7. ASSUME NEW th \in Loops, NEW l \in Loops, NEW t \in Tasks, HandlerCall(th, l, t) PROVE TypeOK'
  BY <1>7, CallType DEF HandlerCall, StartCall, Goto
<1>8. ASSUME NEW l \in Loops, LoopStart(l) PROVE TypeOK'
  BY <1>8 DEF LoopStart, Goto
<1>9. ASSUME NEW l \in Loops, LoopCheck(l) PROVE TypeOK'
  BY <1>9 DEF LoopCheck, Goto
<1>10. ASSUME NEW l \in Loops, EpollPipe(l) PROVE TypeOK'
  BY <1>10 DEF EpollPipe, Goto
<1>11. ASSUME NEW l \in Loops, EpollOther(l) PROVE TypeOK'
  BY <1>11 DEF EpollOther, Goto
<1>12. ASSUME NEW l \in Loops, ReadPipe(l) PROVE TypeOK'
  <2>1. unread[l] - ReadSize(l) \in Nat /\ ReadSize(l) \in Nat
    BY DEF ReadSize
  <2>2. (consumed[l] + ReadSize(l)) % PageUnits \in Nat
    BY <2>1, PipeAssumption
  <2> QED BY <1>12, <2>1, <2>2 DEF ReadPipe, Goto
<1>13. ASSUME NEW l \in Loops, DispatchDone(l) PROVE TypeOK'
  BY <1>13 DEF DispatchDone, Goto
<1>14. ASSUME NEW l \in Loops, RunLock(l) PROVE TypeOK'
  BY <1>14 DEF RunLock, Goto
<1>15. ASSUME NEW l \in Loops, RunFront(l) PROVE TypeOK'
  <2>1. Head(functions[l]) \in Tasks
    BY <1>15, HeadTailProperties DEF RunFront
  <2>2. Body(l, Head(functions[l]), "pop")
    BY <1>15 DEF RunFront
  <2>3. /\ pc' \in [Threads -> LoopPcs \cup {"idle"}]
        /\ call' \in [Threads -> Calls \cup {NoCall}]
        /\ ret' \in [Threads -> {"idle", "dispatch", "timer", "pop"}]
        /\ want' \in [Tasks -> Loops \cup {NoLoop}]
    BY <2>1, <2>2, BodyChanges
  <2>4. ran' \in [Loops -> Seq(Tasks)]
    BY <1>15, <2>1 DEF RunFront
  <2> QED BY <1>15, <2>3, <2>4 DEF RunFront
<1>16. ASSUME NEW l \in Loops, RunPop(l) PROVE TypeOK'
  <2>1. Tail(functions[l]) \in Seq(Tasks)
    BY <1>16, HeadTailProperties DEF RunPop, FrontThere, FrontRan
  <2> QED BY <1>16, <2>1 DEF RunPop, Goto
<1>17. ASSUME NEW l \in Loops, RunDone(l) PROVE TypeOK'
  BY <1>17 DEF RunDone, Goto
<1>18. ASSUME NEW l \in Loops, TimerDone(l) PROVE TypeOK'
  BY <1>18 DEF TimerDone, Goto
<1>19. ASSUME NEW l \in Loops, EpollError(l) PROVE TypeOK'
  BY <1>19 DEF EpollError, Goto
<1>20. ASSUME NEW l \in Loops, Quit(l) PROVE TypeOK'
  BY <1>20 DEF Quit
<1>21. CASE UNCHANGED vars
  BY <1>21 DEF vars
<1> QED
  BY <1>1, <1>2, <1>3, <1>4, <1>5, <1>6, <1>7, <1>8, <1>9, <1>10, <1>11, <1>12, <1>13, <1>14, <1>15, <1>16, <1>17, <1>18, <1>19, <1>20, <1>21
  DEF Next, InCall, InLoop, EpollReturn

\* Threads stay in their places.
LEMMA PlacesStep == TypeOK /\ Places /\ FrontThere /\ [Next]_vars => Places'
<1> SUFFICES ASSUME TypeOK, Places, FrontThere, [Next]_vars PROVE Places'
  OBVIOUS
<1> USE DEF CallPcs, HoldPcs, LoopPcs, Threads, callVars, loopVars, queueVars, pipeVars, doneVars
<1>1. ASSUME NEW th \in Threads, CallDirect(th) PROVE Places'
  <2>1. call[th] \in Calls /\ call[th].task \in Tasks /\ th \in Loops
    BY <1>1, CallType DEF CallDirect, Places
  <2>2. Body(th, call[th].task, ret[th]) /\ ret[th] \in {"idle", "dispatch", "timer", "pop"}
    BY <1>1 DEF CallDirect, TypeOK
  <2>3. /\ pc' = [pc EXCEPT ![th] = IF Spawn[call[th].task] = NoCall THEN ret[th] ELSE "call"]
        /\ call' = [call EXCEPT ![th] = Spawn[call[th].task]]
        /\ Spawn[call[th].task] # NoCall => ret' = [ret EXCEPT ![th] = ret[th]]
        /\ Spawn[call[th].task] = NoCall => ret' = ret
        /\ Spawn[call[th].task] \in Calls \cup {NoCall}
    <3> HIDE DEF CallPcs, HoldPcs, LoopPcs, Threads
    <3> QED BY <2>1, <2>2, BodyChanges DEF Threads
  <2> QED BY SMTT(60), <1>1, <2>1, <2>2, <2>3, ThreadsAssumption DEF CallDirect, Places, TypeOK
<1>2. ASSUME NEW th \in Threads, CallLock(th) PROVE Places'
  BY SMTT(60), <1>2, ThreadsAssumption DEF CallLock, Goto, Places, TypeOK
<1>3. ASSUME NEW th \in Threads, CallPush(th) PROVE Places'
  BY SMTT(60), <1>3, ThreadsAssumption DEF CallPush, Goto, Places, TypeOK
<1>4. ASSUME NEW th \in Threads, CallOpen(th) PROVE Places'
  BY SMTT(60), <1>4, ThreadsAssumption DEF CallOpen, Goto, Places, TypeOK
<1>5. ASSUME NEW th \in Threads, CallWrite(th) PROVE Places'
  BY SMTT(60), <1>5, ThreadsAssumption DEF CallWrite, WriteWakeUp, Goto, Places, TypeOK
<1>6. ASSUME NEW th \in Posters, NEW l \in Loops, NEW t \in Tasks, PosterCall(th, l, t) PROVE Places'
  BY <1>6, ThreadsAssumption, CallType DEF PosterCall, StartCall, Goto, Places, TypeOK
<1>7. ASSUME NEW th \in Loops, NEW l \in Loops, NEW t \in Tasks, HandlerCall(th, l, t) PROVE Places'
  BY <1>7, ThreadsAssumption, CallType DEF HandlerCall, StartCall, Goto, Places, TypeOK
<1>8. ASSUME NEW l \in Loops, LoopStart(l) PROVE Places'
  BY SMTT(60), <1>8, ThreadsAssumption DEF LoopStart, Goto, Places, TypeOK
<1>9. ASSUME NEW l \in Loops, LoopCheck(l) PROVE Places'
  BY SMTT(60), <1>9, ThreadsAssumption DEF LoopCheck, Goto, Places, TypeOK
<1>10. ASSUME NEW l \in Loops, EpollPipe(l) PROVE Places'
  BY SMTT(60), <1>10, ThreadsAssumption DEF EpollPipe, Goto, Places, TypeOK
<1>11. ASSUME NEW l \in Loops, EpollOther(l) PROVE Places'
  BY SMTT(60), <1>11, ThreadsAssumption DEF EpollOther, Goto, Places, TypeOK
<1>12. ASSUME NEW l \in Loops, ReadPipe(l) PROVE Places'
  BY SMTT(60), <1>12, ThreadsAssumption DEF ReadPipe, ReadSize, Goto, Places, TypeOK
<1>13. ASSUME NEW l \in Loops, DispatchDone(l) PROVE Places'
  BY SMTT(60), <1>13, ThreadsAssumption DEF DispatchDone, Goto, Places, TypeOK
<1>14. ASSUME NEW l \in Loops, RunLock(l) PROVE Places'
  BY SMTT(60), <1>14, ThreadsAssumption DEF RunLock, Goto, Places, TypeOK
<1>15. ASSUME NEW l \in Loops, RunFront(l) PROVE Places'
  <2>1. Head(functions[l]) \in Tasks
    BY <1>15, HeadTailProperties DEF RunFront, TypeOK
  <2>2. Body(l, Head(functions[l]), "pop") /\ "pop" \in {"idle", "dispatch", "timer", "pop"}
    BY <1>15 DEF RunFront, TypeOK
  <2>3. /\ pc' = [pc EXCEPT ![l] = IF Spawn[Head(functions[l])] = NoCall THEN "pop" ELSE "call"]
        /\ call' = [call EXCEPT ![l] = Spawn[Head(functions[l])]]
        /\ Spawn[Head(functions[l])] # NoCall => ret' = [ret EXCEPT ![l] = "pop"]
        /\ Spawn[Head(functions[l])] = NoCall => ret' = ret
        /\ Spawn[Head(functions[l])] \in Calls \cup {NoCall}
    <3> HIDE DEF CallPcs, HoldPcs, LoopPcs, Threads
    <3> QED BY <2>1, <2>2, BodyChanges DEF Threads
  <2> QED BY SMTT(60), <1>15, <2>1, <2>2, <2>3, ThreadsAssumption DEF RunFront, Places, TypeOK
<1>16. ASSUME NEW l \in Loops, RunPop(l) PROVE Places'
  BY SMTT(60), <1>16, ThreadsAssumption DEF RunPop, Goto, Places, TypeOK
<1>17. ASSUME NEW l \in Loops, RunDone(l) PROVE Places'
  BY SMTT(60), <1>17, ThreadsAssumption DEF RunDone, Goto, Places, TypeOK
<1>18. ASSUME NEW l \in Loops, TimerDone(l) PROVE Places'
  BY SMTT(60), <1>18, ThreadsAssumption DEF TimerDone, Goto, Places, TypeOK
<1>19. ASSUME NEW l \in Loops, EpollError(l) PROVE Places'
  BY SMTT(60), <1>19, ThreadsAssumption DEF EpollError, Goto, Places, TypeOK
<1>20. ASSUME NEW l \in Loops, Quit(l) PROVE Places'
  BY SMTT(60), <1>20, ThreadsAssumption DEF Quit, Places, TypeOK
<1>21. CASE UNCHANGED vars
  BY <1>21 DEF vars, Places
<1> QED
  BY <1>1, <1>2, <1>3, <1>4, <1>5, <1>6, <1>7, <1>8, <1>9, <1>10, <1>11, <1>12, <1>13, <1>14, <1>15, <1>16, <1>17, <1>18, <1>19, <1>20, <1>21
  DEF Next, InCall, InLoop, EpollReturn

\* Only running the front task and popping it change whether it has run.
LEMMA FrontKept ==
  ASSUME TypeOK, Places, [Next]_vars, NEW k \in Loops, ~RunFront(k), ~RunPop(k)
  PROVE  FrontRan(k)' <=> FrontRan(k)
<1> USE DEF CallPcs, HoldPcs, LoopPcs, Threads, callVars, loopVars, queueVars, pipeVars, doneVars
<1>1. ASSUME NEW th \in Threads, CallDirect(th) PROVE FrontRan(k)' <=> FrontRan(k)
  <2>1. call[th] \in Calls /\ call[th].task \in Tasks /\ th \in Loops
    BY <1>1, CallType DEF CallDirect, Places
  <2>2. Body(th, call[th].task, ret[th]) /\ ret[th] \in {"idle", "dispatch", "timer", "pop"}
    BY <1>1 DEF CallDirect, TypeOK
  <2>3. /\ pc' = [pc EXCEPT ![th] = IF Spawn[call[th].task] = NoCall THEN ret[th] ELSE "call"]
        /\ call' = [call EXCEPT ![th] = Spawn[call[th].task]]
        /\ Spawn[call[th].task] # NoCall => ret' = [ret EXCEPT ![th] = ret[th]]
        /\ Spawn[call[th].task] = NoCall => ret' = ret
        /\ Spawn[call[th].task] \in Calls \cup {NoCall}
    <3> HIDE DEF CallPcs, HoldPcs, LoopPcs, Threads
    <3> QED BY <2>1, <2>2, BodyChanges DEF Threads
  <2> QED BY SMTT(60), <1>1, <2>1, <2>2, <2>3, ThreadsAssumption DEF CallDirect, FrontRan, Places, TypeOK
<1>2. ASSUME NEW th \in Threads, CallLock(th) PROVE FrontRan(k)' <=> FrontRan(k)
  BY SMTT(60), <1>2, ThreadsAssumption DEF CallLock, Goto, FrontRan, Places, TypeOK
<1>3. ASSUME NEW th \in Threads, CallPush(th) PROVE FrontRan(k)' <=> FrontRan(k)
  BY SMTT(60), <1>3, ThreadsAssumption DEF CallPush, Goto, FrontRan, Places, TypeOK
<1>4. ASSUME NEW th \in Threads, CallOpen(th) PROVE FrontRan(k)' <=> FrontRan(k)
  BY SMTT(60), <1>4, ThreadsAssumption DEF CallOpen, Goto, FrontRan, Places, TypeOK
<1>5. ASSUME NEW th \in Threads, CallWrite(th) PROVE FrontRan(k)' <=> FrontRan(k)
  BY SMTT(60), <1>5, ThreadsAssumption DEF CallWrite, WriteWakeUp, Goto, FrontRan, Places, TypeOK
<1>6. ASSUME NEW th \in Posters, NEW l \in Loops, NEW t \in Tasks, PosterCall(th, l, t) PROVE FrontRan(k)' <=> FrontRan(k)
  BY <1>6, ThreadsAssumption, CallType DEF PosterCall, StartCall, Goto, FrontRan, Places, TypeOK
<1>7. ASSUME NEW th \in Loops, NEW l \in Loops, NEW t \in Tasks, HandlerCall(th, l, t) PROVE FrontRan(k)' <=> FrontRan(k)
  BY <1>7, ThreadsAssumption, CallType DEF HandlerCall, StartCall, Goto, FrontRan, Places, TypeOK
<1>8. ASSUME NEW l \in Loops, LoopStart(l) PROVE FrontRan(k)' <=> FrontRan(k)
  BY SMTT(60), <1>8, ThreadsAssumption DEF LoopStart, Goto, FrontRan, Places, TypeOK
<1>9. ASSUME NEW l \in Loops, LoopCheck(l) PROVE FrontRan(k)' <=> FrontRan(k)
  BY SMTT(60), <1>9, ThreadsAssumption DEF LoopCheck, Goto, FrontRan, Places, TypeOK
<1>10. ASSUME NEW l \in Loops, EpollPipe(l) PROVE FrontRan(k)' <=> FrontRan(k)
  BY SMTT(60), <1>10, ThreadsAssumption DEF EpollPipe, Goto, FrontRan, Places, TypeOK
<1>11. ASSUME NEW l \in Loops, EpollOther(l) PROVE FrontRan(k)' <=> FrontRan(k)
  BY SMTT(60), <1>11, ThreadsAssumption DEF EpollOther, Goto, FrontRan, Places, TypeOK
<1>12. ASSUME NEW l \in Loops, ReadPipe(l) PROVE FrontRan(k)' <=> FrontRan(k)
  BY SMTT(60), <1>12, ThreadsAssumption DEF ReadPipe, ReadSize, Goto, FrontRan, Places, TypeOK
<1>13. ASSUME NEW l \in Loops, DispatchDone(l) PROVE FrontRan(k)' <=> FrontRan(k)
  BY SMTT(60), <1>13, ThreadsAssumption DEF DispatchDone, Goto, FrontRan, Places, TypeOK
<1>14. ASSUME NEW l \in Loops, RunLock(l) PROVE FrontRan(k)' <=> FrontRan(k)
  BY SMTT(60), <1>14, ThreadsAssumption DEF RunLock, Goto, FrontRan, Places, TypeOK
<1>15. ASSUME NEW l \in Loops, RunFront(l) PROVE FrontRan(k)' <=> FrontRan(k)
  <2>1. Head(functions[l]) \in Tasks
    BY <1>15, HeadTailProperties DEF RunFront, TypeOK
  <2>2. Body(l, Head(functions[l]), "pop") /\ "pop" \in {"idle", "dispatch", "timer", "pop"}
    BY <1>15 DEF RunFront, TypeOK
  <2>3. /\ pc' = [pc EXCEPT ![l] = IF Spawn[Head(functions[l])] = NoCall THEN "pop" ELSE "call"]
        /\ call' = [call EXCEPT ![l] = Spawn[Head(functions[l])]]
        /\ Spawn[Head(functions[l])] # NoCall => ret' = [ret EXCEPT ![l] = "pop"]
        /\ Spawn[Head(functions[l])] = NoCall => ret' = ret
        /\ Spawn[Head(functions[l])] \in Calls \cup {NoCall}
    <3> HIDE DEF CallPcs, HoldPcs, LoopPcs, Threads
    <3> QED BY <2>1, <2>2, BodyChanges DEF Threads
  <2> QED BY <1>15, <2>1, <2>2, <2>3, ThreadsAssumption DEF RunFront, FrontRan, Places, TypeOK
<1>16. ASSUME NEW l \in Loops, RunPop(l) PROVE FrontRan(k)' <=> FrontRan(k)
  BY <1>16, ThreadsAssumption DEF RunPop, Goto, FrontRan, Places, TypeOK
<1>17. ASSUME NEW l \in Loops, RunDone(l) PROVE FrontRan(k)' <=> FrontRan(k)
  BY SMTT(60), <1>17, ThreadsAssumption DEF RunDone, Goto, FrontRan, Places, TypeOK
<1>18. ASSUME NEW l \in Loops, TimerDone(l) PROVE FrontRan(k)' <=> FrontRan(k)
  BY SMTT(60), <1>18, ThreadsAssumption DEF TimerDone, Goto, FrontRan, Places, TypeOK
<1>19. ASSUME NEW l \in Loops, EpollError(l) PROVE FrontRan(k)' <=> FrontRan(k)
  BY SMTT(60), <1>19, ThreadsAssumption DEF EpollError, Goto, FrontRan, Places, TypeOK
<1>20. ASSUME NEW l \in Loops, Quit(l) PROVE FrontRan(k)' <=> FrontRan(k)
  BY SMTT(60), <1>20, ThreadsAssumption DEF Quit, FrontRan, Places, TypeOK
<1>21. CASE UNCHANGED vars
  BY <1>21 DEF vars, FrontRan, Places, TypeOK
<1> QED
  BY <1>1, <1>2, <1>3, <1>4, <1>5, <1>6, <1>7, <1>8, <1>9, <1>10, <1>11, <1>12, <1>13, <1>14, <1>15, <1>16, <1>17, <1>18, <1>19, <1>20, <1>21
  DEF Next, InCall, InLoop, EpollReturn

\* Only a push and a pop change functions_.
LEMMA QueueKept ==
  ASSUME [Next]_vars, \A th \in Threads : ~CallPush(th), \A l \in Loops : ~RunPop(l)
  PROVE  functions' = functions /\ posted' = posted
BY DEF Next, InCall, InLoop, EpollReturn, vars, queueVars, CallDirect, CallLock, CallOpen, CallWrite,
       PosterCall, HandlerCall, LoopStart, LoopCheck, EpollPipe, EpollOther, ReadPipe, DispatchDone,
       RunLock, RunFront, RunDone, TimerDone, EpollError, Quit

\* The queued tasks a loop began change when it runs its front task.
LEMMA RanKept ==
  ASSUME [Next]_vars, \A l \in Loops : ~RunFront(l)
  PROVE  ran' = ran
BY DEF Next, InCall, InLoop, EpollReturn, vars, doneVars, CallDirect, CallLock, CallPush, CallOpen, CallWrite,
       PosterCall, HandlerCall, LoopStart, LoopCheck, EpollPipe, EpollOther, ReadPipe, DispatchDone,
       RunLock, RunPop, RunDone, TimerDone, EpollError, Quit

\* A queue with a front task that has run is not empty.
LEMMA FrontStep == TypeOK /\ Places /\ FrontThere /\ [Next]_vars => FrontThere'
<1> SUFFICES ASSUME TypeOK, Places, FrontThere, [Next]_vars, NEW k \in Loops, FrontRan(k)'
             PROVE  functions'[k] # <<>>
  BY DEF FrontThere
<1>1. CASE \E th \in Threads : CallPush(th)
  <2>1. PICK th \in Threads : CallPush(th)
    BY <1>1
  <2>2. ~RunFront(k) /\ ~RunPop(k)
    BY <2>1, ThreadsAssumption DEF CallPush, RunFront, RunPop, Body, StartCall, Goto, Threads, TypeOK
  <2>3. functions[k] # <<>>
    BY <2>2, FrontKept DEF FrontThere
  <2>4. call[th].loop \in Loops /\ call[th].task \in Tasks
    BY <2>1, CallType DEF Places, CallPush, CallPcs, HoldPcs
  <2>5. Append(functions[call[th].loop], call[th].task) # <<>>
    <3>1. functions[call[th].loop] \in Seq(Tasks)
      BY <2>4 DEF TypeOK
    <3> HIDE DEF TypeOK
    <3> QED BY <2>4, <3>1, AppendProperties
  <2> QED BY <2>1, <2>3, <2>5 DEF CallPush, TypeOK
<1>2. CASE \E l \in Loops : RunPop(l)
  <2>1. PICK l \in Loops : RunPop(l)
    BY <1>2
  <2>2. k # l
    BY <2>1 DEF RunPop, Goto, FrontRan, CallPcs, HoldPcs, TypeOK, Threads
  <2>3. ~RunFront(k) /\ ~RunPop(k)
    BY <2>1, <2>2 DEF RunFront, RunPop, Goto, FrontRan, CallPcs, HoldPcs, TypeOK, Threads, doneVars, callVars
  <2> QED BY <2>1, <2>2, <2>3, FrontKept DEF RunPop, FrontThere, TypeOK
<1>3. CASE (\A th \in Threads : ~CallPush(th)) /\ (\A l \in Loops : ~RunPop(l))
  <2>1. functions' = functions
    BY <1>3, QueueKept
  <2>2. CASE RunFront(k)
    BY <2>1, <2>2 DEF RunFront
  <2>3. CASE ~RunFront(k)
    BY <1>3, <2>1, <2>3, FrontKept DEF FrontThere
  <2> QED BY <2>2, <2>3
<1> QED BY <1>1, <1>2, <1>3

\* lock_ is held by exactly the thread that works on functions_.
LEMMA LockStep == TypeOK /\ Places /\ OneAtTheQueue /\ [Next]_vars => OneAtTheQueue'
<1> SUFFICES ASSUME TypeOK, Places, OneAtTheQueue, [Next]_vars, NEW k \in Loops, NEW u \in Threads
             PROVE  (InQueueOf(u, k) <=> lock[k] = u)'
  BY DEF OneAtTheQueue
<1> USE DEF CallPcs, HoldPcs, LoopPcs, Threads, callVars, loopVars, queueVars, pipeVars, doneVars
<1>1. ASSUME NEW th \in Threads, CallDirect(th) PROVE (InQueueOf(u, k) <=> lock[k] = u)'
  <2>1. call[th] \in Calls /\ call[th].task \in Tasks /\ th \in Loops
    BY <1>1, CallType DEF CallDirect, Places
  <2>2. Body(th, call[th].task, ret[th]) /\ ret[th] \in {"idle", "dispatch", "timer", "pop"}
    BY <1>1 DEF CallDirect, TypeOK
  <2>3. /\ pc' = [pc EXCEPT ![th] = IF Spawn[call[th].task] = NoCall THEN ret[th] ELSE "call"]
        /\ call' = [call EXCEPT ![th] = Spawn[call[th].task]]
        /\ Spawn[call[th].task] # NoCall => ret' = [ret EXCEPT ![th] = ret[th]]
        /\ Spawn[call[th].task] = NoCall => ret' = ret
        /\ Spawn[call[th].task] \in Calls \cup {NoCall}
    <3> HIDE DEF CallPcs, HoldPcs, LoopPcs, Threads
    <3> QED BY <2>1, <2>2, BodyChanges DEF Threads
  <2> QED BY SMTT(60), <1>1, <2>1, <2>2, <2>3, ThreadsAssumption DEF CallDirect, FrontRan, InQueueOf, OneAtTheQueue, Places, TypeOK
<1>2. ASSUME NEW th \in Threads, CallLock(th) PROVE (InQueueOf(u, k) <=> lock[k] = u)'
  BY SMTT(60), <1>2, ThreadsAssumption DEF CallLock, Goto, FrontRan, InQueueOf, OneAtTheQueue, Places, TypeOK
<1>3. ASSUME NEW th \in Threads, CallPush(th) PROVE (InQueueOf(u, k) <=> lock[k] = u)'
  BY SMTT(60), <1>3, ThreadsAssumption DEF CallPush, Goto, FrontRan, InQueueOf, OneAtTheQueue, Places, TypeOK
<1>4. ASSUME NEW th \in Threads, CallOpen(th) PROVE (InQueueOf(u, k) <=> lock[k] = u)'
  BY SMTT(60), <1>4, ThreadsAssumption DEF CallOpen, Goto, FrontRan, InQueueOf, OneAtTheQueue, Places, TypeOK
<1>5. ASSUME NEW th \in Threads, CallWrite(th) PROVE (InQueueOf(u, k) <=> lock[k] = u)'
  <2> DEFINE w == call[th].loop
  <2>1. /\ pc[th] = "write" /\ w \in Loops /\ w # th /\ ret[th] \in {"idle", "dispatch", "timer", "pop"}
        /\ th \in Loops => ret[th] # "idle"
    BY <1>5, CallType DEF CallWrite, Places, TypeOK
  <2>2. /\ pc' = [pc EXCEPT ![th] = ret[th]] /\ call' = [call EXCEPT ![th] = NoCall] /\ ret' = ret
        /\ lock' = [lock EXCEPT ![w] = NoThread]
    BY <1>5 DEF CallWrite, Goto
  <2> HIDE DEF w
  <2>3. InQueueOf(th, w)
    BY <2>1 DEF InQueueOf, w
  <2>4. lock[w] = th
    BY <2>1, <2>3 DEF OneAtTheQueue
  <2>5. InQueueOf(u, k)' <=> (InQueueOf(u, k) /\ ~(u = th /\ k = w))
    <3>1. CASE u # th
      BY <2>1, <2>2, <3>1 DEF InQueueOf, FrontRan, TypeOK
    <3>2. CASE u = th /\ k = th
      BY <2>1, <2>2, <3>2 DEF InQueueOf, FrontRan, TypeOK
    <3>3. CASE u = th /\ k # th
      <4>1. pc'[th] \notin HoldPcs
        BY <2>1, <2>2 DEF TypeOK
      <4>2. ~InQueueOf(u, k)'
        BY <3>3, <4>1 DEF InQueueOf
      <4>3. InQueueOf(u, k) => k = w
        BY <3>3 DEF InQueueOf, w
      <4> QED BY <3>3, <4>2, <4>3
    <3> QED BY <3>1, <3>2, <3>3
  <2>6. InQueueOf(u, k) <=> lock[k] = u
    BY DEF OneAtTheQueue
  <2>7. lock'[k] = IF k = w THEN NoThread ELSE lock[k]
    BY <2>2 DEF TypeOK
  <2> QED BY <2>4, <2>5, <2>6, <2>7, ThreadsAssumption
<1>6. ASSUME NEW th \in Posters, NEW l \in Loops, NEW t \in Tasks, PosterCall(th, l, t) PROVE (InQueueOf(u, k) <=> lock[k] = u)'
  BY SMTT(30), <1>6, ThreadsAssumption, CallType DEF PosterCall, StartCall, Goto, FrontRan, InQueueOf, OneAtTheQueue, Places, TypeOK
<1>7. ASSUME NEW th \in Loops, NEW l \in Loops, NEW t \in Tasks, HandlerCall(th, l, t) PROVE (InQueueOf(u, k) <=> lock[k] = u)'
  BY SMTT(60), <1>7, ThreadsAssumption, CallType DEF HandlerCall, StartCall, Goto, FrontRan, InQueueOf, OneAtTheQueue, Places, TypeOK
<1>8. ASSUME NEW l \in Loops, LoopStart(l) PROVE (InQueueOf(u, k) <=> lock[k] = u)'
  BY SMTT(60), <1>8, ThreadsAssumption DEF LoopStart, Goto, FrontRan, InQueueOf, OneAtTheQueue, Places, TypeOK
<1>9. ASSUME NEW l \in Loops, LoopCheck(l) PROVE (InQueueOf(u, k) <=> lock[k] = u)'
  BY SMTT(60), <1>9, ThreadsAssumption DEF LoopCheck, Goto, FrontRan, InQueueOf, OneAtTheQueue, Places, TypeOK
<1>10. ASSUME NEW l \in Loops, EpollPipe(l) PROVE (InQueueOf(u, k) <=> lock[k] = u)'
  BY SMTT(60), <1>10, ThreadsAssumption DEF EpollPipe, Goto, FrontRan, InQueueOf, OneAtTheQueue, Places, TypeOK
<1>11. ASSUME NEW l \in Loops, EpollOther(l) PROVE (InQueueOf(u, k) <=> lock[k] = u)'
  BY SMTT(60), <1>11, ThreadsAssumption DEF EpollOther, Goto, FrontRan, InQueueOf, OneAtTheQueue, Places, TypeOK
<1>12. ASSUME NEW l \in Loops, ReadPipe(l) PROVE (InQueueOf(u, k) <=> lock[k] = u)'
  BY SMTT(60), <1>12, ThreadsAssumption DEF ReadPipe, ReadSize, Goto, FrontRan, InQueueOf, OneAtTheQueue, Places, TypeOK
<1>13. ASSUME NEW l \in Loops, DispatchDone(l) PROVE (InQueueOf(u, k) <=> lock[k] = u)'
  BY SMTT(60), <1>13, ThreadsAssumption DEF DispatchDone, Goto, FrontRan, InQueueOf, OneAtTheQueue, Places, TypeOK
<1>14. ASSUME NEW l \in Loops, RunLock(l) PROVE (InQueueOf(u, k) <=> lock[k] = u)'
  BY SMTT(60), <1>14, ThreadsAssumption DEF RunLock, Goto, FrontRan, InQueueOf, OneAtTheQueue, Places, TypeOK
<1>15. ASSUME NEW l \in Loops, RunFront(l) PROVE (InQueueOf(u, k) <=> lock[k] = u)'
  <2>1. Head(functions[l]) \in Tasks
    BY <1>15, HeadTailProperties DEF RunFront, TypeOK
  <2>2. Body(l, Head(functions[l]), "pop") /\ "pop" \in {"idle", "dispatch", "timer", "pop"}
    BY <1>15 DEF RunFront, TypeOK
  <2>3. /\ pc' = [pc EXCEPT ![l] = IF Spawn[Head(functions[l])] = NoCall THEN "pop" ELSE "call"]
        /\ call' = [call EXCEPT ![l] = Spawn[Head(functions[l])]]
        /\ Spawn[Head(functions[l])] # NoCall => ret' = [ret EXCEPT ![l] = "pop"]
        /\ Spawn[Head(functions[l])] = NoCall => ret' = ret
        /\ Spawn[Head(functions[l])] \in Calls \cup {NoCall}
    <3> HIDE DEF CallPcs, HoldPcs, LoopPcs, Threads
    <3> QED BY <2>1, <2>2, BodyChanges DEF Threads
  <2> QED BY SMTT(60), <1>15, <2>1, <2>2, <2>3, ThreadsAssumption DEF RunFront, FrontRan, InQueueOf, OneAtTheQueue, Places, TypeOK
<1>16. ASSUME NEW l \in Loops, RunPop(l) PROVE (InQueueOf(u, k) <=> lock[k] = u)'
  BY SMTT(60), <1>16, ThreadsAssumption DEF RunPop, Goto, FrontRan, InQueueOf, OneAtTheQueue, Places, TypeOK
<1>17. ASSUME NEW l \in Loops, RunDone(l) PROVE (InQueueOf(u, k) <=> lock[k] = u)'
  BY SMTT(60), <1>17, ThreadsAssumption DEF RunDone, Goto, FrontRan, InQueueOf, OneAtTheQueue, Places, TypeOK
<1>18. ASSUME NEW l \in Loops, TimerDone(l) PROVE (InQueueOf(u, k) <=> lock[k] = u)'
  BY SMTT(60), <1>18, ThreadsAssumption DEF TimerDone, Goto, FrontRan, InQueueOf, OneAtTheQueue, Places, TypeOK
<1>19. ASSUME NEW l \in Loops, EpollError(l) PROVE (InQueueOf(u, k) <=> lock[k] = u)'
  BY SMTT(60), <1>19, ThreadsAssumption DEF EpollError, Goto, FrontRan, InQueueOf, OneAtTheQueue, Places, TypeOK
<1>20. ASSUME NEW l \in Loops, Quit(l) PROVE (InQueueOf(u, k) <=> lock[k] = u)'
  BY SMTT(60), <1>20, ThreadsAssumption DEF Quit, FrontRan, InQueueOf, OneAtTheQueue, Places, TypeOK
<1>21. CASE UNCHANGED vars
  BY <1>21 DEF vars, FrontRan, InQueueOf, OneAtTheQueue, Places, TypeOK
<1> QED
  BY <1>1, <1>2, <1>3, <1>4, <1>5, <1>6, <1>7, <1>8, <1>9, <1>10, <1>11, <1>12, <1>13, <1>14, <1>15, <1>16, <1>17, <1>18, <1>19, <1>20, <1>21
  DEF Next, InCall, InLoop, EpollReturn


\* Sequences: pushing behind, and taking the front to the end of what ran.
LEMMA PushBehind ==
  ASSUME NEW S, NEW a \in Seq(S), NEW b \in Seq(S), NEW e \in S
  PROVE  Append(a \o b, e) = a \o Append(b, e)
OBVIOUS

\* Running the front task moves it from what is pending to what ran.
LEMMA FrontMoves ==
  ASSUME NEW S, NEW a \in Seq(S), NEW b \in Seq(S), b # <<>>
  PROVE  a \o b = Append(a, Head(b)) \o Tail(b)
OBVIOUS

\* A push puts its task behind what is pending on the loop it was handed to.
LEMMA PendingPushed ==
  ASSUME TypeOK, Places, OneAtTheQueue, [Next]_vars,
         NEW th \in Threads, CallPush(th), NEW k \in Loops
  PROVE  /\ call[th].loop \in Loops /\ call[th].task \in Tasks
         /\ posted' = [posted EXCEPT ![call[th].loop] = Append(@, call[th].task)]
         /\ ran' = ran /\ direct' = direct /\ want' = want
         /\ k = call[th].loop => Pending(k)' = Append(Pending(k), call[th].task)
         /\ k # call[th].loop => Pending(k)' = Pending(k)
<1>1. ~RunFront(k) /\ ~RunPop(k)
  BY ThreadsAssumption DEF CallPush, RunFront, RunPop, Body, StartCall, Goto, Threads, TypeOK
<1>2. FrontRan(k)' <=> FrontRan(k)
  BY <1>1, FrontKept
<1>3. call[th].loop \in Loops /\ call[th].task \in Tasks /\ call[th].loop # th /\ pc[th] \in HoldPcs
  BY CallType DEF Places, CallPush, CallPcs, HoldPcs
<1>4. /\ posted' = [posted EXCEPT ![call[th].loop] = Append(@, call[th].task)]
      /\ ran' = ran /\ direct' = direct /\ want' = want
  BY DEF CallPush, doneVars, callVars
<1>5. CASE k = call[th].loop
  <2>1. lock[k] = th
    BY <1>3, <1>5 DEF OneAtTheQueue, InQueueOf
  <2>2. ~FrontRan(k)
    BY <1>3, <1>5, <2>1 DEF OneAtTheQueue, InQueueOf, Threads
  <2>3. functions'[k] = Append(functions[k], call[th].task)
    BY <1>5 DEF CallPush, TypeOK
  <2> QED BY <1>2, <1>3, <1>4, <1>5, <2>2, <2>3 DEF Pending
<1>6. CASE k # call[th].loop
  <2>1. functions'[k] = functions[k]
    BY <1>6 DEF CallPush, TypeOK
  <2> QED BY <1>2, <1>3, <1>4, <1>6, <2>1 DEF Pending
<1> QED BY <1>5, <1>6

\* Running the front task takes it from what is pending to what ran.
LEMMA PendingBegun ==
  ASSUME TypeOK, [Next]_vars, NEW k \in Loops, RunFront(k)
  PROVE  /\ Pending(k) \in Seq(Tasks) /\ Pending(k) # <<>>
         /\ Pending(k)' = Tail(Pending(k))
         /\ Head(Pending(k)) = Head(functions[k])
         /\ ran' = [ran EXCEPT ![k] = Append(@, Head(Pending(k)))]
         /\ posted' = posted /\ direct' = direct
<1>1. functions[k] # <<>> /\ functions[k] \in Seq(Tasks)
  BY DEF RunFront, TypeOK
<1>2. ~FrontRan(k) /\ FrontRan(k)'
  BY ThreadsAssumption DEF RunFront, Body, StartCall, Goto, FrontRan, CallPcs, HoldPcs, TypeOK, Threads
<1>3. functions' = functions /\ posted' = posted
  BY DEF RunFront, queueVars
<1>4. Pending(k) = functions[k] /\ Pending(k)' = Tail(functions[k])
  BY <1>2, <1>3 DEF Pending
<1> QED BY <1>1, <1>3, <1>4 DEF RunFront

\* Nothing else changes what is pending: a pop drops a task that has run.
LEMMA PendingKept ==
  ASSUME TypeOK, Places, [Next]_vars, NEW k \in Loops,
         ~RunFront(k), \A th \in Threads : ~CallPush(th)
  PROVE  Pending(k)' = Pending(k)
<1>1. CASE RunPop(k)
  BY <1>1 DEF RunPop, Goto, Pending, FrontRan, CallPcs, HoldPcs, TypeOK, Threads
<1>2. CASE ~RunPop(k)
  <2>1. FrontRan(k)' <=> FrontRan(k)
    BY <1>2, FrontKept
  <2>2. functions'[k] = functions[k]
    <3>1. CASE \E l \in Loops : RunPop(l)
      BY <1>2, <3>1 DEF RunPop, TypeOK
    <3> QED BY <3>1, QueueKept
  <2> QED BY <2>1, <2>2 DEF Pending
<1> QED BY <1>1, <1>2

\* Only a push changes what was queued.
LEMMA PostedKept ==
  ASSUME [Next]_vars, \A th \in Threads : ~CallPush(th)
  PROVE  posted' = posted
BY DEF Next, InCall, InLoop, EpollReturn, vars, queueVars, CallDirect, CallLock, CallOpen, CallWrite,
       PosterCall, HandlerCall, LoopStart, LoopCheck, EpollPipe, EpollOther, ReadPipe, DispatchDone,
       RunLock, RunFront, RunPop, RunDone, TimerDone, EpollError, Quit

\* What was queued stays what ran followed by what is pending.
LEMMA OrderStep ==
  TypeOK /\ Places /\ OneAtTheQueue /\ FrontThere /\ QueueOrder /\ [Next]_vars => QueueOrder'
<1> SUFFICES ASSUME TypeOK, Places, OneAtTheQueue, FrontThere, QueueOrder, [Next]_vars, NEW k \in Loops
             PROVE  (posted[k] = ran[k] \o Pending(k))'
  BY DEF QueueOrder
<1> DEFINE r == ran[k]
           p == Pending(k)
<1>t. r \in Seq(Tasks) /\ p \in Seq(Tasks) /\ posted[k] = r \o p
  BY HeadTailProperties DEF TypeOK, FrontThere, Pending, QueueOrder
<1>1. CASE \E th \in Threads : CallPush(th)
  <2>1. PICK th \in Threads : CallPush(th)
    BY <1>1
  <2>2. /\ call[th].loop \in Loops /\ call[th].task \in Tasks
        /\ posted' = [posted EXCEPT ![call[th].loop] = Append(@, call[th].task)]
        /\ ran' = ran
        /\ k = call[th].loop => p' = Append(p, call[th].task)
        /\ k # call[th].loop => p' = p
    BY <2>1, PendingPushed
  <2>3. CASE k = call[th].loop
    <3> DEFINE t == call[th].task
    <3>1. posted'[k] = Append(posted[k], t)
      BY <2>2, <2>3 DEF TypeOK
    <3>2. t \in Tasks /\ ran'[k] = r /\ p' = Append(p, t)
      BY <2>2, <2>3
    <3> HIDE DEF r, p, t
    <3>3. Append(r \o p, t) = r \o Append(p, t)
      <4>1. r \in Seq(Tasks) /\ p \in Seq(Tasks) /\ t \in Tasks
        BY <1>t, <3>2
      <4> QED BY ONLY <4>1
    <3> QED BY <1>t, <3>1, <3>2, <3>3 DEF r, p
  <2>4. CASE k # call[th].loop
    BY <1>t, <2>2, <2>4 DEF TypeOK
  <2> QED BY <2>3, <2>4
<1>2. CASE RunFront(k)
  <2>1. p # <<>> /\ p' = Tail(p) /\ posted' = posted /\ ran'[k] = Append(r, Head(p))
    BY <1>2, PendingBegun DEF TypeOK
  <2> HIDE DEF r, p
  <2>2. r \o p = Append(r, Head(p)) \o Tail(p)
    BY <1>t, <2>1, FrontMoves
  <2> QED BY <1>t, <2>1, <2>2 DEF r, p
<1>3. CASE (\A th \in Threads : ~CallPush(th)) /\ ~RunFront(k)
  <2>1. p' = p /\ posted' = posted
    BY <1>3, PendingKept, PostedKept
  <2>2. ran'[k] = ran[k]
    <3>1. CASE \E l \in Loops : RunFront(l)
      BY <1>3, <3>1 DEF RunFront, TypeOK
    <3> QED BY <3>1, RanKept
  <2> QED BY <1>t, <2>1, <2>2
<1> QED BY <1>1, <1>2, <1>3

\* WakeUpNotLost as it is kept: also before the loop's first iteration.
WakeUpKept ==
  \A l \in Loops :
    ((pc[l] = "start" \/ PastTheQueue(l)) /\ functions[l] # <<>>)
      => PipeReady(l) \/ WakeUpPending(l) \/ PipeFull(l)

\* A wake-up is not lost while the loop is past its queue.
LEMMA WakeStep == TypeOK /\ Places /\ WakeUpKept /\ [Next]_vars => WakeUpKept'
<1> SUFFICES ASSUME TypeOK, Places, WakeUpKept, [Next]_vars, NEW k \in Loops,
                    ((pc[k] = "start" \/ PastTheQueue(k)) /\ functions[k] # <<>>)'
             PROVE  (PipeReady(k) \/ WakeUpPending(k) \/ PipeFull(k))'
  BY DEF WakeUpKept
<1> USE DEF CallPcs, HoldPcs, LoopPcs, Threads, callVars, loopVars, queueVars, pipeVars, doneVars
<1>1. ASSUME NEW th \in Threads, CallDirect(th) PROVE (PipeReady(k) \/ WakeUpPending(k) \/ PipeFull(k))'
  <2>1. call[th] \in Calls /\ call[th].task \in Tasks /\ th \in Loops
    BY <1>1, CallType DEF CallDirect, Places
  <2>2. Body(th, call[th].task, ret[th]) /\ ret[th] \in {"idle", "dispatch", "timer", "pop"}
    BY <1>1 DEF CallDirect, TypeOK
  <2>3. /\ pc' = [pc EXCEPT ![th] = IF Spawn[call[th].task] = NoCall THEN ret[th] ELSE "call"]
        /\ call' = [call EXCEPT ![th] = Spawn[call[th].task]]
        /\ Spawn[call[th].task] # NoCall => ret' = [ret EXCEPT ![th] = ret[th]]
        /\ Spawn[call[th].task] = NoCall => ret' = ret
        /\ Spawn[call[th].task] \in Calls \cup {NoCall}
    <3> HIDE DEF CallPcs, HoldPcs, LoopPcs, Threads
    <3> QED BY <2>1, <2>2, BodyChanges DEF Threads
  <2> QED BY ZenonT(40), <1>1, <2>1, <2>2, <2>3, ThreadsAssumption DEF CallDirect, PastTheQueue, PipeReady, WakeUpPending, PipeFull, WakeUpKept, Places, TypeOK
<1>2. ASSUME NEW th \in Threads, CallLock(th) PROVE (PipeReady(k) \/ WakeUpPending(k) \/ PipeFull(k))'
  BY <1>2, ThreadsAssumption DEF CallLock, Goto, PastTheQueue, PipeReady, WakeUpPending, PipeFull, WakeUpKept, Places, TypeOK
<1>3. ASSUME NEW th \in Threads, CallPush(th) PROVE (PipeReady(k) \/ WakeUpPending(k) \/ PipeFull(k))'
  BY <1>3, ThreadsAssumption DEF CallPush, Goto, PastTheQueue, PipeReady, WakeUpPending, PipeFull, WakeUpKept, Places, TypeOK
<1>4. ASSUME NEW th \in Threads, CallOpen(th) PROVE (PipeReady(k) \/ WakeUpPending(k) \/ PipeFull(k))'
  BY SMTT(60), <1>4, ThreadsAssumption DEF CallOpen, Goto, PastTheQueue, PipeReady, WakeUpPending, PipeFull, WakeUpKept, Places, TypeOK
<1>5. ASSUME NEW th \in Threads, CallWrite(th) PROVE (PipeReady(k) \/ WakeUpPending(k) \/ PipeFull(k))'
  <2> DEFINE w == call[th].loop
  <2>1. /\ pc[th] = "write" /\ w \in Loops /\ w # th /\ ret[th] \in {"idle", "dispatch", "timer", "pop"}
        /\ th \in Loops => ret[th] # "idle"
    BY <1>5, CallType DEF CallWrite, Places, TypeOK
  <2>2. /\ pc' = [pc EXCEPT ![th] = ret[th]] /\ call' = [call EXCEPT ![th] = NoCall] /\ ret' = ret
        /\ functions' = functions /\ consumed' = consumed
    BY <1>5 DEF CallWrite, Goto
  <2>3. WriteWakeUp(w)
    BY <1>5 DEF CallWrite
  <2> HIDE DEF w
  <2>4. CASE k = w
    <3>1. CASE PipeFull(k)
      BY <2>2, <2>3, <2>4, <3>1 DEF WriteWakeUp, PipeFull
    <3>2. CASE ~PipeFull(k)
      BY <2>1, <2>3, <2>4, <3>2 DEF WriteWakeUp, PipeReady, TypeOK
    <3> QED BY <3>1, <3>2
  <2>5. CASE k # w
    <3>1. unread'[k] = unread[k] /\ edge'[k] = edge[k] /\ consumed'[k] = consumed[k]
      BY <2>2, <2>3, <2>5 DEF WriteWakeUp, TypeOK
    <3>2. (pc[k] = "start" \/ PastTheQueue(k)) /\ functions[k] # <<>>
      BY <2>1, <2>2 DEF PastTheQueue, TypeOK
    <3>3. PipeReady(k) \/ WakeUpPending(k) \/ PipeFull(k)
      BY <3>2 DEF WakeUpKept
    <3>4. WakeUpPending(k) => WakeUpPending(k)'
      BY <2>1, <2>2, <2>5 DEF WakeUpPending, TypeOK, w
    <3> QED BY <3>1, <3>3, <3>4 DEF PipeReady, PipeFull
  <2> QED BY <2>4, <2>5
<1>6. ASSUME NEW th \in Posters, NEW l \in Loops, NEW t \in Tasks, PosterCall(th, l, t) PROVE (PipeReady(k) \/ WakeUpPending(k) \/ PipeFull(k))'
  BY <1>6, ThreadsAssumption, CallType DEF PosterCall, StartCall, Goto, PastTheQueue, PipeReady, WakeUpPending, PipeFull, WakeUpKept, Places, TypeOK
<1>7. ASSUME NEW th \in Loops, NEW l \in Loops, NEW t \in Tasks, HandlerCall(th, l, t) PROVE (PipeReady(k) \/ WakeUpPending(k) \/ PipeFull(k))'
  BY <1>7, ThreadsAssumption, CallType DEF HandlerCall, StartCall, Goto, PastTheQueue, PipeReady, WakeUpPending, PipeFull, WakeUpKept, Places, TypeOK
<1>8. ASSUME NEW l \in Loops, LoopStart(l) PROVE (PipeReady(k) \/ WakeUpPending(k) \/ PipeFull(k))'
  BY <1>8, ThreadsAssumption DEF LoopStart, Goto, PastTheQueue, PipeReady, WakeUpPending, PipeFull, WakeUpKept, Places, TypeOK
<1>9. ASSUME NEW l \in Loops, LoopCheck(l) PROVE (PipeReady(k) \/ WakeUpPending(k) \/ PipeFull(k))'
  BY <1>9, ThreadsAssumption DEF LoopCheck, Goto, PastTheQueue, PipeReady, WakeUpPending, PipeFull, WakeUpKept, Places, TypeOK
<1>10. ASSUME NEW l \in Loops, EpollPipe(l) PROVE (PipeReady(k) \/ WakeUpPending(k) \/ PipeFull(k))'
  BY <1>10, ThreadsAssumption DEF EpollPipe, Goto, PastTheQueue, PipeReady, WakeUpPending, PipeFull, WakeUpKept, Places, TypeOK
<1>11. ASSUME NEW l \in Loops, EpollOther(l) PROVE (PipeReady(k) \/ WakeUpPending(k) \/ PipeFull(k))'
  BY <1>11, ThreadsAssumption DEF EpollOther, Goto, PastTheQueue, PipeReady, WakeUpPending, PipeFull, WakeUpKept, Places, TypeOK
<1>12. ASSUME NEW l \in Loops, ReadPipe(l) PROVE (PipeReady(k) \/ WakeUpPending(k) \/ PipeFull(k))'
  BY <1>12, ThreadsAssumption DEF ReadPipe, ReadSize, Goto, PastTheQueue, PipeReady, WakeUpPending, PipeFull, WakeUpKept, Places, TypeOK
<1>13. ASSUME NEW l \in Loops, DispatchDone(l) PROVE (PipeReady(k) \/ WakeUpPending(k) \/ PipeFull(k))'
  BY <1>13, ThreadsAssumption DEF DispatchDone, Goto, PastTheQueue, PipeReady, WakeUpPending, PipeFull, WakeUpKept, Places, TypeOK
<1>14. ASSUME NEW l \in Loops, RunLock(l) PROVE (PipeReady(k) \/ WakeUpPending(k) \/ PipeFull(k))'
  BY <1>14, ThreadsAssumption DEF RunLock, Goto, PastTheQueue, PipeReady, WakeUpPending, PipeFull, WakeUpKept, Places, TypeOK
<1>15. ASSUME NEW l \in Loops, RunFront(l) PROVE (PipeReady(k) \/ WakeUpPending(k) \/ PipeFull(k))'
  <2>1. Head(functions[l]) \in Tasks
    BY <1>15, HeadTailProperties DEF RunFront, TypeOK
  <2>2. Body(l, Head(functions[l]), "pop") /\ "pop" \in {"idle", "dispatch", "timer", "pop"}
    BY <1>15 DEF RunFront, TypeOK
  <2>3. /\ pc' = [pc EXCEPT ![l] = IF Spawn[Head(functions[l])] = NoCall THEN "pop" ELSE "call"]
        /\ call' = [call EXCEPT ![l] = Spawn[Head(functions[l])]]
        /\ Spawn[Head(functions[l])] # NoCall => ret' = [ret EXCEPT ![l] = "pop"]
        /\ Spawn[Head(functions[l])] = NoCall => ret' = ret
        /\ Spawn[Head(functions[l])] \in Calls \cup {NoCall}
    <3> HIDE DEF CallPcs, HoldPcs, LoopPcs, Threads
    <3> QED BY <2>1, <2>2, BodyChanges DEF Threads
  <2> QED BY <1>15, <2>1, <2>2, <2>3, ThreadsAssumption DEF RunFront, PastTheQueue, PipeReady, WakeUpPending, PipeFull, WakeUpKept, Places, TypeOK
<1>16. ASSUME NEW l \in Loops, RunPop(l) PROVE (PipeReady(k) \/ WakeUpPending(k) \/ PipeFull(k))'
  BY <1>16, ThreadsAssumption DEF RunPop, Goto, PastTheQueue, PipeReady, WakeUpPending, PipeFull, WakeUpKept, Places, TypeOK
<1>17. ASSUME NEW l \in Loops, RunDone(l) PROVE (PipeReady(k) \/ WakeUpPending(k) \/ PipeFull(k))'
  BY <1>17, ThreadsAssumption DEF RunDone, Goto, PastTheQueue, PipeReady, WakeUpPending, PipeFull, WakeUpKept, Places, TypeOK
<1>18. ASSUME NEW l \in Loops, TimerDone(l) PROVE (PipeReady(k) \/ WakeUpPending(k) \/ PipeFull(k))'
  BY <1>18, ThreadsAssumption DEF TimerDone, Goto, PastTheQueue, PipeReady, WakeUpPending, PipeFull, WakeUpKept, Places, TypeOK
<1>19. ASSUME NEW l \in Loops, EpollError(l) PROVE (PipeReady(k) \/ WakeUpPending(k) \/ PipeFull(k))'
  BY <1>19, ThreadsAssumption DEF EpollError, Goto, PastTheQueue, PipeReady, WakeUpPending, PipeFull, WakeUpKept, Places, TypeOK
<1>20. ASSUME NEW l \in Loops, Quit(l) PROVE (PipeReady(k) \/ WakeUpPending(k) \/ PipeFull(k))'
  BY <1>20, ThreadsAssumption DEF Quit, PastTheQueue, PipeReady, WakeUpPending, PipeFull, WakeUpKept, Places, TypeOK
<1>21. CASE UNCHANGED vars
  BY <1>21 DEF vars, PastTheQueue, PipeReady, WakeUpPending, PipeFull, WakeUpKept, Places, TypeOK
<1> QED
  BY <1>1, <1>2, <1>3, <1>4, <1>5, <1>6, <1>7, <1>8, <1>9, <1>10, <1>11, <1>12, <1>13, <1>14, <1>15, <1>16, <1>17, <1>18, <1>19, <1>20, <1>21
  DEF Next, InCall, InLoop, EpollReturn

\* The inductive invariant.
Inv == TypeOK /\ Places /\ OneAtTheQueue /\ FrontThere /\ QueueOrder /\ WakeUpKept

\* EventLoop starts with empty queues, quiet pipes and every thread at rest.
LEMMA InvInit == Init => Inv
<1> SUFFICES ASSUME Init PROVE Inv
  OBVIOUS
<1>1. TypeOK
  BY DEF Init, TypeOK, LoopPcs, CallPcs, HoldPcs
<1>2. Places
  BY ThreadsAssumption DEF Init, Places, LoopPcs, CallPcs, HoldPcs, Threads
<1>3. \A th \in Threads : pc[th] \in {"start", "idle"}
  BY DEF Init
<1>4. OneAtTheQueue
  BY SMTT(60), <1>3, ThreadsAssumption DEF Init, OneAtTheQueue, InQueueOf, FrontRan, CallPcs, HoldPcs, Threads
<1>5. FrontThere
  BY <1>3 DEF FrontThere, FrontRan, CallPcs, HoldPcs, Threads
<1>6. QueueOrder
  BY <1>3 DEF Init, QueueOrder, Pending, FrontRan, CallPcs, HoldPcs, Threads
<1>7. WakeUpKept
  BY DEF Init, WakeUpKept
<1> QED BY <1>1, <1>2, <1>4, <1>5, <1>6, <1>7 DEF Inv

\* Every step of a thread keeps the inductive invariant.
LEMMA InvStep == Inv /\ [Next]_vars => Inv'
BY TypeStep, PlacesStep, LockStep, FrontStep, OrderStep, WakeStep DEF Inv

\* Loop, RunInLoop and RunFunctions keep the inductive invariant, for any number
\* of loops, posting threads and tasks.
THEOREM InvHolds == Safety => []Inv
BY InvInit, InvStep, PTL DEF Safety

\* Every variable keeps its type, for any loops, threads and tasks.
THEOREM TypeCorrect == Safety => []TypeOK
<1>1. Inv => TypeOK
  BY DEF Inv
<1> QED BY <1>1, InvHolds, PTL

\* functions_ is touched only by the thread that holds lock_ (RunInLoop's and
\* RunFunctions' lock_guards), for any number of threads and loops.
THEOREM QueueExclusive == Safety => []OneAtTheQueue
<1>1. Inv => OneAtTheQueue
  BY DEF Inv
<1> QED BY <1>1, InvHolds, PTL

\* No queued task is lost, run twice or overtaken.
THEOREM OrderKept == Safety => []QueueOrder
<1>1. Inv => QueueOrder
  BY DEF Inv
<1> QED BY <1>1, InvHolds, PTL

\* A loop goes to sleep on queued tasks only if the pipe was full.
THEOREM WakeUpsKept == Safety => []WakeUpNotLost
<1>1. Inv => WakeUpNotLost
  BY DEF Inv, WakeUpKept, WakeUpNotLost
<1> QED BY <1>1, InvHolds, PTL

\* th is in RunInLoop with task t and has neither queued nor run it.
Carries(th, t) == pc[th] \in {"call", "push"} /\ call[th].task = t

\* t was queued on a loop or run without queueing.
Taken(t) == \E l \in Loops : t \in direct[l] \/ \E i \in 1 .. Len(posted[l]) : posted[l][i] = t

\* A task is in one place: nobody has handed it over, one thread carries it, or
\* it was taken once; and a body that has not begun has made no call.
Apart ==
  /\ \A t \in Tasks : want[t] = NoLoop => ~Taken(t) /\ \A th \in Threads : ~Carries(th, t)
  /\ \A t \in Tasks, th \in Threads : Carries(th, t) => ~Taken(t)
  /\ \A t \in Tasks, u, v \in Threads : Carries(u, t) /\ Carries(v, t) => u = v
  /\ \A k, l \in Loops : \A i \in 1 .. Len(posted[k]), j \in 1 .. Len(posted[l]) :
       posted[k][i] = posted[l][j] => k = l /\ i = j
  /\ \A k, l \in Loops : \A i \in 1 .. Len(posted[k]) : posted[k][i] \notin direct[l]
Uncalled == \A p \in Tasks : Spawn[p] # NoCall /\ want[Spawn[p].task] # NoLoop => Begun(p)

\* Nobody carries a task he did not carry before.
NoneNew == \A u \in Threads, x \in Tasks : Carries(u, x)' => Carries(u, x)

\* A step that hands nothing over and takes nothing.
LEMMA ApartQuiet ==
  ASSUME Apart, Uncalled, NoneNew,
         want' = want, posted' = posted, direct' = direct, ran' = ran
  PROVE  (Apart /\ Uncalled)'
BY DEF Apart, Uncalled, NoneNew, Taken, Begun

\* RunInLoop is called with a task nobody's body hands over.
LEMMA ApartStart ==
  ASSUME TypeOK, Apart, Uncalled, NEW th \in Threads, NEW t \in Roots, NEW l \in Loops, want[t] = NoLoop,
         want' = [want EXCEPT ![t] = l], posted' = posted, direct' = direct, ran' = ran,
         \A u \in Threads, x \in Tasks : Carries(u, x)' => Carries(u, x) \/ (u = th /\ x = t)
  PROVE  (Apart /\ Uncalled)'
<1>1. t \in Tasks /\ want'[t] # NoLoop /\ \A x \in Tasks : x # t => want'[x] = want[x]
  BY ThreadsAssumption DEF Roots, TypeOK
<1>2. \A x \in Tasks : Taken(x)' <=> Taken(x)
  BY DEF Taken
<1>3. Apart'
  BY <1>1, <1>2 DEF Apart
<1>4. Uncalled'
  BY <1>1, SpawnAssumption, CallType DEF Uncalled, Begun, Roots
<1> QED BY <1>3, <1>4

\* The carried task is queued.
LEMMA ApartPush ==
  ASSUME TypeOK, Apart, Uncalled, NEW th \in Threads, NEW t \in Tasks, NEW l \in Loops, Carries(th, t),
         posted' = [posted EXCEPT ![l] = Append(@, t)], want' = want, direct' = direct, ran' = ran,
         \A u \in Threads, x \in Tasks : Carries(u, x)' => Carries(u, x) /\ u # th
  PROVE  (Apart /\ Uncalled)'
<1>1. /\ Len(posted[l]) \in Nat /\ Len(posted'[l]) = Len(posted[l]) + 1
      /\ posted'[l][Len(posted[l]) + 1] = t
      /\ \A i \in 1 .. Len(posted[l]) : posted'[l][i] = posted[l][i]
      /\ \A k \in Loops : k # l => posted'[k] = posted[k]
      /\ \A k \in Loops : Len(posted[k]) \in Nat
  <2>1. \A k \in Loops : posted[k] \in Seq(Tasks)
    BY DEF TypeOK
  <2>2. posted'[l] = Append(posted[l], t) /\ \A k \in Loops : k # l => posted'[k] = posted[k]
    BY DEF TypeOK
  <2> QED BY <2>1, <2>2, AppendProperties, LenProperties
<1>2. \A x \in Tasks : Taken(x)' => Taken(x) \/ x = t
  BY <1>1 DEF Taken
<1>3. ~Taken(t) /\ want[t] # NoLoop
  BY DEF Apart
<1>4. \A k \in Loops : t \notin direct[k] /\ \A i \in 1 .. Len(posted[k]) : posted[k][i] # t
  BY <1>3 DEF Taken
<1>5. (\A k, m \in Loops : \A i \in 1 .. Len(posted[k]), j \in 1 .. Len(posted[m]) :
         posted[k][i] = posted[m][j] => k = m /\ i = j)'
  BY <1>1, <1>4 DEF Apart
<1>6. (\A k, m \in Loops : \A i \in 1 .. Len(posted[k]) : posted[k][i] \notin direct[m])'
  BY <1>1, <1>4 DEF Apart
<1>7. Apart'
  BY <1>2, <1>3, <1>5, <1>6 DEF Apart
<1> QED BY <1>7 DEF Uncalled, Begun

\* th runs the body of t: the call that body makes is one nobody has made.
Runs(th, t) ==
  /\ Spawn[t] = NoCall => want' = want
  /\ Spawn[t] # NoCall => want' = [want EXCEPT ![Spawn[t].task] = Spawn[t].loop]
  /\ \A u \in Threads, x \in Tasks :
       Carries(u, x)' => \/ Carries(u, x) /\ u # th
                         \/ u = th /\ Spawn[t] # NoCall /\ x = Spawn[t].task

\* The task that runs has not run before, so its call is new.
LEMMA CallIsNew ==
  ASSUME TypeOK, Apart, Uncalled, NEW th \in Threads, NEW t \in Tasks, ~Begun(t), Runs(th, t),
         Spawn[t] # NoCall
  PROVE  /\ Spawn[t].task \in Tasks /\ want[Spawn[t].task] = NoLoop /\ want'[Spawn[t].task] # NoLoop
         /\ \A x \in Tasks : x # Spawn[t].task => want'[x] = want[x]
         /\ ~Taken(Spawn[t].task) /\ \A u \in Threads : ~Carries(u, Spawn[t].task)
<1>1. Spawn[t].task \in Tasks /\ Spawn[t].loop \in Loops
  BY CallType
<1>2. want[Spawn[t].task] = NoLoop
  BY DEF Uncalled
<1> QED BY <1>1, <1>2, ThreadsAssumption DEF Runs, Apart, TypeOK

\* A task that runs is begun, and a call is made by one body only.
LEMMA UncalledRuns ==
  ASSUME TypeOK, Apart, Uncalled, NEW th \in Threads, NEW t \in Tasks, ~Begun(t), Runs(th, t),
         Begun(t)', \A x \in Tasks : Begun(x) => Begun(x)'
  PROVE  Uncalled'
<1> SUFFICES ASSUME NEW p \in Tasks, Spawn[p] # NoCall, want'[Spawn[p].task] # NoLoop, p # t
             PROVE  Begun(p)'
  BY DEF Uncalled
<1>1. Spawn[p].task \in Tasks
  BY CallType
<1>2. want'[Spawn[p].task] = want[Spawn[p].task]
  <2>1. CASE Spawn[t] = NoCall
    BY <2>1 DEF Runs
  <2>2. CASE Spawn[t] # NoCall
    BY <1>1, <2>2, CallIsNew, SpawnAssumption
  <2> QED BY <2>1, <2>2
<1> QED BY <1>2 DEF Uncalled

\* IsInLoopThread(): the carried task runs without the queue.
LEMMA ApartDirect ==
  ASSUME TypeOK, Apart, Uncalled, NEW th \in Loops, NEW t \in Tasks, ~Begun(t), Runs(th, t), Carries(th, t),
         direct' = [direct EXCEPT ![th] = @ \cup {t}], posted' = posted, ran' = ran
  PROVE  (Apart /\ Uncalled)'
<1>1. /\ t \in direct'[th] /\ \A l \in Loops : direct[l] \subseteq direct'[l]
      /\ \A l \in Loops : direct'[l] \subseteq direct[l] \cup {t}
  BY DEF TypeOK
<1>2. ~Taken(t) /\ want[t] # NoLoop /\ th \in Threads
  BY DEF Apart, Threads
<1>3. Begun(t)' /\ \A x \in Tasks : Begun(x) => Begun(x)'
  BY <1>1 DEF Begun
<1>4. Uncalled'
  BY <1>2, <1>3, UncalledRuns
<1>5. \A x \in Tasks : Taken(x)' => Taken(x) \/ x = t
  BY <1>1 DEF Taken
<1>6. (\A k, l \in Loops : \A i \in 1 .. Len(posted[k]) : posted[k][i] \notin direct[l])'
  BY <1>1, <1>2 DEF Apart, Taken
<1>7. Apart'
  <2>1. CASE Spawn[t] = NoCall
    BY <1>2, <1>5, <1>6, <2>1 DEF Apart, Runs
  <2>2. CASE Spawn[t] # NoCall
    <3> DEFINE c == Spawn[t].task
    <3>1. /\ c \in Tasks /\ want[c] = NoLoop /\ want'[c] # NoLoop
          /\ \A x \in Tasks : x # c => want'[x] = want[x]
          /\ ~Taken(c) /\ \A u \in Threads : ~Carries(u, c)
      BY <1>2, <2>2, CallIsNew
    <3>2. \A u \in Threads, x \in Tasks : Carries(u, x)' => (Carries(u, x) /\ u # th) \/ (u = th /\ x = c)
      BY DEF Runs
    <3> HIDE DEF c
    <3> QED BY <1>2, <1>5, <1>6, <3>1, <3>2 DEF Apart
  <2> QED BY <2>1, <2>2
<1> QED BY <1>4, <1>7

\* RunFunctions: the front task runs; it was taken when it was queued.
LEMMA ApartFront ==
  ASSUME TypeOK, Apart, Uncalled, NEW l \in Loops, NEW t \in Tasks, ~Begun(t), Runs(l, t),
         ran' = [ran EXCEPT ![l] = Append(@, t)], posted' = posted, direct' = direct
  PROVE  (Apart /\ Uncalled)'
<1>1. Begun(t)' /\ \A x \in Tasks : Begun(x) => Begun(x)'
  <2>1. Range(ran[l]) \subseteq Range(ran'[l]) /\ t \in Range(ran'[l])
    <3>1. ran[l] \in Seq(Tasks) /\ ran'[l] = Append(ran[l], t)
      BY DEF TypeOK
    <3>2. Len(ran'[l]) = Len(ran[l]) + 1 /\ ran'[l][Len(ran[l]) + 1] = t /\ Len(ran[l]) \in Nat
          /\ \A i \in 1 .. Len(ran[l]) : ran'[l][i] = ran[l][i]
          /\ DOMAIN ran[l] = 1 .. Len(ran[l]) /\ DOMAIN ran'[l] = 1 .. Len(ran'[l])
      BY <3>1, AppendProperties, LenProperties
    <3> QED BY <3>2 DEF Range
  <2>2. \A k \in Loops : k # l => ran'[k] = ran[k]
    BY DEF TypeOK
  <2> QED BY <2>1, <2>2 DEF Begun
<1>2. Uncalled'
  BY <1>1, UncalledRuns DEF Threads
<1>3. \A x \in Tasks : Taken(x)' <=> Taken(x)
  BY DEF Taken
<1>4. Apart'
  <2>1. CASE Spawn[t] = NoCall
    BY <1>3, <2>1 DEF Apart, Runs
  <2>2. CASE Spawn[t] # NoCall
    <3> DEFINE c == Spawn[t].task
    <3>1. /\ c \in Tasks /\ want[c] = NoLoop /\ want'[c] # NoLoop
          /\ \A x \in Tasks : x # c => want'[x] = want[x]
          /\ ~Taken(c) /\ \A u \in Threads : ~Carries(u, c)
      BY <2>2, CallIsNew DEF Threads
    <3>2. \A u \in Threads, x \in Tasks : Carries(u, x)' => (Carries(u, x) /\ u # l) \/ (u = l /\ x = c)
      BY DEF Runs
    <3> HIDE DEF c
    <3> QED BY <1>3, <3>1, <3>2 DEF Apart
  <2> QED BY <2>1, <2>2
<1> QED BY <1>2, <1>4

\* What a loop queued is what it ran, element by element, and then what is pending.
LEMMA PostedParts ==
  ASSUME TypeOK, FrontThere, QueueOrder, NEW k \in Loops
  PROVE  /\ Len(ran[k]) \in Nat /\ Len(posted[k]) \in Nat /\ Len(ran[k]) <= Len(posted[k])
         /\ \A i \in 1 .. Len(ran[k]) : posted[k][i] = ran[k][i]
         /\ \A x \in Range(ran[k]) \cup Range(Pending(k)) : \E i \in 1 .. Len(posted[k]) : posted[k][i] = x
         /\ Pending(k) # <<>> => /\ Len(ran[k]) + 1 \in 1 .. Len(posted[k])
                                 /\ posted[k][Len(ran[k]) + 1] = Head(Pending(k))
<1> DEFINE r == ran[k]
           p == Pending(k)
           q == posted[k]
<1>1. r \in Seq(Tasks) /\ p \in Seq(Tasks) /\ q \in Seq(Tasks) /\ q = r \o p
  BY HeadTailProperties DEF TypeOK, FrontThere, Pending, QueueOrder
<1> HIDE DEF r, p, q
<1>2. /\ Len(r) \in Nat /\ Len(p) \in Nat /\ Len(q) = Len(r) + Len(p)
      /\ DOMAIN r = 1 .. Len(r) /\ DOMAIN p = 1 .. Len(p)
      /\ \A i \in 1 .. Len(r) : q[i] = r[i]
      /\ \A i \in 1 .. Len(p) : q[Len(r) + i] = p[i]
  BY <1>1, ConcatProperties, LenProperties
<1>3. p # <<>> => Len(p) > 0 /\ Head(p) = p[1]
  BY <1>1, HeadTailProperties, EmptySeq
<1>4. \A x \in Range(r) : \E i \in 1 .. Len(q) : q[i] = x
  BY <1>2 DEF Range
<1>5. \A x \in Range(p) : \E i \in 1 .. Len(q) : q[i] = x
  <2> SUFFICES ASSUME NEW i \in 1 .. Len(p) PROVE \E j \in 1 .. Len(q) : q[j] = p[i]
    BY <1>2 DEF Range
  <2>1. Len(r) + i \in 1 .. Len(q) /\ q[Len(r) + i] = p[i]
    BY <1>2
  <2> QED BY <2>1
<1>6. p # <<>> => Len(r) + 1 \in 1 .. Len(q) /\ q[Len(r) + 1] = Head(p)
  BY <1>2, <1>3
<1> QED BY <1>2, <1>4, <1>5, <1>6 DEF r, p, q

\* A task that has begun was taken, and so was one that is pending.
LEMMA BegunTaken ==
  ASSUME TypeOK, FrontThere, QueueOrder, NEW x \in Tasks
  PROVE  /\ Begun(x) => Taken(x)
         /\ \A k \in Loops : x \in Range(Pending(k)) => Taken(x)
BY PostedParts DEF Begun, Taken

\* The front task of a queue has not begun.
LEMMA FrontIsNew ==
  ASSUME TypeOK, FrontThere, QueueOrder, Apart, NEW l \in Loops, Pending(l) # <<>>
  PROVE  Head(Pending(l)) \in Tasks /\ ~Begun(Head(Pending(l)))
<1> DEFINE t == Head(Pending(l))
           n == Len(ran[l]) + 1
<1>1. n \in 1 .. Len(posted[l]) /\ posted[l][n] = t /\ Len(ran[l]) \in Nat
  BY PostedParts
<1>2. t \in Tasks
  BY <1>1, LenProperties, ElementOfSeq DEF TypeOK
<1>3. \A k \in Loops : t \notin direct[k]
  BY <1>1 DEF Apart
<1>4. ASSUME NEW k \in Loops, t \in Range(ran[k]) PROVE FALSE
  <2>1. PICK i \in 1 .. Len(ran[k]) : ran[k][i] = t
    BY <1>4, LenProperties DEF TypeOK, Range
  <2>2. i \in 1 .. Len(posted[k]) /\ posted[k][i] = t
    BY <2>1, PostedParts
  <2>3. k = l /\ i = n
    BY <1>1, <2>2 DEF Apart
  <2> QED BY <1>1, <2>1, <2>3
<1> QED BY <1>2, <1>3, <1>4 DEF Begun

\* What the body of the task in t's place in RunInLoop or RunFunctions does.
LEMMA BodyRuns ==
  ASSUME TypeOK, NEW th \in Threads, NEW t \in Tasks,
         NEW back \in {"idle", "dispatch", "timer", "pop"}, Body(th, t, back)
  PROVE  Runs(th, t)
<1>1. /\ pc' = [pc EXCEPT ![th] = IF Spawn[t] = NoCall THEN back ELSE "call"]
      /\ call' = [call EXCEPT ![th] = Spawn[t]]
  BY BodyChanges
<1>2. /\ Spawn[t] = NoCall => want' = want
      /\ Spawn[t] # NoCall => want' = [want EXCEPT ![Spawn[t].task] = Spawn[t].loop]
  BY DEF Body, StartCall
<1>3. ASSUME NEW u \in Threads, NEW x \in Tasks, Carries(u, x)'
      PROVE  (Carries(u, x) /\ u # th) \/ (u = th /\ Spawn[t] # NoCall /\ x = Spawn[t].task)
  <2>1. CASE u = th
    BY <1>1, <1>3, <2>1 DEF Carries, TypeOK
  <2>2. CASE u # th
    BY <1>1, <1>3, <2>2 DEF Carries, TypeOK
  <2> QED BY <2>1, <2>2
<1> QED BY <1>2, <1>3 DEF Runs

\* What a call of RunInLoop begins with.
LEMMA StartCarries ==
  ASSUME TypeOK, NEW th \in Threads, NEW c \in Calls, NEW back, StartCall(th, c, back)
  PROVE  \A u \in Threads, x \in Tasks : Carries(u, x)' => Carries(u, x) \/ (u = th /\ x = c.task)
BY DEF StartCall, Goto, Carries, TypeOK

\* Every step keeps each task in one place.
LEMMA ApartStep ==
  Inv /\ Apart /\ Uncalled /\ [Next]_vars => (Apart /\ Uncalled)'
<1> SUFFICES ASSUME Inv, Apart, Uncalled, [Next]_vars PROVE (Apart /\ Uncalled)'
  OBVIOUS
<1>i. TypeOK /\ Places /\ OneAtTheQueue /\ FrontThere /\ QueueOrder
  BY DEF Inv
<1> USE DEF callVars, loopVars, queueVars, pipeVars, doneVars
<1>1. ASSUME NEW th \in Threads, CallDirect(th) PROVE (Apart /\ Uncalled)'
  <2> DEFINE t == call[th].task
  <2>1. pc[th] = "call" /\ call[th].loop = th /\ call[th] \in Calls /\ t \in Tasks /\ th \in Loops
    BY <1>i, <1>1, CallType DEF CallDirect, Places, CallPcs
  <2>2. Runs(th, t)
    BY <1>i, <1>1, <2>1, BodyRuns DEF CallDirect, TypeOK
  <2>3. Carries(th, t) /\ ~Begun(t)
    BY <1>i, <2>1, BegunTaken DEF Carries, Apart
  <2>4. direct' = [direct EXCEPT ![th] = @ \cup {t}] /\ posted' = posted /\ ran' = ran
    BY <1>1 DEF CallDirect
  <2> QED BY <1>i, <2>1, <2>2, <2>3, <2>4, ApartDirect
<1>2. ASSUME NEW th \in Threads, CallLock(th) PROVE (Apart /\ Uncalled)'
  BY <1>i, <1>2, ApartQuiet DEF CallLock, Goto, NoneNew, Carries, TypeOK
<1>3. ASSUME NEW th \in Threads, CallPush(th) PROVE (Apart /\ Uncalled)'
  <2>1. pc[th] = "push" /\ call[th] \in Calls /\ call[th].task \in Tasks /\ call[th].loop \in Loops
    BY <1>i, <1>3, CallType DEF CallPush, Places, CallPcs, HoldPcs
  <2>2. Carries(th, call[th].task)
    BY <2>1 DEF Carries
  <2>3. \A u \in Threads, x \in Tasks : Carries(u, x)' => Carries(u, x) /\ u # th
    BY <1>i, <1>3 DEF CallPush, Goto, Carries, TypeOK
  <2> QED BY <1>i, <1>3, <2>1, <2>2, <2>3, ApartPush DEF CallPush
<1>4. ASSUME NEW th \in Threads, CallOpen(th) PROVE (Apart /\ Uncalled)'
  BY <1>i, <1>4, ApartQuiet DEF CallOpen, Goto, NoneNew, Carries, TypeOK
<1>5. ASSUME NEW th \in Threads, CallWrite(th) PROVE (Apart /\ Uncalled)'
  <2>1. NoneNew
    BY <1>i, <1>5 DEF CallWrite, Goto, NoneNew, Carries, TypeOK
  <2> QED BY <1>5, <2>1, ApartQuiet DEF CallWrite
<1>6. ASSUME NEW th \in Threads, NEW l \in Loops, NEW t \in Roots, NEW back, want[t] = NoLoop,
             StartCall(th, [loop |-> l, task |-> t], back), posted' = posted, direct' = direct, ran' = ran
      PROVE  (Apart /\ Uncalled)'
  <2> DEFINE c == [loop |-> l, task |-> t]
  <2>1. c \in Calls /\ c.loop = l /\ c.task = t
    BY CallType DEF Roots
  <2>2. \A u \in Threads, x \in Tasks : Carries(u, x)' => Carries(u, x) \/ (u = th /\ x = t)
    BY <1>i, <1>6, <2>1, StartCarries
  <2>3. want' = [want EXCEPT ![t] = l]
    BY <1>6, <2>1 DEF StartCall
  <2> QED BY <1>i, <1>6, <2>2, <2>3, ApartStart
<1>7. ASSUME NEW th \in Posters, NEW l \in Loops, NEW t \in Tasks, PosterCall(th, l, t) PROVE (Apart /\ Uncalled)'
  BY <1>6, <1>7 DEF PosterCall, Threads
<1>8. ASSUME NEW th \in Loops, NEW l \in Loops, NEW t \in Tasks, HandlerCall(th, l, t) PROVE (Apart /\ Uncalled)'
  BY <1>6, <1>8 DEF HandlerCall, Threads
<1>9. ASSUME NEW l \in Loops, RunFront(l) PROVE (Apart /\ Uncalled)'
  <2> DEFINE t == Head(Pending(l))
  <2>1. Pending(l) # <<>> /\ t = Head(functions[l]) /\ ran' = [ran EXCEPT ![l] = Append(@, t)]
        /\ posted' = posted /\ direct' = direct
    BY <1>i, <1>9, PendingBegun
  <2>2. t \in Tasks /\ ~Begun(t)
    BY <1>i, <2>1, FrontIsNew
  <2>3. Runs(l, t)
    BY <1>i, <1>9, <2>1, <2>2, BodyRuns DEF RunFront, Threads
  <2> QED BY <1>i, <2>1, <2>2, <2>3, ApartFront
<1>10. ASSUME NEW l \in Loops,
              \/ LoopStart(l) \/ LoopCheck(l) \/ EpollPipe(l) \/ EpollOther(l) \/ ReadPipe(l) \/ DispatchDone(l)
              \/ RunLock(l) \/ RunPop(l) \/ RunDone(l) \/ TimerDone(l) \/ EpollError(l) \/ Quit(l)
       PROVE  (Apart /\ Uncalled)'
  <2>1. call' = call /\ want' = want /\ posted' = posted /\ direct' = direct /\ ran' = ran
    BY <1>10 DEF LoopStart, LoopCheck, EpollPipe, EpollOther, ReadPipe, DispatchDone, RunLock, RunPop, RunDone,
                 TimerDone, EpollError, Quit
  <2>2. \/ pc' = pc
        \/ \E place \in {"check", "wait", "exit", "read", "dispatch", "lock", "run", "timer"} :
             pc' = [pc EXCEPT ![l] = place]
    BY <1>10 DEF LoopStart, LoopCheck, EpollPipe, EpollOther, ReadPipe, DispatchDone, RunLock, RunPop, RunDone,
                 TimerDone, EpollError, Quit, Goto
  <2>3. NoneNew
    BY <1>i, <2>1, <2>2 DEF NoneNew, Carries, TypeOK
  <2> QED BY <2>1, <2>3, ApartQuiet
<1>11. CASE UNCHANGED vars
  BY <1>11, ApartQuiet DEF vars, NoneNew, Carries
<1> QED
  BY <1>1, <1>2, <1>3, <1>4, <1>5, <1>7, <1>8, <1>9, <1>10, <1>11 DEF Next, InCall, InLoop, EpollReturn

\* Empty queues are the empty queues of TaskQueue.
LEMMA QueueInit == Init => Queue!Init
<1> SUFFICES ASSUME Init PROVE Queue!Init
  OBVIOUS
<1>1. \A l \in Loops : Pending(l) = <<>>
  BY DEF Init, Pending, FrontRan, CallPcs, HoldPcs, Threads
<1> QED BY <1>1 DEF Init, Queue!Init

\* A task that was not taken is fresh.
LEMMA NotTakenFresh ==
  ASSUME TypeOK, FrontThere, QueueOrder, NEW t \in Tasks, ~Taken(t)
  PROVE  Queue!Fresh(t)
<1>1. \A l \in Loops : t \notin Range(Pending(l)) /\ t \notin direct[l] /\ ~Begun(t)
  BY BegunTaken DEF Taken
<1>2. \A f : Queue!Range(f) = Range(f)
  BY DEF Range, Queue!Range
<1> QED BY <1>1, <1>2 DEF Queue!Fresh, Begun

\* Every step of the loops and threads is a step of TaskQueue or leaves it alone.
LEMMA QueueStep ==
  Inv /\ Apart /\ [Next]_vars => [Queue!Next]_Queue!vars
<1> SUFFICES ASSUME Inv, Apart, [Next]_vars PROVE [Queue!Next]_Queue!vars
  OBVIOUS
<1> DEFINE bar == [l \in Loops |-> Pending(l)]
<1>i. TypeOK /\ Places /\ OneAtTheQueue /\ FrontThere /\ QueueOrder
  BY DEF Inv
<1>b. bar' = [l \in Loops |-> Pending(l)']
  OBVIOUS
<1>1. CASE \E th \in Threads : CallPush(th)
  <2>1. PICK th \in Threads : CallPush(th)
    BY <1>1
  <2> DEFINE l == call[th].loop
             t == call[th].task
  <2>2. /\ l \in Loops /\ t \in Tasks /\ ran' = ran /\ direct' = direct
        /\ \A k \in Loops : /\ k = l => Pending(k)' = Append(Pending(k), t)
                            /\ k # l => Pending(k)' = Pending(k)
    <3>1. PICK some \in Loops : TRUE
      BY <1>i, <2>1, CallType DEF CallPush, Places, CallPcs, HoldPcs
    <3> QED BY <1>i, <2>1, <3>1, PendingPushed
  <2>3. Queue!Fresh(t)
    BY <1>i, <2>1, <2>2, NotTakenFresh DEF Apart, Carries, CallPush
  <2>4. bar' = [bar EXCEPT ![l] = Append(@, t)]
    BY <1>b, <2>2
  <2>5. Queue!Post(l, t)
    BY <2>2, <2>3, <2>4 DEF Queue!Post
  <2> QED BY <2>2, <2>5 DEF Queue!Next
<1>2. CASE \E l \in Loops : RunFront(l)
  <2>1. PICK l \in Loops : RunFront(l)
    BY <1>2
  <2>2. /\ Pending(l) # <<>> /\ Pending(l)' = Tail(Pending(l))
        /\ ran' = [ran EXCEPT ![l] = Append(@, Head(Pending(l)))] /\ direct' = direct
    BY <1>i, <2>1, PendingBegun
  <2>3. \A k \in Loops : k # l => Pending(k)' = Pending(k)
    <3> SUFFICES ASSUME NEW k \in Loops, k # l PROVE Pending(k)' = Pending(k)
      OBVIOUS
    <3>1. functions' = functions /\ ~RunFront(k)
      BY <1>i, <2>1 DEF RunFront, TypeOK, queueVars
    <3>2. ~RunPop(k)
      BY <1>i, <2>1 DEF RunFront, RunPop, Body, StartCall, Goto, Threads, TypeOK
    <3>3. FrontRan(k)' <=> FrontRan(k)
      BY <1>i, <3>1, <3>2, FrontKept
    <3> QED BY <3>1, <3>3 DEF Pending
  <2>4. bar' = [bar EXCEPT ![l] = Tail(@)]
    BY <1>b, <2>2, <2>3
  <2>5. Queue!RunOldest(l)
    BY <2>2, <2>4 DEF Queue!RunOldest
  <2> QED BY <2>5 DEF Queue!Next
<1>3. CASE (\A th \in Threads : ~CallPush(th)) /\ (\A l \in Loops : ~RunFront(l))
  <2>1. bar' = bar
    BY <1>i, <1>b, <1>3, PendingKept
  <2>2. ran' = ran
    BY <1>3, RanKept
  <2>3. CASE \E th \in Threads : CallDirect(th)
    <3>1. PICK th \in Threads : CallDirect(th)
      BY <2>3
    <3> DEFINE t == call[th].task
    <3>2. pc[th] = "call" /\ t \in Tasks /\ th \in Loops
      BY <1>i, <3>1, CallType DEF CallDirect, Places, CallPcs
    <3>3. Queue!Fresh(t)
      BY <1>i, <3>2, NotTakenFresh DEF Apart, Carries, Threads
    <3>4. Queue!RunAtOnce(th, t)
      BY <2>1, <2>2, <3>1, <3>3 DEF CallDirect, Queue!RunAtOnce
    <3> QED BY <3>2, <3>4 DEF Queue!Next
  <2>4. CASE \A th \in Threads : ~CallDirect(th)
    <3>1. direct' = direct
      BY <1>3, <2>4 DEF Next, InCall, InLoop, EpollReturn, vars, doneVars, CallLock, CallOpen, CallWrite,
           PosterCall, HandlerCall, LoopStart, LoopCheck, EpollPipe, EpollOther, ReadPipe, DispatchDone,
           RunLock, RunPop, RunDone, TimerDone, EpollError, Quit
    <3> QED BY <2>1, <2>2, <3>1 DEF Queue!vars
  <2> QED BY <2>3, <2>4
<1> QED BY <1>1, <1>2, <1>3

\* Before anybody calls RunInLoop every task is in one place: nowhere.
LEMMA ApartInit == Init => Apart /\ Uncalled
<1> SUFFICES ASSUME Init PROVE Apart /\ Uncalled
  OBVIOUS
<1>1. /\ \A th \in Threads, t \in Tasks : ~Carries(th, t)
      /\ \A l \in Loops : posted[l] = <<>> /\ Len(posted[l]) = 0 /\ direct[l] = {}
      /\ \A t \in Tasks : want[t] = NoLoop
  BY DEF Init, Carries
<1>2. \A p \in Tasks : Spawn[p] # NoCall => Spawn[p].task \in Tasks
  BY CallType
<1> QED BY <1>1, <1>2 DEF Apart, Uncalled, Taken

\* A task is carried by one thread or was taken once, on whatever loops and by
\* whatever bodies tasks are handed over.
THEOREM TasksApart == Safety => [](Apart /\ Uncalled)
<1>1. Init => Inv /\ Apart /\ Uncalled
  BY InvInit, ApartInit
<1>2. Inv /\ Apart /\ Uncalled /\ [Next]_vars => (Inv /\ Apart /\ Uncalled)'
  BY InvStep, ApartStep
<1> QED BY <1>1, <1>2, PTL DEF Safety

\* RunInLoop, RunFunctions and the wake-ups implement TaskQueue: whatever the
\* loops, threads and tasks are, a task is queued once and the oldest begins, or
\* it runs at once in the loop's own thread.
THEOREM QueueImplemented == Safety => QueueSpec
<1>1. Init => Queue!Init
  BY QueueInit
<1>2. Inv /\ Apart /\ [Next]_vars => [Queue!Next]_Queue!vars
  BY QueueStep
<1> QED BY <1>1, <1>2, InvHolds, TasksApart, PTL DEF Safety, QueueSpec, Queue!Spec

=============================================================================
