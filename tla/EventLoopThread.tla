--------------------------- MODULE EventLoopThread ---------------------------
(***************************************************************************)
(* One network::EventLoopThread: its constructor starts a child thread,     *)
(* Run lets the child publish its EventLoop and waits for that, and the     *)
(* destructor makes the child leave Loop and joins it.                     *)
(*                                                                         *)
(* The child is a lambda started by the member thread_, which is           *)
(* constructed BEFORE running_, lock_, condition_, once_ and promise_loop.  *)
(* A child that is fast enough uses them before they exist; what the        *)
(* program does then is undefined, and the model stops (overtaken).         *)
(***************************************************************************)
CONSTANTS
  Users,        \* the threads that call Run
  Owner,        \* the one that constructs and destroys the object
  Child, NoThread

ASSUME UsersAssumption ==
  /\ Owner \in Users
  /\ Child \notin Users
  /\ NoThread \notin Users \cup {Child}

VARIABLES
  built,     \* the constructor is through
  dying,     \* the destructor has begun
  user,      \* user[u]: where u is in Run or in the destructor
  child,     \* where the child is in StartEventLoop
  running,   \* running_
  lock,      \* lock_: who holds it
  once,      \* once_
  loop,      \* loop_ is not null
  promised,  \* promise_loop has its value
  looping,   \* looping_ of the child's EventLoop
  quitters,  \* somebody else may call Quit on the published loop
  overtaken  \* the child used the members before they were constructed

handVars == <<running, lock, once, promised>>
loopVars == <<loop, looping>>
worldVars == <<quitters, overtaken>>
vars == <<built, dying, user, child, handVars, loopVars, worldVars>>

InRun == {"once", "lock", "get"}

Init ==
  /\ built = FALSE /\ dying = FALSE
  /\ user = [u \in Users |-> "idle"]
  /\ child = "new"
  /\ running = FALSE /\ lock = NoThread /\ once = "new" /\ promised = FALSE
  /\ loop = FALSE /\ looping = FALSE
  /\ quitters \in BOOLEAN /\ overtaken = FALSE

UserAt(u, from, to) == user[u] = from /\ user' = [user EXCEPT ![u] = to]
ChildAt(from, to) == child = from /\ child' = to

-----------------------------------------------------------------------------
(* The constructor and StartEventLoop.                                     *)

\* thread_ has started the child; the members behind it get their first values.
Construct ==
  /\ ~built
  /\ built' = TRUE
  /\ overtaken' = (child \notin {"new", "lock"})
  /\ UNCHANGED <<dying, user, child, handVars, loopVars, quitters>>

\* The child enters StartEventLoop and constructs its EventLoop.
ChildStarts ==
  /\ ChildAt("new", "lock")
  /\ UNCHANGED <<built, dying, user, handVars, loopVars, worldVars>>

\* It takes lock_, for the first time or when it wakes up.
ChildLocks ==
  /\ lock = NoThread /\ lock' = Child
  /\ ChildAt("lock", "test") \/ ChildAt("wake", "test")
  /\ UNCHANGED <<built, dying, user, running, once, promised, loopVars, worldVars>>

\* condition_.wait: it goes on if running_ is set, else it releases lock_ and sleeps.
ChildTests ==
  \/ /\ running
     /\ ChildAt("test", "publish")
     /\ UNCHANGED <<built, dying, user, handVars, loopVars, worldVars>>
  \/ /\ ~running
     /\ ChildAt("test", "sleep")
     /\ lock' = NoThread
     /\ UNCHANGED <<built, dying, user, running, once, promised, loopVars, worldVars>>

\* condition_ wakes it up without a notification.
ChildSpurious ==
  /\ ChildAt("sleep", "wake")
  /\ UNCHANGED <<built, dying, user, handVars, loopVars, worldVars>>

ChildPublishes ==
  /\ ChildAt("publish", "promise")
  /\ loop' = TRUE
  /\ UNCHANGED <<built, dying, user, handVars, looping, worldVars>>

ChildPromises ==
  /\ ChildAt("promise", "begin")
  /\ promised' = TRUE
  /\ UNCHANGED <<built, dying, user, running, lock, once, loopVars, worldVars>>

\* loop.Loop() begins: looping_ = true.
ChildBegins ==
  /\ ChildAt("begin", "turn")
  /\ looping' = TRUE
  /\ UNCHANGED <<built, dying, user, handVars, loop, worldVars>>

\* Mutant: Loop may return though nobody called Quit.
ChildLeavesEarly ==
  /\ ChildAt("turn", "clear")
  /\ UNCHANGED <<built, dying, user, handVars, loopVars, worldVars>>

\* The while condition is false after some turn.
ChildLeaves ==
  /\ ~looping
  /\ ChildAt("turn", "clear")
  /\ UNCHANGED <<built, dying, user, handVars, loopVars, worldVars>>

\* loop_ = nullptr; lock_, held since before Loop, is free; the EventLoop is gone.
ChildEnds ==
  /\ ChildAt("clear", "end")
  /\ loop' = FALSE
  /\ lock' = NoThread
  /\ UNCHANGED <<built, dying, user, running, once, promised, looping, worldVars>>

-----------------------------------------------------------------------------
(* Run.                                                                    *)

RunEnter(u) ==
  /\ built /\ ~dying
  /\ UserAt(u, "idle", "once")
  /\ UNCHANGED <<built, dying, child, handVars, loopVars, worldVars>>

\* call_once: the first caller runs the body, the others wait until it is through.
OnceFirst(u) ==
  /\ once = "new" /\ once' = "busy"
  /\ UserAt(u, "once", "lock")
  /\ UNCHANGED <<built, dying, child, running, lock, promised, loopVars, worldVars>>

\* Mutant: a later caller does not wait for the first one.
OnceLaterHasty(u) ==
  /\ once # "new"
  /\ UserAt(u, "once", "back")
  /\ UNCHANGED <<built, dying, child, handVars, loopVars, worldVars>>

OnceLater(u) ==
  /\ once = "done"
  /\ UserAt(u, "once", "back")
  /\ UNCHANGED <<built, dying, child, handVars, loopVars, worldVars>>

\* Mutant: running_ is set without a notification.
RunNotifiesNobody(u) ==
  /\ lock = NoThread
  /\ UserAt(u, "lock", "get")
  /\ running' = TRUE
  /\ UNCHANGED <<built, dying, child, lock, once, promised, loopVars, worldVars>>

\* The block under lock_: running_ = true, notify_all.
RunNotify(u) ==
  /\ lock = NoThread
  /\ UserAt(u, "lock", "get")
  /\ running' = TRUE
  /\ child' = IF child = "sleep" THEN "wake" ELSE child
  /\ UNCHANGED <<built, dying, lock, once, promised, loopVars, worldVars>>

\* f.get() returns, call_once is through.
RunGet(u) ==
  /\ promised
  /\ UserAt(u, "get", "back")
  /\ once' = "done"
  /\ UNCHANGED <<built, dying, child, running, lock, promised, loopVars, worldVars>>

-----------------------------------------------------------------------------
(* The destructor, in the owner; nobody else may be in Run.                *)

Destroy ==
  /\ built /\ ~dying
  /\ \A u \in Users : user[u] \notin InRun
  /\ dying' = TRUE
  /\ user' = [user EXCEPT ![Owner] = "once"]
  /\ UNCHANGED <<built, child, handVars, loopVars, worldVars>>

\* Mutant: the destructor looks at loop_ under lock_.
DtorTestLocked ==
  /\ dying /\ lock = NoThread
  /\ UserAt(Owner, "back", IF loop THEN "quit" ELSE "join")
  /\ UNCHANGED <<built, dying, child, handVars, loopVars, worldVars>>

\* if (loop_), without lock_.
DtorTest ==
  /\ dying
  /\ UserAt(Owner, "back", IF loop THEN "quit" ELSE "join")
  /\ UNCHANGED <<built, dying, child, handVars, loopVars, worldVars>>

DtorQuit ==
  /\ UserAt(Owner, "quit", "join")
  /\ looping' = FALSE
  /\ UNCHANGED <<built, dying, child, handVars, loop, worldVars>>

DtorJoin ==
  /\ child = "end"
  /\ UserAt(Owner, "join", "gone")
  /\ UNCHANGED <<built, dying, child, handVars, loopVars, worldVars>>

\* Quit by a user that got the pointer from Loop(), or by a task of the loop.
QuitElsewhere ==
  /\ quitters /\ loop /\ looping
  /\ looping' = FALSE
  /\ UNCHANGED <<built, dying, user, child, handVars, loop, worldVars>>

-----------------------------------------------------------------------------
ChildSteps ==
  \/ ChildStarts \/ ChildLocks \/ ChildTests \/ ChildPublishes \/ ChildPromises
  \/ ChildBegins \/ ChildLeaves \/ ChildEnds
RunSteps(u) == OnceFirst(u) \/ OnceLater(u) \/ RunNotify(u) \/ RunGet(u)
DtorSteps == DtorTest \/ DtorQuit \/ DtorJoin

Next ==
  /\ ~overtaken
  /\ \/ Construct \/ ChildSteps \/ ChildSpurious \/ DtorSteps \/ Destroy \/ QuitElsewhere
     \/ \E u \in Users : RunEnter(u) \/ RunSteps(u)

\* The scheduler runs every thread that can step; nobody has to call Run,
\* destroy the object or quit the loop, nothing has to wake up spuriously.  A
\* thread that waits for lock_ gets it if it is free again and again.
Fairness ==
  /\ WF_vars(Construct) /\ WF_vars(ChildSteps) /\ WF_vars(DtorSteps)
  /\ \A u \in Users : WF_vars(RunSteps(u)) /\ SF_vars(RunNotify(u))

Safety == Init /\ [][Next]_vars
Spec == Safety /\ Fairness

-----------------------------------------------------------------------------
(* Properties.                                                             *)

\* Whoever comes back from Run, the caller that ran the body of call_once or
\* one that found it done, gets a loop from Loop(), unless it has ended since.
RunPublishes ==
  \A u \in Users : user[u] = "back" => loop \/ child = "end"

\* The destructor, which looks at loop_ without lock_, calls Quit on an EventLoop
\* that exists, as long as nobody else quits it in between.
QuitFindsTheLoop == user[Owner] = "quit" /\ ~quitters => child # "end"

\* Run comes back: notify_all, the wait on condition_ and the promise do not
\* miss each other.
RunReturns == \A u \in Users : user[u] \in InRun ~> user[u] \notin InRun

\* The destructor comes back: the child leaves Loop after Quit and is joined.
DestructorReturns == dying ~> user[Owner] = "gone"

\* It does so when the child is past the start of Loop: lock_, held by the
\* child all the time, does not keep the destructor from Quit and join.
RunningLoopIsJoined == (dying /\ user[Owner] = "back" /\ child = "turn") ~> user[Owner] = "gone"
=============================================================================
