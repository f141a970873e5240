------------------------------ MODULE TaskQueue ------------------------------
(***************************************************************************)
(* What EventLoop::RunInLoop promises its callers (EventLoop.h, the comment *)
(* above RunInLoop): a task handed to a loop by another thread is queued    *)
(* and the loop's own thread runs it, in the order the tasks were queued; a *)
(* task handed over by the loop's own thread runs at once.  Either way a    *)
(* task runs once, on the loop it was given to.                             *)
(***************************************************************************)
EXTENDS Sequences, Functions

CONSTANTS Loops,   \* the event loops
          Tasks    \* the tasks, each handed over at most once

VARIABLES
  pending,         \* pending[l]: the tasks queued on l that have not begun
  ran,             \* ran[l]: the queued tasks l has begun, in that order
  direct           \* direct[l]: the tasks l ran without queueing them

vars == <<pending, ran, direct>>

Fresh(t) == \A l \in Loops : t \notin Range(pending[l]) \cup Range(ran[l]) \cup direct[l]

Init ==
  /\ pending = [l \in Loops |-> <<>>]
  /\ ran = [l \in Loops |-> <<>>]
  /\ direct = [l \in Loops |-> {}]

\* Another thread hands t to l.
Post(l, t) ==
  /\ Fresh(t)
  /\ pending' = [pending EXCEPT ![l] = Append(@, t)]
  /\ UNCHANGED <<ran, direct>>

\* The thread of l hands t to l.
RunAtOnce(l, t) ==
  /\ Fresh(t)
  /\ direct' = [direct EXCEPT ![l] = @ \cup {t}]
  /\ UNCHANGED <<pending, ran>>

\* The thread of l begins the oldest queued task.
RunOldest(l) ==
  /\ pending[l] # <<>>
  /\ ran' = [ran EXCEPT ![l] = Append(@, Head(pending[l]))]
  /\ pending' = [pending EXCEPT ![l] = Tail(@)]
  /\ UNCHANGED direct

Next ==
  \E l \in Loops :
    \/ RunOldest(l)
    \/ \E t \in Tasks : Post(l, t) \/ RunAtOnce(l, t)

Spec == Init /\ [][Next]_vars
=============================================================================
