------------------------- MODULE EventLoopThreadPool -------------------------
(***************************************************************************)
(* network::EventLoopThreadPool: Start runs the threads one after another   *)
(* and GetNextLoop hands their loops out in turn, with the counter          *)
(* loop_index_, an atomic int that is read in one step and incremented in   *)
(* another.  The last thread of the pool is an EventLoopThread in all its    *)
(* detail: the owner of the pool is in its Run when Start reaches it, and     *)
(* other threads may call it too.  The threads before it come back from Run   *)
(* at once and go on.                                                       *)
(***************************************************************************)
EXTENDS EventLoopThread, Integers

CONSTANTS
  Size,       \* threads_.size()
  Callers,    \* the threads that call GetNextLoop
  IntBits,    \* width of the counter (32 in the code)
  SizeBits,   \* width of size_t, the type of index % threads_.size() (64)
  FirstIndex, \* the counter's value when the model starts (0 in a new pool)
  MaxCalls    \* bound: the calls of GetNextLoop that are modelled

ASSUME SizesAssumption ==
  /\ Size \in Nat \ {0}
  /\ IntBits \in Nat \ {0} /\ SizeBits \in Nat /\ IntBits <= SizeBits
  /\ Size <= 2 ^ SizeBits
  /\ FirstIndex \in -(2 ^ (IntBits - 1)) .. 2 ^ (IntBits - 1) - 1
  /\ MaxCalls \in Nat

NoIndex == 2 ^ IntBits    \* no value of the counter
Last == Size - 1

VARIABLES
  started,    \* how many threads Start has run
  loop_index, \* loop_index_
  seen,       \* seen[c]: the value c has read, or NoIndex
  reads,      \* calls of GetNextLoop that have read the counter
  null        \* GetNextLoop returned null last, or not an element of threads_

callVars == <<loop_index, seen, reads, null>>
poolVars == <<vars, started, callVars>>

PoolInit ==
  /\ Init
  /\ started = 0
  /\ loop_index = FirstIndex
  /\ seen = [c \in Callers |-> NoIndex]
  /\ reads = 0
  /\ null = FALSE

\* Mutant: the remainder of an int, negative for a negative counter.
SlotOfInt(i) == IF i < 0 THEN -((-i) % Size) ELSE i % Size

\* index % threads_.size(): the int becomes a size_t first.
SlotOf(i) == (i % 2 ^ SizeBits) % Size

\* loop_index_++ on an atomic int wraps.
Next_index(i) == IF i = 2 ^ (IntBits - 1) - 1 THEN -(2 ^ (IntBits - 1)) ELSE i + 1

\* Start: t->Run() has come back for one thread and the next one follows.  The
\* owner is in Run of the last thread as its user.
Start ==
  /\ started < Size
  /\ started = Last => user[Owner] = "back"
  /\ started' = started + 1
  /\ UNCHANGED <<vars, callVars>>

\* int index = loop_index_
ReadIndex(c) ==
  /\ seen[c] = NoIndex /\ reads < MaxCalls
  /\ seen' = [seen EXCEPT ![c] = loop_index]
  /\ reads' = reads + 1
  /\ UNCHANGED <<vars, started, loop_index, null>>

\* What threads_[s]->Loop() returns is no loop: s is out of range, the thread
\* has not been run or, for the last one, loop_ is null.
NoLoopIn(s) == s \notin 0 .. started - 1 \/ (s = Last /\ ~loop)

\* Mutant: the counter is set from the value read before.
HandOutStale(c) ==
  /\ seen[c] # NoIndex /\ ~dying
  /\ loop_index' = Next_index(seen[c])
  /\ null' = NoLoopIn(SlotOf(seen[c]))
  /\ seen' = [seen EXCEPT ![c] = NoIndex]
  /\ UNCHANGED <<vars, started, reads>>

\* loop_index_++, then threads_[...]->Loop() for the value read before; nobody
\* calls it when the pool is being destroyed.
HandOut(c) ==
  /\ seen[c] # NoIndex /\ ~dying
  /\ loop_index' = Next_index(loop_index)
  /\ null' = NoLoopIn(SlotOf(seen[c]))
  /\ seen' = [seen EXCEPT ![c] = NoIndex]
  /\ UNCHANGED <<vars, started, reads>>

\* A step of the last thread; the owner calls its Run when Start has come there.
ThreadStep ==
  /\ Next
  /\ user[Owner] = "idle" /\ user'[Owner] = "once" => dying' \/ started = Last
  /\ UNCHANGED <<started, callVars>>

PoolNext ==
  \/ Start \/ ThreadStep
  \/ \E c \in Callers : ReadIndex(c) \/ HandOut(c)

PoolSpec == PoolInit /\ [][PoolNext]_poolVars /\ Fairness

-----------------------------------------------------------------------------
(* Properties.                                                             *)

\* Every call counts: when nobody is inside GetNextLoop the counter has moved
\* on by one for each call, around its whole range.
EveryCallCounts ==
  (\A c \in Callers : seen[c] = NoIndex)
    => (loop_index - FirstIndex - reads) % 2 ^ IntBits = 0

\* Once Start is through, a caller of GetNextLoop gets no null, and no index out
\* of range, also when the counter has become negative: but for a loop that has ended.
StartedIsNotNull == [][started = Size /\ null' => null \/ child = "end"]_poolVars
=============================================================================
