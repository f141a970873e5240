---------------------- MODULE EventLoopThreadPoolProofs ----------------------
(***************************************************************************)
(* Proofs about EventLoopThread and EventLoopThreadPool, for any threads,   *)
(* any number of calls, any width of the counter and any size of the pool.  *)
(* HandShake is the inductive invariant of one EventLoopThread; a pool      *)
(* takes no other steps of its last thread, so it holds there too.          *)
(***************************************************************************)
EXTENDS EventLoopThreadPool, FiniteSetTheorems, TLAPS

-----------------------------------------------------------------------------
(* One EventLoopThread.                                                    *)

UserPcs == InRun \cup {"idle", "back", "quit", "join", "gone"}
PublishedPcs == {"promise", "begin", "turn", "clear"}
PromisedPcs == {"begin", "turn", "clear", "end"}

\* The types; only the owner is ever in the second half of the destructor.
ThreadTypeOK ==
  /\ built \in BOOLEAN /\ dying \in BOOLEAN /\ running \in BOOLEAN
  /\ promised \in BOOLEAN /\ loop \in BOOLEAN /\ looping \in BOOLEAN
  /\ quitters \in BOOLEAN /\ overtaken \in BOOLEAN
  /\ user \in [Users -> UserPcs]
  /\ child \in {"new", "lock", "test", "sleep", "wake", "publish", "promise", "begin", "turn",
                "clear", "end"}
  /\ lock \in {NoThread, Child}
  /\ once \in {"new", "busy", "done"}

\* Where the child is says what it has published and promised.
ChildPlace ==
  /\ loop <=> child \in PublishedPcs
  /\ promised <=> child \in PromisedPcs

\* call_once is through, and Run has returned, only after the promise.
AfterPromise ==
  /\ once = "done" => promised
  /\ \A u \in Users : user[u] = "back" => promised

\* If nobody else quits the loop, the child has left Loop only when the owner
\* has been through its own Quit, in the destructor.
LeavesAfterQuit ==
  /\ user[Owner] \in {"quit", "join", "gone"} => dying
  /\ ~quitters /\ child \in {"clear", "end"} => user[Owner] \in {"join", "gone"}
  /\ ~quitters /\ child = "turn" => looping \/ user[Owner] \in {"join", "gone"}

HandShake == ThreadTypeOK /\ ChildPlace /\ AfterPromise /\ LeavesAfterQuit

LEMMA InitHandShake == Init => HandShake
BY UsersAssumption DEF Init, HandShake, ThreadTypeOK, ChildPlace, AfterPromise, LeavesAfterQuit,
     UserPcs, InRun, PublishedPcs, PromisedPcs

\* Every step of the thread, of a caller of Run and of the destructor keeps the
\* types.
LEMMA ThreadTypeStep == ThreadTypeOK /\ [Next]_vars => ThreadTypeOK'
<1> USE UsersAssumption DEF ThreadTypeOK, UserPcs, InRun, UserAt, ChildAt
<1> SUFFICES ASSUME ThreadTypeOK, [Next]_vars PROVE ThreadTypeOK'
  OBVIOUS
<1>1. CASE Construct
  BY <1>1 DEF Construct, handVars, loopVars
<1>2. CASE ChildSteps
  <2>1. CASE ChildStarts \/ ChildLocks \/ ChildTests
    BY <2>1 DEF ChildStarts, ChildLocks, ChildTests, handVars, loopVars, worldVars
  <2>2. CASE ChildPublishes
    BY <2>2 DEF ChildPublishes, handVars, worldVars
  <2>4. CASE ChildPromises
    BY <2>4 DEF ChildPromises, loopVars, worldVars
  <2>5. CASE ChildBegins
    BY <2>5 DEF ChildBegins, handVars, worldVars
  <2>3. CASE ChildLeaves
    BY <2>3 DEF ChildLeaves, handVars, loopVars, worldVars
  <2>6. CASE ChildEnds
    BY <2>6 DEF ChildEnds, handVars, loopVars, worldVars
  <2> QED BY <1>2, <2>1, <2>2, <2>3, <2>4, <2>5, <2>6 DEF ChildSteps
<1>3. CASE ChildSpurious
  BY <1>3 DEF ChildSpurious, handVars, loopVars, worldVars
<1>4. CASE DtorSteps
  <2>1. CASE DtorTest
    <3>1. \E p \in {"quit", "join"} : user' = [user EXCEPT ![Owner] = p]
      BY <2>1 DEF DtorTest
    <3>2. user' \in [Users -> UserPcs]
      BY <3>1
    <3>3. UNCHANGED <<built, dying, child, handVars, loopVars, worldVars>>
      BY <2>1 DEF DtorTest
    <3> QED BY <3>2, <3>3 DEF handVars, loopVars, worldVars
  <2>2. CASE DtorQuit
    <3>1. user' \in [Users -> UserPcs]
      BY <2>2 DEF DtorQuit
    <3>2. looping' \in BOOLEAN /\ UNCHANGED <<built, dying, child, handVars, loop, worldVars>>
      BY <2>2 DEF DtorQuit
    <3> QED BY <3>1, <3>2 DEF handVars, worldVars
  <2>3. CASE DtorJoin
    <3>1. user' \in [Users -> UserPcs]
      BY <2>3 DEF DtorJoin
    <3>2. UNCHANGED <<built, dying, child, handVars, loopVars, worldVars>>
      BY <2>3 DEF DtorJoin
    <3> QED BY <3>1, <3>2 DEF handVars, loopVars, worldVars
  <2> QED BY <1>4, <2>1, <2>2, <2>3 DEF DtorSteps
<1>5. CASE Destroy
  BY <1>5 DEF Destroy, handVars, loopVars, worldVars
<1>6. CASE QuitElsewhere
  BY <1>6 DEF QuitElsewhere, handVars, worldVars
<1>7. ASSUME NEW u \in Users, RunEnter(u) PROVE ThreadTypeOK'
  BY <1>7 DEF RunEnter, handVars, loopVars, worldVars
<1>8. ASSUME NEW u \in Users, RunSteps(u) PROVE ThreadTypeOK'
  <2>1. CASE OnceFirst(u) \/ OnceLater(u)
    BY <2>1 DEF OnceFirst, OnceLater, handVars, loopVars, worldVars
  <2>2. CASE RunNotify(u)
    BY <2>2 DEF RunNotify, loopVars, worldVars
  <2>3. CASE RunGet(u)
    BY <2>3 DEF RunGet, loopVars, worldVars
  <2> QED BY <1>8, <2>1, <2>2, <2>3 DEF RunSteps
<1>9. CASE UNCHANGED vars
  BY <1>9 DEF vars, handVars, loopVars, worldVars
<1> QED BY <1>1, <1>2, <1>3, <1>4, <1>5, <1>6, <1>7, <1>8, <1>9 DEF Next

\* loop_ and the promise follow the child.
LEMMA ChildPlaceStep == ThreadTypeOK /\ ChildPlace /\ [Next]_vars => ChildPlace'
<1> USE DEF ThreadTypeOK, ChildPlace, PublishedPcs, PromisedPcs, UserAt, ChildAt
<1> SUFFICES ASSUME ThreadTypeOK, ChildPlace, [Next]_vars PROVE ChildPlace'
  OBVIOUS
<1>1. CASE Construct
  BY <1>1 DEF Construct, handVars, loopVars
<1>2. CASE ChildSteps
  BY <1>2 DEF ChildSteps, ChildStarts, ChildLocks, ChildTests, ChildPublishes, ChildPromises,
       ChildBegins, ChildLeaves, ChildEnds, handVars, loopVars, worldVars
<1>3. CASE ChildSpurious
  BY <1>3 DEF ChildSpurious, handVars, loopVars, worldVars
<1>4. CASE DtorSteps
  BY <1>4 DEF DtorSteps, DtorTest, DtorQuit, DtorJoin, handVars, loopVars, worldVars
<1>5. CASE Destroy
  BY <1>5 DEF Destroy, handVars, loopVars, worldVars
<1>6. CASE QuitElsewhere
  BY <1>6 DEF QuitElsewhere, handVars, worldVars
<1>7. ASSUME NEW u \in Users, RunEnter(u) PROVE ChildPlace'
  BY <1>7 DEF RunEnter, handVars, loopVars, worldVars
<1>8. ASSUME NEW u \in Users, RunSteps(u) PROVE ChildPlace'
  BY <1>8 DEF RunSteps, OnceFirst, OnceLater, RunNotify, RunGet, handVars, loopVars, worldVars
<1>9. CASE UNCHANGED vars
  BY <1>9 DEF vars, handVars, loopVars, worldVars
<1> QED BY <1>1, <1>2, <1>3, <1>4, <1>5, <1>6, <1>7, <1>8, <1>9 DEF Next

\* The promise is never taken back.
LEMMA PromiseStays == ThreadTypeOK /\ ChildPlace /\ promised /\ [Next]_vars => promised'
BY DEF ThreadTypeOK, ChildPlace, Next, Construct, ChildSteps, ChildStarts, ChildLocks, ChildTests,
     ChildPublishes, ChildPromises, ChildBegins, ChildLeaves, ChildEnds, ChildSpurious, DtorSteps,
     DtorTest, DtorQuit, DtorJoin, Destroy, QuitElsewhere, RunEnter, RunSteps, OnceFirst, OnceLater,
     RunNotify, RunGet, vars, handVars, loopVars, worldVars

\* Run returns, and call_once lets the others go, only after the promise.
LEMMA AfterPromiseStep ==
  ThreadTypeOK /\ ChildPlace /\ AfterPromise /\ [Next]_vars => AfterPromise'
<1> USE DEF ThreadTypeOK, AfterPromise, UserAt
<1> SUFFICES ASSUME ThreadTypeOK, ChildPlace, AfterPromise, [Next]_vars PROVE AfterPromise'
  OBVIOUS
<1>0. promised => promised'
  BY PromiseStays
<1>1. CASE Construct
  BY <1>1 DEF Construct, handVars, loopVars
<1>2. CASE ChildSteps
  BY <1>0, <1>2 DEF ChildSteps, ChildStarts, ChildLocks, ChildTests, ChildPublishes, ChildPromises,
       ChildBegins, ChildLeaves, ChildEnds, handVars, loopVars, worldVars
<1>3. CASE ChildSpurious
  BY <1>3 DEF ChildSpurious, handVars, loopVars, worldVars
<1>4. CASE DtorSteps
  BY <1>4 DEF DtorSteps, DtorTest, DtorQuit, DtorJoin, handVars, loopVars, worldVars
<1>5. CASE Destroy
  BY <1>5 DEF Destroy, handVars, loopVars, worldVars
<1>6. CASE QuitElsewhere
  BY <1>6 DEF QuitElsewhere, handVars, worldVars
<1>7. ASSUME NEW u \in Users, RunEnter(u) PROVE AfterPromise'
  BY <1>7 DEF RunEnter, handVars, loopVars, worldVars
<1>8. ASSUME NEW u \in Users, RunSteps(u) PROVE AfterPromise'
  BY <1>8 DEF RunSteps, OnceFirst, OnceLater, RunNotify, RunGet, handVars, loopVars, worldVars
<1>9. CASE UNCHANGED vars
  BY <1>9 DEF vars, handVars, loopVars, worldVars
<1> QED BY <1>1, <1>2, <1>3, <1>4, <1>5, <1>6, <1>7, <1>8, <1>9 DEF Next

\* The child stays in Loop until the owner has quit it.
LEMMA LeavesAfterQuitStep ==
  ThreadTypeOK /\ LeavesAfterQuit /\ [Next]_vars => LeavesAfterQuit'
<1> USE UsersAssumption DEF ThreadTypeOK, LeavesAfterQuit, UserAt, ChildAt
<1> SUFFICES ASSUME ThreadTypeOK, LeavesAfterQuit, [Next]_vars PROVE LeavesAfterQuit'
  OBVIOUS
<1>1. CASE Construct
  BY <1>1 DEF Construct, handVars, loopVars
<1>2. CASE ChildSteps
  BY <1>2 DEF ChildSteps, ChildStarts, ChildLocks, ChildTests, ChildPublishes, ChildPromises,
       ChildBegins, ChildLeaves, ChildEnds, handVars, loopVars, worldVars
<1>3. CASE ChildSpurious
  BY <1>3 DEF ChildSpurious, handVars, loopVars, worldVars
<1>4. CASE DtorSteps
  BY <1>4 DEF DtorSteps, DtorTest, DtorQuit, DtorJoin, handVars, loopVars, worldVars
<1>5. CASE Destroy
  BY <1>5 DEF Destroy, handVars, loopVars, worldVars
<1>6. CASE QuitElsewhere
  BY <1>6 DEF QuitElsewhere, handVars, worldVars
<1>7. ASSUME NEW u \in Users, RunEnter(u) PROVE LeavesAfterQuit'
  BY <1>7 DEF RunEnter, handVars, loopVars, worldVars
<1>8. ASSUME NEW u \in Users, RunSteps(u) PROVE LeavesAfterQuit'
  BY <1>8 DEF RunSteps, OnceFirst, OnceLater, RunNotify, RunGet, handVars, loopVars, worldVars
<1>9. CASE UNCHANGED vars
  BY <1>9 DEF vars, handVars, loopVars, worldVars
<1> QED BY <1>1, <1>2, <1>3, <1>4, <1>5, <1>6, <1>7, <1>8, <1>9 DEF Next

LEMMA HandShakeStep == HandShake /\ [Next]_vars => HandShake'
BY ThreadTypeStep, ChildPlaceStep, AfterPromiseStep, LeavesAfterQuitStep DEF HandShake

\* The two properties, from the invariant.
LEMMA HandShakeGives == HandShake => RunPublishes /\ QuitFindsTheLoop
BY DEF HandShake, ThreadTypeOK, ChildPlace, AfterPromise, LeavesAfterQuit, RunPublishes,
     QuitFindsTheLoop, PublishedPcs, PromisedPcs

\* Whoever comes back from Run gets a loop from Loop(), unless it has ended.
THEOREM ThreadRunPublishes == Spec => []RunPublishes
BY InitHandShake, HandShakeStep, HandShakeGives, PTL DEF Spec, Safety

\* The destructor's Quit, which is called without lock_, finds an EventLoop that
\* exists, when nobody else quits it.
THEOREM ThreadQuitFindsTheLoop == Spec => []QuitFindsTheLoop
BY InitHandShake, HandShakeStep, HandShakeGives, PTL DEF Spec, Safety

-----------------------------------------------------------------------------
(* Powers of two, the ranges of the counter's types.                       *)

\* A power of two is the number of subsets of a set.
LEMMA SubsetsCount ==
  \A n \in Nat : IsFiniteSet(SUBSET (1 .. n)) /\ Cardinality(SUBSET (1 .. n)) = 2 ^ n
<1> SUFFICES ASSUME NEW n \in Nat
             PROVE  IsFiniteSet(SUBSET (1 .. n)) /\ Cardinality(SUBSET (1 .. n)) = 2 ^ n
  OBVIOUS
<1>1. IsFiniteSet(1 .. n) /\ Cardinality(1 .. n) = n
  BY FS_Interval
<1> QED BY <1>1, FS_SUBSET

\* So it is positive.
LEMMA PowerPositive == \A n \in Nat : 2 ^ n \in Nat \ {0}
<1> SUFFICES ASSUME NEW n \in Nat PROVE 2 ^ n \in Nat \ {0}
  OBVIOUS
<1>1. SUBSET (1 .. n) # {}
  OBVIOUS
<1> QED BY <1>1, SubsetsCount, FS_EmptySet, FS_CardinalityType

\* The subsets of 1 .. n + 1 are those of 1 .. n, without and with n + 1.
LEMMA PowerDoubles == \A n \in Nat : 2 ^ (n + 1) = 2 * 2 ^ n
<1> SUFFICES ASSUME NEW n \in Nat PROVE 2 ^ (n + 1) = 2 * 2 ^ n
  OBVIOUS
<1> DEFINE A == SUBSET (1 .. n)
           B == {T \cup {n + 1} : T \in A}
           f == [T \in A |-> T \cup {n + 1}]
<1>1. IsFiniteSet(A) /\ Cardinality(A) = 2 ^ n
  BY SubsetsCount
<1>2. Cardinality(SUBSET (1 .. n + 1)) = 2 ^ (n + 1)
  BY SubsetsCount
<1>3. f \in Bijection(A, B)
  <2>1. f \in [A -> B]
    OBVIOUS
  <2>2. \A S, T \in A : f[S] = f[T] => S = T
    <3> SUFFICES ASSUME NEW S \in A, NEW T \in A, f[S] = f[T] PROVE S = T
      OBVIOUS
    <3>1. n + 1 \notin S /\ n + 1 \notin T
      OBVIOUS
    <3>2. S \cup {n + 1} = T \cup {n + 1}
      OBVIOUS
    <3> QED BY <3>1, <3>2
  <2>3. \A U \in B : \E T \in A : f[T] = U
    OBVIOUS
  <2> QED BY <2>1, <2>2, <2>3 DEF Bijection, Injection, Surjection, IsInjective
<1>4. IsFiniteSet(B) /\ Cardinality(B) = 2 ^ n
  BY <1>1, <1>3, FS_Bijection DEF ExistsBijection
<1>5. A \cap B = {}
  OBVIOUS
<1>6. A \cup B = SUBSET (1 .. n + 1)
  <2>1. 1 .. n \subseteq 1 .. n + 1 /\ n + 1 \in 1 .. n + 1
    OBVIOUS
  <2>2. A \subseteq SUBSET (1 .. n + 1)
    BY <2>1
  <2>3. B \subseteq SUBSET (1 .. n + 1)
    BY <2>1
  <2>4. ASSUME NEW U \in SUBSET (1 .. n + 1) PROVE U \in A \cup B
    <3>1. CASE n + 1 \notin U
      BY <3>1
    <3>2. CASE n + 1 \in U
      <4>1. U \ {n + 1} \in A /\ U = (U \ {n + 1}) \cup {n + 1}
        BY <3>2
      <4> QED BY <4>1
    <3> QED BY <3>1, <3>2
  <2> QED BY <2>2, <2>3, <2>4
<1>7. Cardinality(A \cup B) = Cardinality(A) + Cardinality(B) - Cardinality(A \cap B)
  BY <1>1, <1>4, FS_Union
<1>8. Cardinality(A \cap B) = 0
  BY <1>5, FS_EmptySet
<1>9. 2 ^ n \in Int
  BY PowerPositive
<1>10. Cardinality(A \cup B) = 2 ^ (n + 1)
  BY <1>2, <1>6
<1>11. 2 ^ (n + 1) = 2 ^ n + 2 ^ n - 0
  BY <1>1, <1>4, <1>7, <1>8, <1>10
<1> QED BY <1>9, <1>11

-----------------------------------------------------------------------------
(* The pool.                                                               *)

IntRange == -(2 ^ (IntBits - 1)) .. 2 ^ (IntBits - 1) - 1

\* The callers that have read the counter and not yet incremented it.
Inside == {c \in Callers : seen[c] # NoIndex}

PoolTypeOK ==
  /\ started \in 0 .. Size
  /\ loop_index \in IntRange
  /\ seen \in [Callers -> IntRange \cup {NoIndex}]
  /\ reads \in Nat
  /\ null \in BOOLEAN

\* The counter has moved on by one for each call, but for those inside.
CallsCounted ==
  /\ IsFiniteSet(Inside)
  /\ \E k \in Int :
       loop_index - FirstIndex - reads + Cardinality(Inside) = k * 2 ^ IntBits

\* Start is through with the last thread only after its promise.
StartedRan == started = Size => promised

PoolInv == HandShake /\ PoolTypeOK /\ CallsCounted /\ StartedRan

\* The range of the counter: half a turn around it on either side.
LEMMA CounterRange ==
  /\ 2 ^ IntBits \in Nat \ {0} /\ 2 ^ (IntBits - 1) \in Nat \ {0}
  /\ 2 ^ IntBits = 2 * 2 ^ (IntBits - 1)
  /\ FirstIndex \in IntRange /\ IntRange \subseteq Int
  /\ NoIndex \notin IntRange
<1>1. IntBits - 1 \in Nat /\ IntBits \in Nat /\ (IntBits - 1) + 1 = IntBits
  BY SizesAssumption
<1>2. 2 ^ IntBits \in Nat \ {0} /\ 2 ^ (IntBits - 1) \in Nat \ {0}
  BY <1>1, PowerPositive
<1>3. 2 ^ ((IntBits - 1) + 1) = 2 * 2 ^ (IntBits - 1)
  BY <1>1, PowerDoubles
<1>4. 2 ^ IntBits = 2 * 2 ^ (IntBits - 1)
  BY <1>1, <1>3
<1> QED BY <1>2, <1>4, SizesAssumption DEF IntRange, NoIndex

\* One increment of the atomic int: by one, or around its range.
LEMMA NextIndexWraps ==
  \A i \in IntRange : /\ Next_index(i) \in IntRange
                      /\ Next_index(i) = i + 1 \/ Next_index(i) = i + 1 - 2 ^ IntBits
BY CounterRange DEF Next_index, IntRange

\* Whatever the counter's value, its index is that of a thread.
LEMMA SlotInRange == \A i \in Int : SlotOf(i) \in 0 .. Size - 1
<1> SUFFICES ASSUME NEW i \in Int PROVE SlotOf(i) \in 0 .. Size - 1
  OBVIOUS
<1>1. 2 ^ SizeBits \in Nat \ {0}
  BY SizesAssumption, PowerPositive
<1>2. i % 2 ^ SizeBits \in Int
  BY <1>1
<1> QED BY <1>2, SizesAssumption DEF SlotOf

LEMMA InitPool == PoolInit => PoolInv
<1> SUFFICES ASSUME PoolInit PROVE PoolInv
  OBVIOUS
<1>1. HandShake
  BY InitHandShake DEF PoolInit
<1>2. PoolTypeOK
  <2>1. started \in 0 .. Size /\ reads \in Nat
    BY SizesAssumption DEF PoolInit
  <2>2. loop_index \in IntRange
    BY CounterRange DEF PoolInit
  <2>3. seen \in [Callers -> IntRange \cup {NoIndex}]
    BY DEF PoolInit
  <2>4. null \in BOOLEAN
    BY DEF PoolInit
  <2> QED BY <2>1, <2>2, <2>3, <2>4 DEF PoolTypeOK
<1>3. Inside = {}
  BY DEF PoolInit, Inside
<1>4. IsFiniteSet(Inside) /\ Cardinality(Inside) = 0
  BY <1>3, FS_EmptySet
<1>5. loop_index - FirstIndex - reads + Cardinality(Inside) = 0 * 2 ^ IntBits
  BY <1>4, CounterRange DEF PoolInit
<1>6. CallsCounted
  BY <1>4, <1>5 DEF CallsCounted
<1>7. StartedRan
  BY SizesAssumption DEF PoolInit, StartedRan
<1> QED BY <1>1, <1>2, <1>6, <1>7 DEF PoolInv

\* The last thread takes no step in the pool that it could not take alone.
LEMMA PoolHandShakeStep == HandShake /\ [PoolNext]_poolVars => HandShake'
<1>1. [PoolNext]_poolVars => [Next]_vars
  BY DEF PoolNext, Start, ThreadStep, ReadIndex, HandOut, poolVars
<1> QED BY <1>1, HandShakeStep

LEMMA PoolTypeStep == PoolTypeOK /\ [PoolNext]_poolVars => PoolTypeOK'
<1> USE DEF PoolTypeOK
<1> SUFFICES ASSUME PoolTypeOK, [PoolNext]_poolVars PROVE PoolTypeOK'
  OBVIOUS
<1>1. CASE Start
  BY <1>1, SizesAssumption DEF Start, callVars
<1>2. CASE ThreadStep
  BY <1>2 DEF ThreadStep, callVars
<1>3. ASSUME NEW c \in Callers, ReadIndex(c) PROVE PoolTypeOK'
  BY <1>3 DEF ReadIndex
<1>4. ASSUME NEW c \in Callers, HandOut(c) PROVE PoolTypeOK'
  <2>1. loop_index' \in IntRange
    BY <1>4, NextIndexWraps DEF HandOut
  <2>2. seen' \in [Callers -> IntRange \cup {NoIndex}]
    BY <1>4 DEF HandOut
  <2>3. null' \in BOOLEAN
    BY <1>4 DEF HandOut, NoLoopIn
  <2> QED BY <1>4, <2>1, <2>2, <2>3 DEF HandOut
<1>5. CASE UNCHANGED poolVars
  BY <1>5 DEF poolVars, callVars
<1> QED BY <1>1, <1>2, <1>3, <1>4, <1>5 DEF PoolNext

\* A read lets a caller in, an increment lets one out and moves the counter on:
\* the two steps of a call may be apart, no call is lost.
LEMMA CallsCountedStep == PoolTypeOK /\ CallsCounted /\ [PoolNext]_poolVars => CallsCounted'
<1> SUFFICES ASSUME PoolTypeOK, CallsCounted, [PoolNext]_poolVars PROVE CallsCounted'
  OBVIOUS
<1>1. PICK k \in Int : loop_index - FirstIndex - reads + Cardinality(Inside) = k * 2 ^ IntBits
  BY DEF CallsCounted
<1>2. /\ IsFiniteSet(Inside) /\ Cardinality(Inside) \in Nat
      /\ loop_index \in IntRange /\ loop_index \in Int /\ FirstIndex \in Int
      /\ reads \in Int /\ 2 ^ IntBits \in Int
  BY FS_CardinalityType, CounterRange DEF CallsCounted, PoolTypeOK
<1>3. ASSUME UNCHANGED <<loop_index, seen, reads>> PROVE CallsCounted'
  BY <1>3 DEF CallsCounted, Inside
<1>4. ASSUME NEW c \in Callers, ReadIndex(c) PROVE CallsCounted'
  <2>1. Inside' = Inside \cup {c} /\ c \notin Inside
    BY <1>4, CounterRange DEF ReadIndex, Inside, PoolTypeOK
  <2>2. IsFiniteSet(Inside') /\ Cardinality(Inside') = Cardinality(Inside) + 1
    BY <1>2, <2>1, FS_AddElement
  <2>3. loop_index' - FirstIndex - reads' + Cardinality(Inside') = k * 2 ^ IntBits
    BY <1>1, <1>2, <1>4, <2>2 DEF ReadIndex
  <2> QED BY <2>2, <2>3 DEF CallsCounted
<1>5. ASSUME NEW c \in Callers, HandOut(c) PROVE CallsCounted'
  <2>1. Inside' = Inside \ {c} /\ c \in Inside
    BY <1>5 DEF HandOut, Inside, PoolTypeOK
  <2>2. IsFiniteSet(Inside') /\ Cardinality(Inside') = Cardinality(Inside) - 1
    BY <1>2, <2>1, FS_RemoveElement
  <2>3. reads' = reads /\ loop_index' = Next_index(loop_index)
    BY <1>5 DEF HandOut
  <2>4. CASE loop_index' = loop_index + 1
    <3>1. loop_index' - FirstIndex - reads' + Cardinality(Inside') = k * 2 ^ IntBits
      BY <1>1, <1>2, <2>2, <2>3, <2>4
    <3> QED BY <2>2, <3>1 DEF CallsCounted
  <2>5. CASE loop_index' = loop_index + 1 - 2 ^ IntBits
    <3>1. loop_index' - FirstIndex - reads' + Cardinality(Inside') = k * 2 ^ IntBits - 2 ^ IntBits
      BY <1>1, <1>2, <2>2, <2>3, <2>5
    <3>2. k * 2 ^ IntBits - 2 ^ IntBits = (k - 1) * 2 ^ IntBits
      BY <1>2
    <3>3. k - 1 \in Int
      OBVIOUS
    <3> QED BY <2>2, <3>1, <3>2, <3>3 DEF CallsCounted
  <2> QED BY <1>2, <2>3, <2>4, <2>5, NextIndexWraps
<1> QED BY <1>3, <1>4, <1>5 DEF PoolNext, Start, ThreadStep, poolVars, callVars

\* Start comes to its end when the owner is back from Run of the last thread.
LEMMA StartedRanStep ==
  HandShake /\ PoolTypeOK /\ StartedRan /\ [PoolNext]_poolVars => StartedRan'
<1> SUFFICES ASSUME HandShake, PoolTypeOK, StartedRan, [PoolNext]_poolVars PROVE StartedRan'
  OBVIOUS
<1>1. [PoolNext]_poolVars => [Next]_vars
  BY DEF PoolNext, Start, ThreadStep, ReadIndex, HandOut, poolVars
<1>2. promised => promised'
  BY <1>1, PromiseStays DEF HandShake
<1>3. CASE Start
  <2>1. started = Last => promised
    BY <1>3, UsersAssumption DEF Start, HandShake, AfterPromise
  <2> QED BY <1>2, <1>3, <2>1, SizesAssumption DEF Start, StartedRan, PoolTypeOK, Last
<1>4. CASE started' = started
  BY <1>2, <1>4 DEF StartedRan
<1> QED BY <1>3, <1>4 DEF PoolNext, ThreadStep, ReadIndex, HandOut, poolVars

LEMMA PoolStep == PoolInv /\ [PoolNext]_poolVars => PoolInv'
BY PoolHandShakeStep, PoolTypeStep, CallsCountedStep, StartedRanStep DEF PoolInv

\* PoolInv is an invariant of the pool, of any size.
THEOREM PoolInvariant == PoolSpec => []PoolInv
BY InitPool, PoolStep, PTL DEF PoolSpec

\* Run of the last thread publishes its loop in the pool too, and the destructor
\* of the thread finds it.
THEOREM PoolRunPublishes == PoolSpec => [](RunPublishes /\ QuitFindsTheLoop)
<1>1. PoolInv => RunPublishes /\ QuitFindsTheLoop
  BY HandShakeGives DEF PoolInv
<1> QED BY <1>1, PoolInvariant, PTL

\* Every call of GetNextLoop counts, around the whole range of the counter.
THEOREM PoolEveryCallCounts == PoolSpec => []EveryCallCounts
<1>1. PoolInv => EveryCallCounts
  <2> SUFFICES ASSUME PoolInv, \A c \in Callers : seen[c] = NoIndex
               PROVE  (loop_index - FirstIndex - reads) % 2 ^ IntBits = 0
    BY DEF EveryCallCounts
  <2>1. Inside = {}
    BY DEF Inside
  <2>2. Cardinality(Inside) = 0
    BY <2>1, FS_EmptySet
  <2>3. PICK k \in Int : loop_index - FirstIndex - reads + Cardinality(Inside) = k * 2 ^ IntBits
    BY DEF PoolInv, CallsCounted
  <2>4. loop_index \in Int /\ FirstIndex \in Int /\ reads \in Int /\ 2 ^ IntBits \in Nat \ {0}
    BY CounterRange DEF PoolInv, PoolTypeOK
  <2>5. loop_index - FirstIndex - reads = k * 2 ^ IntBits
    BY <2>2, <2>3, <2>4
  <2>6. \A M \in Nat \ {0} : (k * M) % M = 0
    OBVIOUS
  <2> QED BY <2>4, <2>5, <2>6
<1> QED BY <1>1, PoolInvariant, PTL

\* Once Start is through nobody gets null from GetNextLoop, nor an index out of
\* range, but for a loop that has ended.
THEOREM PoolStartedIsNotNull == PoolSpec => StartedIsNotNull
<1>1. PoolInv /\ [PoolNext]_poolVars => [started = Size /\ null' => null \/ child = "end"]_poolVars
  <2> SUFFICES ASSUME PoolInv, PoolNext, started = Size, null' PROVE null \/ child = "end"
    OBVIOUS
  <2>1. CASE null' = null
    BY <2>1
  <2>2. ASSUME NEW c \in Callers, HandOut(c) PROVE child = "end"
    <3>1. seen[c] \in Int
      BY <2>2, CounterRange DEF HandOut, PoolInv, PoolTypeOK
    <3>2. SlotOf(seen[c]) \in 0 .. started - 1
      BY <3>1, SlotInRange
    <3>3. ~loop
      BY <2>2, <3>2 DEF HandOut, NoLoopIn
    <3>4. promised
      BY DEF PoolInv, StartedRan
    <3> QED BY <3>3, <3>4 DEF PoolInv, HandShake, ChildPlace, PublishedPcs, PromisedPcs
  <2> QED BY <2>1, <2>2 DEF PoolNext, Start, ThreadStep, ReadIndex, callVars
<1> QED BY <1>1, PoolInvariant, PTL DEF PoolSpec, StartedIsNotNull
=============================================================================
