----------------------------- MODULE MCEventLoop -----------------------------
(* Small instances of EventLoop for TLC: the bodies of the tasks.           *)
EXTENDS EventLoop, TLC

CONSTANTS l1, l2, p1, p2, t1, t2, t3

\* t1 hands t2 to l2, and nothing is handed back to l1: no cycle of locks.
RelayToL2 == [t \in Tasks |-> IF t = t1 THEN [loop |-> l2, task |-> t2] ELSE NoCall]

\* t1 hands a task to l2 and t3 hands one to l1.
CrossRelay ==
  [t \in Tasks |-> IF t = t1 THEN [loop |-> l2, task |-> t2]
                   ELSE IF t = t3 THEN [loop |-> l1, task |-> CHOOSE x \in Tasks \ {t1, t2, t3} : TRUE]
                   ELSE NoCall]
=============================================================================
