---- MODULE MCLogFiles ----
(* Small instances of LogFiles for TLC. *)
EXTENDS LogFiles, TLC

CONSTANTS log, once, check, t1, t2

Intervals == (once :> 1) @@ (check :> 1)
====
