------------------------ MODULE MCEventLoopThreadPool ------------------------
(* Small instances of EventLoopThreadPool, and of the EventLoopThread in it,  *)
(* for TLC.                                                                 *)
EXTENDS EventLoopThreadPool
CONSTANTS u1, u2, u3, c1, c2

\* The counter shortly before it wraps.
BeforeTheWrap == 2 ^ (IntBits - 1) - 2
=============================================================================
