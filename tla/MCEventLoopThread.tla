-------------------------- MODULE MCEventLoopThread --------------------------
(* Small instances of EventLoopThread for TLC.                              *)
EXTENDS EventLoopThread
CONSTANTS u1, u2, u3

=============================================================================
