---------------------------- MODULE MCMsgBuffer ----------------------------
(* Small instances of MsgBuffer: two byte values, one of them the zero of a *)
(* fresh vector, and lengths small enough to meet every branch.             *)
EXTENDS MsgBuffer

CONSTANTS x, y
=============================================================================
