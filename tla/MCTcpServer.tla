----------------------------- MODULE MCTcpServer -----------------------------
(* Small instances of TcpServer for TLC: three connections, three descriptors. *)
EXTENDS TcpServer, TLC

CONSTANTS c1, c2, c3

\* The connections are alike.
ConnsAlike == Permutations(Conns)
=============================================================================
