--------------------------- MODULE MCTcpConnection ---------------------------
(* Small instances of TcpConnection for TLC: the sizes of the messages.      *)
EXTENDS TcpConnection

CONSTANTS a, b, c

\* a and c are one buffer each, b is a list of two.
BufferAndList == [m \in Messages |-> CASE m = a -> <<2>> [] m = b -> <<1, 2>> [] OTHER -> <<1>>]
=============================================================================
