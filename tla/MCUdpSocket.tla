----------------------------- MODULE MCUdpSocket -----------------------------
(* Small instances of UdpSocket for TLC: what is sent and how.              *)
EXTENDS UdpSocket

CONSTANTS a, b, c
=============================================================================
