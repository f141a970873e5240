--------------------------- MODULE MCRtmpHandShake ---------------------------
(* Small instances of RtmpHandShake for TLC.                                *)
EXTENDS RtmpHandShake
=============================================================================
