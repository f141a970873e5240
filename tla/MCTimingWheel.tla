---------------------------- MODULE MCTimingWheel ----------------------------
(* Small instances of TimingWheel for TLC: wheels of 3, 2, 2 and 2 slots.    *)
EXTENDS TimingWheel

CONSTANTS every, idle

\* The clock was set back, or a second and more has passed.
ClockLags == {-1, Second}
=============================================================================
