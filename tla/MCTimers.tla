------------------------------ MODULE MCTimers ------------------------------
(***************************************************************************)
(* Instances of the timers for TLC: seconds of a few microseconds, so that *)
(* the missing carry of addTimer is reached; the ints are wide enough.     *)
(***************************************************************************)
EXTENDS TimersSafety

CONSTANTS m1, m2

TwoModules == {m1, m2}
ShortTimeouts == {0, 2}
=============================================================================
