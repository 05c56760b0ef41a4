------------------------------ MODULE MCEvent -------------------------------
(***************************************************************************)
(* Instances of the event module for TLC.                                  *)
(***************************************************************************)
EXTENDS Event

CONSTANTS t1, t2, s1, l1, l2

TwoThreads == {t1, t2}
OneSubject == {s1}
MCEvents == {"line", "listener_attached", "listener_detached"}
TwoListeners == {l1, l2}
Predefined == {LOWEST, 0, HIGHEST}
Normal == {0}

=============================================================================
