--------------------------- MODULE MCTimerManager ---------------------------
(* An instance of TimerManager for TLC.                                      *)
EXTENDS TimerManager

\* A timer that is due when it is pushed and one that has to be waited for.
MCDelays == {0, 1}
=============================================================================
