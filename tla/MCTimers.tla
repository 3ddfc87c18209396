------------------------------- MODULE MCTimers -------------------------------
(* Timers on a small wheel; the constants are set in the cfg file.          *)
EXTENDS Timers
=============================================================================
