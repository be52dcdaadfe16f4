---------------------------- MODULE MCTimerQueue ----------------------------
(***************************************************************************)
(* TimerQueue with a few timers and seconds.                               *)
(***************************************************************************)
EXTENDS TimerQueue
=============================================================================
