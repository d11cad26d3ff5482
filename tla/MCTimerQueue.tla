---------------------------- MODULE MCTimerQueue ----------------------------
(* The runs of TimerQueue take all their constants from the cfg files.     *)
EXTENDS TimerQueue
=============================================================================
