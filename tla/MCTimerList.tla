---------------------------- MODULE MCTimerList ----------------------------
(***************************************************************************)
(* An instance of TimerList for TLC.                                       *)
(***************************************************************************)
EXTENDS TimerList, TLC

Symmetry == Permutations(Timers)
=============================================================================
