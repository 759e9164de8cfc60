---------------------------- MODULE MCLiveProcess ----------------------------
(* The TLC instance of LiveProcess's counterexample; its properties are     *)
(* checked by MCSchedules.                                                  *)
EXTENDS LiveProcess
==============================================================================
