------------------------------ MODULE MCTimer ------------------------------
(***************************************************************************)
(* Model of the timer for TLC: one cyclic handler with a cycle shorter or  *)
(* longer than the timer period, one alarm handler, one task that delays,  *)
(* and timer interrupts enough for every event to come up more than once.  *)
(***************************************************************************)
EXTENDS Timer
=============================================================================
