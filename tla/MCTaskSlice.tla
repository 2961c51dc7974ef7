---------------------------- MODULE MCTaskSlice ----------------------------
(* TaskSlice.tla on three tasks; no symmetry, it checks liveness. *)
EXTENDS TaskSlice

CONSTANTS t1, t2, t3

MCTasks == {t1, t2, t3}
===========================================================================
