------------------------------ MODULE MCTask ------------------------------
(* Task.tla on three interchangeable tasks. *)
EXTENDS Task

CONSTANTS t1, t2, t3

MCTasks    == {t1, t2, t3}
MCSymmetry == Permutations(MCTasks)
===========================================================================
