----------------------------- MODULE MCKLock -----------------------------
(* KLock.tla on three interchangeable tasks and two interchangeable locks. *)
EXTENDS KLock

CONSTANTS t1, t2, t3, l1, l2

MCTasks    == {t1, t2, t3}
MCLocks    == {l1, l2}
MCSymmetry == Permutations(MCTasks) \cup Permutations(MCLocks)
===========================================================================
