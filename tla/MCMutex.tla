------------------------------ MODULE MCMutex ------------------------------
(* Mutex.tla with interchangeable tasks and interchangeable mutexes. *)
EXTENDS Mutex

CONSTANTS t1, t2, t3, t4, m1, m2

MCTasks    == {t1, t2, t3, t4}
MCMutexes  == {m1, m2}
MCSymmetry == Permutations(MCTasks) \cup Permutations(MCMutexes)
============================================================================
