SPECIFICATION MtxSpec
CONSTANTS
  t1 = t1
  t2 = t2
  t3 = t3
  t4 = t4
  m1 = m1
  m2 = m2
  NULL = NULL
  Tasks <- MCTasks
  Mutexes <- MCMutexes
  NUM_PRI = 3
  Deadlocks = FALSE
SYMMETRY MCSymmetry
INVARIANTS
  OwnershipAgrees
  PriorityIsHighest
PROPERTIES
  HandedToFirst
