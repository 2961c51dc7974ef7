SPECIFICATION KSpec
CONSTANTS
  t1 = t1
  t2 = t2
  t3 = t3
  l1 = l1
  l2 = l2
  NULL = NULL
  Tasks <- MCTasks
  NUM_PRI = 2
  Locks <- MCLocks
  INT_MAX = 1
  SliceTimes = {0}
  TIMER_PERIOD = 1
SYMMETRY MCSymmetry
INVARIANTS
  MutualExclusion
  NoLockLost
  
