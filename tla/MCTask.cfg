SPECIFICATION Spec
CONSTANTS
  t1 = t1
  t2 = t2
  t3 = t3
  NULL = NULL
  Tasks <- MCTasks
  NUM_PRI = 2
  Locks = {}
  INT_MAX = 1
  SliceTimes = {0}
  TIMER_PERIOD = 1
SYMMETRY MCSymmetry
INVARIANTS
  ReadyQueueConsistent
  SchedtskIsTop
  RunnerIsReady
  
  NoLostWakeup
PROPERTIES
  FifoWithinPriority
