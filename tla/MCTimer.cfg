\* Events of three kinds in one queue, through five timer interrupts
CONSTANTS
  Cycs = {cyc1}
  Alms = {alm1}
  Tasks = {t1}
  NULL = NULL
  TIMER_PERIOD = 2
  CycTims = {1, 3}
  Delays = {0, 1, 2}
  TimMax = 10
SPECIFICATION TimerSpec
INVARIANT EventsAgree
PROPERTIES CyclesKept NeverEarly LoopEnds
