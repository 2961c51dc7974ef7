CONSTANTS
  t1 = t1
  t2 = t2
  Tasks = {t1, t2}
  Ssys = {s1}
  NULL = NULL
  Codes = {1}
  bpriority <- MCbpriority
  RNG0 = {t1}
  BreakCalls = FALSE
  MaxDepth = 2
SPECIFICATION SubsystemSpec
INVARIANTS BreakOnce Unwound NoExceptionLost
PROPERTY BreakExclusive
