SPECIFICATION LibSpec
CONSTANTS
  NULL = NULL
  Lockers = {t1, t2, t3}
  Numbers = {0, 1}
  Tasks = {t1, t2}
  MAXPAGE = 4
  PAGESZ = 10
  Sizes = {2, 9}
  PageReqs = {1, 2}
  MaxHeld = 3
INVARIANTS
  PagesPartitioned
  HeapsPartitioned
CONSTRAINT MCMemoryBound
PROPERTY ImplementsLock
