SPECIFICATION ObjSpec
CONSTANTS
  t1 = t1
  t2 = t2
  t3 = t3
  b1 = b1
  b2 = b2
  m1 = m1
  m2 = m2
  m3 = m3
  NULL = NULL
  NoInfo = NoInfo
  Handler = Handler
  Tasks <- MCTasks
  Bits <- MCBits
  Modes <- MCModes
  Msgs <- MCMsgs
  msgpri <- MCmsgpri
  msgsz <- MCmsgsz
  Kinds = {"sem", "flg", "mbx", "mbf", "mpl", "mpf"}
  NUM_PRI = 2
  MaxDisabled = 1
  MaxSuspended = 1
  MAXSEM = 2
  BufSizes = {0, 5}
  MPLSZ = 8
  BlkSizes = {2, 3, 5}
  MPFCNT = 2
SYMMETRY MCSymmetry
CONSTRAINT MCInterference
INVARIANTS
  WaitsAgree
  NoServableWaiter
  PoolsPartitioned
PROPERTIES
  NoOvertaking
  ConsumedInOrder
  ImplementsMessageQueue
