SPECIFICATION DevicesSpec
CONSTANTS
  t1 = t1
  t2 = t2
  t3 = t3
  o1 = o1
  o2 = o2
  r1 = r1
  r2 = r2
  NULL = NULL
  NONE = NULL
  Tasks <- MCTasks
  resid <- MCResid
  OpnCBs <- MCOpnCBs
  ReqCBs <- MCReqCBs
  Units <- MCTwoUnits
  Modes <- MCModes
  MAX_DISSUS = 1
  Requesters <- MCRequesters
  Managers <- MCTasks
  AbortRace = TRUE
  MixedWaits = FALSE
  v1 = v1
  Sides = {"manager"}
  Users <- MCRequesters
  Pkts <- MCReqCBs
  Drivers <- MCDrivers
  MAXREQQ = 1
  limit = 1
  Kinds <- MCKinds
  Accepts <- MCAccepts
  Cmds = {}
CONSTRAINT MCBound
SYMMETRY MCSymmetry
INVARIANTS
  OneDriverCall
