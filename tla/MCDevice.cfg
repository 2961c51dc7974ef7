SPECIFICATION DevicesSpec
CONSTANTS
  t1 = t1
  t2 = t2
  t3 = t3
  o1 = o1
  o2 = o2
  r1 = r1
  r2 = r2
  v1 = v1
  NULL = NULL
  NONE = NULL
  Tasks <- MCTasks
  resid <- MCResid
  OpnCBs <- MCOpnCBs
  ReqCBs <- MCReqCBs
  Units <- MCUnits
  Modes <- MCModes
  MAX_DISSUS = 1
  Requesters <- MCRequesters
  Managers <- MCManagers
  AbortRace = FALSE
  MixedWaits = FALSE
  Sides = {"manager", "library"}
  Users <- MCRequesters
  Pkts <- MCReqCBs
  Drivers <- MCDrivers
  MAXREQQ = 2
  limit = 1
  Kinds <- MCKinds
  Accepts <- MCAccepts
  Cmds = {"c1"}
CONSTRAINT MCBound
SYMMETRY MCSymmetry
INVARIANTS
  OneDriverCall
  DriverOpen
  RequestsOwned
  WaitersWillBeWoken
  
  
