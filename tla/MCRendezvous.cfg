SPECIFICATION RdvSpec
CONSTANTS
  t1 = t1
  t2 = t2
  t3 = t3
  p1 = p1
  p2 = p2
  b1 = b1
  b2 = b2
  NoInfo = NoInfo
  Tasks <- MCTasks
  Ports <- MCPorts
  Bits <- MCBits
  Masks <- MCMasks
  NUM_PRI = 1
  PorAtrs <- MCPorAtrs
  MaxDisabled = 1
  RDVNO_MOD = 2
SYMMETRY MCSymmetry
INVARIANTS
  NumberNamesItsRendezvous
  NoMatchingPair
  CallKeepsItsTerms
