\* One server with two devices, three discoveries.
CONSTANTS
  n1 = n1
  d1 = d1
  d2 = d2
  Nodes = {n1}
  Devices = {d1, d2}
  None = None
  Names <- TwoNames
  Keys <- TwoKeys
  Key <- TwoKey
  a1 = a1
  Addrs = {a1}
  MaxGen = 3
  MaxFaults = 0
SPECIFICATION FairSpec
INVARIANTS
  VisibleRcbHears
PROPERTIES
  
  LoopReturns
