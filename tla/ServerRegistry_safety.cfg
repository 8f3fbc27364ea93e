\* Two servers with one device each, two discoveries, one failing SDK call.
CONSTANTS
  n1 = n1
  n2 = n2
  d1 = d1
  Nodes = {n1, n2}
  Devices = {d1}
  None = None
  Names <- TwoNames
  Keys <- TwoKeys
  Key <- TwoKey
  a1 = a1
  Addrs = {a1}
  MaxGen = 2
  MaxFaults = 1
SPECIFICATION Spec
SYMMETRY Symmetry
INVARIANTS
  TypeOK
  MapMatchesTree
  
  NoOrphanConnection
  NoReceiverAfterFree
  
  
PROPERTIES
  
  ConnectionsUsed
