\* An Edit that changes nothing.
CONSTANTS
  n1 = n1
  n2 = n2
  d1 = d1
  Nodes = {n1, n2}
  Devices = {d1}
  None = None
  Names <- TwoNames
  Keys <- TwoKeys
  Key <- TwoKey
  a1 = a1
  Addrs = {a1}
  MaxGen = 1
  MaxFaults = 0
SPECIFICATION Spec
PROPERTIES
  EditSameKeeps
