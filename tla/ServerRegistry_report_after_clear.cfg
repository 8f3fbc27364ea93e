\* A report for an RCB node that was cleared.
CONSTANTS
  n1 = n1
  d1 = d1
  Nodes = {n1}
  Devices = {d1}
  None = None
  Names <- TwoNames
  Keys <- TwoKeys
  Key <- TwoKey
  a1 = a1
  Addrs = {a1}
  MaxGen = 1
  MaxFaults = 0
SPECIFICATION Spec
INVARIANTS
  ReportOnlyToLiveRcb
