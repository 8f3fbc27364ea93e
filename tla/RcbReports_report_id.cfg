CONSTANTS
  r1 = r1 r2 = r2 id1 = id1 id2 = id2 small = small large = large
  a1 = a1 a2 = a2 a3 = a3 p1 = p1 p2 = p2 None = None
  Ids = {id1, id2} DataSets = {small, large} Params = {p1}
  Attrs = {a1, a2, a3} Opened = {a1, a2, a3}
  Members <- MCMembers
  Type <- MCType
  Rcbs = {r1}
  Order <- OneOrder
  Config0 <- OneConfig0
  Settable <- Fields
  MaxQueue = 2 MaxWire = 2
SPECIFICATION Spec
PROPERTIES ReportsHeard
