SPECIFICATION Spec
CONSTANTS
  TableSize = 2
  MaxCalls = 3
  MaxReports = 1
  MaxConnects = 2
INVARIANTS
  TypeOK
  TableClean
  NoStaleAnswer
  ConnectedIsLive
PROPERTIES
  CallsServed
  ConnectionImplemented
  
  
  
