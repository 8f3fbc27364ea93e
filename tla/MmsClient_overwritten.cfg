SPECIFICATION Spec
CONSTANTS
  TableSize = 2
  MaxCalls = 2
  MaxReports = 1
  MaxConnects = 1
INVARIANT BufferKept
