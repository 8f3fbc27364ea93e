SPECIFICATION Spec
CONSTANTS
  door = door
  gate = gate
  Objects <- MCObjects
  Models = {"status", "direct", "sbo", "directEnhanced", "sboEnhanced"}
  MaxOps = 2
SYMMETRY Symmetry
INVARIANTS TypeOK SelectionsOwned TerminationTold FreedUntouched
PROPERTY OperationsImplemented
CHECK_DEADLOCK FALSE
