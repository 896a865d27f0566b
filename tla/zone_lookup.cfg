\* Every file of up to three of seven definitions; a server that exits stops.
CONSTANTS
  Config <- Files
  Queried <- Names
SPECIFICATION Spec
INVARIANTS ClosestZoneAnswers ServesWholeFile
CHECK_DEADLOCK FALSE
