CONSTANTS
  anna = anna
  ben = ben
  carl = carl
  Accounts <- AccountsDef
  Programs = {"cli"}
  TakesUrl = FALSE
  NoOne = NoOne
  MaxCommands = 3
  MaxFaults = 0
  MaxStops = 1
SPECIFICATION Spec
SYMMETRY Interchangeable
PROPERTIES
  RefusedForCause
CHECK_DEADLOCK FALSE
