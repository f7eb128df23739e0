CONSTANTS
  anna = anna
  ben = ben
  carl = carl
  Accounts <- AccountsDef
  Programs = {"menu", "cli"}
  TakesUrl = TRUE
  NoOne = NoOne
  MaxCommands = 3
  MaxFaults = 2
  MaxStops = 1
SPECIFICATION Spec
SYMMETRY Interchangeable
INVARIANTS
  RightAccount
PROPERTIES
  RefusedForCause
CHECK_DEADLOCK FALSE
