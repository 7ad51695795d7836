SPECIFICATION Spec
CONSTANTS
  Row = {a, b, c}
  Client = {x}
  Param <- MCParam
  NoNumber = NoNumber
  Default = 2
  Width = 6
  MaxStamp = 3
  MaxUpdates = 2
SYMMETRY Symmetry
INVARIANTS TypeOK MissedForCause
PROPERTIES RepeatedForCause
CHECK_DEADLOCK FALSE
