CONSTANTS
  Request = {r1, r2, r3}
  Address = {a1, a2}
  Limit = 1
  Window = 2
  Capacity = 1
  MaxClock = 4
  MaxOutages = 1
  Nil = Nil
SPECIFICATION Spec
SYMMETRY Symmetry
INVARIANTS
  TypeOK
  SlidingWindow
  RefusedForCause
  ConnectionsAccountedFor
CHECK_DEADLOCK FALSE
