CONSTANTS
  Request = {r1, r2, r3}
  Address = {a1}
  Limit = 1
  Window = 2
  Capacity = 2
  MaxClock = 2
  MaxOutages = 0
  Nil = Nil
SPECIFICATION Spec
SYMMETRY Symmetry
INVARIANTS
  RedisLimits
CHECK_DEADLOCK FALSE
