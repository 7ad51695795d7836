CONSTANTS
  Event = {e1, e2, e3}
  Replica = {r1, r2}
  BatchLimit = 2
  MaxFaults = 2
SPECIFICATION Spec
INVARIANTS
  TypeOK
  NoLostEvent
  NoPhantomEvent
  DuplicatesNeedFaults
  RealTimeOrder
CHECK_DEADLOCK FALSE
