CONSTANTS
  Event = {e1, e2}
  Replica = {r1, r2}
  BatchLimit = 2
  MaxAckPending = 4
  MaxSeq = 4
  MaxFaults = 1
SPECIFICATION Spec
INVARIANTS
  TypeOK
  NothingLost
  SlotsLostToFaults
PROPERTIES
  ImplementsTrail
  StuckForGood
  EventuallyRecorded
CHECK_DEADLOCK FALSE
