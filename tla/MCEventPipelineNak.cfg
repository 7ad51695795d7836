CONSTANTS
  Event = {e1, e2}
  Replica = {r1}
  BatchLimit = 2
  MaxAckPending = 4
  MaxSeq = 4
  MaxFaults = 1
SPECIFICATION Spec
PROPERTIES
  RedeliverySettles
CHECK_DEADLOCK FALSE
