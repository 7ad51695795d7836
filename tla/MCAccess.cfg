SPECIFICATION Spec
CONSTANTS
  Request = {q1, q2}
  r1 = r1
  s1 = s1
  ann = ann
  bob = bob
  Key = {r1, s1}
  Sub = {ann, bob}
  Case = {c1}
  Staff = Staff
  Resident = Resident
  None = None
  Owner <- MCOwner
  Token <- MCToken
  FirstKeys <- MCFirstKeys
  TTL = 2
  Delay = 1
  MaxClock = 3
  MaxRotations = 1
SYMMETRY Symmetry
INVARIANTS TypeOK WithdrawnKeysExpire RefusedForCause ResidentsReadTheirOwn
CHECK_DEADLOCK FALSE
