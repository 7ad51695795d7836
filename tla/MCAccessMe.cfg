SPECIFICATION Spec
CONSTANTS
  Request = {q1}
  r1 = r1
  s1 = s1
  ann = ann
  bob = bob
  Key = {r1, s1}
  Sub = {ann, bob}
  Case = {c1}
  Staff = Staff
  Resident = Resident
  None = None
  Owner <- MCOwner
  Token <- MCToken
  FirstKeys <- MCFirstKeys
  TTL = 2
  Delay = 1
  MaxClock = 2
  MaxRotations = 1
INVARIANT MeIsTheCaller
CHECK_DEADLOCK FALSE
