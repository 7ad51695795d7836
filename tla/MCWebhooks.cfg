SPECIFICATION Spec
CONSTANTS
  p1 = p1
  created = created
  other = other
  ping = ping
  Endpoint = {p1}
  Event = {created, other}
  TestEvent = {ping}
  DeliverAttempts = 2
  RecordAttempts = 2
  maxConsecutiveFailures = 2
  MaxFaults = 2
  Patterns <- Subscriptions
  Subject <- Subjects
INVARIANTS
  TypeOK
  DisabledForCause
  DeliveriesLogged
  OnlySubscribed
PROPERTIES
  ImplementsPromise
  DeletedForGood
  EventuallyDelivered
CHECK_DEADLOCK FALSE
