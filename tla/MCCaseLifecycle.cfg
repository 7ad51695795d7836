CONSTANTS
  Kind = {"permit", "service_request", "foia_request"}
  Config <- LoadWorkflows
  Handler = {h1, h2}
  Requested = {"under_review", "approved", "rejected", "in_progress", "resolved", "closed", "processing", "fulfilled"}
  Role = {"admin"}
  MaxAttempts = 2
  MaxCalls = 3
  MaxFaults = 2
SPECIFICATION Spec
INVARIANTS
  TypeOK
  RowMatchesEvents
  SerialAgreement
  RepeatsNeedRetries
PROPERTIES
  ImplementsLedger
  EndedForGood
  TimersFire
CHECK_DEADLOCK FALSE
