CONSTANTS
  Kind = {"permit", "service_request", "foia_request"}
  Config <- LoadWorkflows
  Handler = {h1, h2}
  Requested = {"under_review", "approved", "rejected", "in_progress", "resolved", "closed", "processing", "fulfilled"}
  Role = {"admin", "system"}
  MaxAttempts = 2
  MaxCalls = 3
  MaxFaults = 0
SPECIFICATION Spec
PROPERTIES
  TransitionsFollowConfig
CHECK_DEADLOCK FALSE
