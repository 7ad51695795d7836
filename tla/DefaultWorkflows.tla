-------------------------- MODULE DefaultWorkflows --------------------------
(* The workflows of config/workflows/*.yaml, as the worker loads them.       *)

Resting(name)    == [name |-> name, terminal |-> FALSE, autoExpire |-> FALSE]
Final(name)      == [name |-> name, terminal |-> TRUE,  autoExpire |-> FALSE]
Expiring(name)   == [name |-> name, terminal |-> FALSE, autoExpire |-> TRUE]
Edge(from, to, roles) == [from |-> from, to |-> to, roles |-> roles]

anyStaff == {"staff", "reviewer", "admin"}

permits ==
  [initial     |-> "submitted",
   statuses    |-> <<Resting("submitted"), Resting("under_review"), Expiring("approved"),
                     Final("rejected"), Final("expired")>>,
   transitions |-> <<Edge("submitted", "under_review", {"reviewer", "admin"}),
                     Edge("under_review", "approved", {"admin"}),
                     Edge("under_review", "rejected", {"admin"}),
                     Edge("approved", "expired", {"system"})>>]

serviceRequests ==
  [initial     |-> "open",
   statuses    |-> <<Resting("open"), Resting("assigned"), Resting("in_progress"),
                     Final("resolved"), Final("closed")>>,
   transitions |-> <<Edge("open", "assigned", anyStaff),
                     Edge("assigned", "in_progress", anyStaff),
                     Edge("in_progress", "resolved", anyStaff),
                     Edge("resolved", "closed", {"admin", "system"}),
                     Edge("open", "closed", {"admin"})>>]

foiaRequests ==
  [initial     |-> "received",
   statuses    |-> <<Resting("received"), Resting("processing"),
                     Resting("awaiting_clarification"),
                     Final("fulfilled"), Final("denied"), Final("withdrawn")>>,
   transitions |-> <<Edge("received", "processing", anyStaff),
                     Edge("received", "awaiting_clarification", anyStaff),
                     Edge("awaiting_clarification", "processing", anyStaff),
                     Edge("processing", "fulfilled", {"reviewer", "admin"}),
                     Edge("processing", "denied", {"admin"}),
                     Edge("received", "withdrawn", {"system"}),
                     Edge("processing", "withdrawn", {"system"})>>]

\* LoadWorkflows: the configuration of each resource type.
LoadWorkflows ==
  [permit |-> permits, service_request |-> serviceRequests, foia_request |-> foiaRequests]
=============================================================================
