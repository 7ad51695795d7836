----------------------------- MODULE CaseLedger -----------------------------
(***************************************************************************)
(* What the platform promises of a case to those who see it from outside:  *)
(* a status, and a list of events that tells how it came about.  Each      *)
(* change is a transition its configuration allows, from a status the case *)
(* has, or had if its author was not alone; each request changes it once.  *)
(* How a change is validated, by whom, and what fails on the way does not  *)
(* show.                                                                   *)
(***************************************************************************)
EXTENDS WorkflowConfig

CONSTANTS Kind,    (* the resource types                          *)
          Config,  (* the configuration of each                   *)
          Role,    (* roles that request changes                  *)
          Number   (* numbers of requests                         *)

VARIABLES kind,      (* the case's resource type                                  *)
          status,    (* its status, "none" before it exists                       *)
          events,    (* its events, in their order                                *)
          disturbed  (* did operations on it overlap, or did any of them fail?    *)

ledger == <<kind, status, events, disturbed>>

Init ==
  /\ kind \in Kind
  /\ status = "none" /\ events = <<>>
  /\ disturbed = FALSE

Event(op, from, to, role, by) ==
  [op |-> op, from |-> from, to |-> to, role |-> role, by |-> by]

Create ==
  /\ status = "none"
  /\ status' = Config[kind].initial
  /\ events' = <<Event("create", "none", status', "none", 0)>>
  /\ UNCHANGED <<kind, disturbed>>

\* A change goes along a transition e, from where the case is unless it was disturbed, ...
Along(e) ==
  /\ status # "none"
  /\ status' = e.to
  /\ e.from = status \/ disturbed
  /\ UNCHANGED <<kind, disturbed>>

\* ... which must be allowed for the role, and an event tells of it.
Announce(e, op, role, no) ==
  /\ events' = Append(events, Event(op, e.from, e.to, role, no))
  /\ ValidateTransition(Config[kind], e.from, e.to, role)

\* A request changes a status that the case has, or had when its author read it, once.
Change(e) ==
  /\ Along(e)
  /\ \E i \in DOMAIN events : events[i].to = e.from
  /\ \E op \in {"update", "assign"}, role \in Role, no \in Number :
       /\ \A i \in DOMAIN events : events[i].op \in {"update", "assign"} => events[i].by # no
       /\ Announce(e, op, role, no)

\* A permit expires, perhaps from a status that was approved and never written.
Expire(e) ==
  /\ Along(e) /\ e.to = "expired"
  /\ \E no \in Number : Announce(e, "expire", "system", no)

Disturb ==
  /\ disturbed' = TRUE
  /\ UNCHANGED <<kind, status, events>>

Next ==
  \/ Create
  \/ \E e \in Entries(Config[kind].transitions) : Change(e) \/ Expire(e)
  \/ Disturb

Spec == Init /\ [][Next]_ledger
=============================================================================
