--------------------------- MODULE WorkflowConfig ---------------------------
(***************************************************************************)
(* The YAML workflow of a resource type (internal/workflows): a record     *)
(* with the initial status, the sequence of statuses and the sequence of   *)
(* transitions, and the questions the code asks of it.                     *)
(***************************************************************************)
EXTENDS Naturals, Sequences

Entries(s) == {s[i] : i \in DOMAIN s}

\* Some entry of the status is marked terminal.
IsTerminal(c, status) ==
  \E s \in Entries(c.statuses) : s.name = status /\ s.terminal

\* The status has an expiry of its own (AutoExpireAfterDuration > 0).
AutoExpires(c, status) ==
  \E s \in Entries(c.statuses) : s.name = status /\ s.autoExpire

\* The FIRST transition from one status to the other decides for every role.
ValidateTransition(c, from, to, role) ==
  LET matching == {i \in DOMAIN c.transitions :
                     c.transitions[i].from = from /\ c.transitions[i].to = to}
  IN  \E i \in matching : /\ \A j \in matching : i <= j
                          /\ role \in c.transitions[i].roles
=============================================================================
