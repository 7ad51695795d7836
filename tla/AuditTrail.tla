----------------------------- MODULE AuditTrail -----------------------------
(***************************************************************************)
(* What the platform promises of its audit log: it records changes that    *)
(* have committed and nothing else, each of them once and for good.  How   *)
(* events travel, and how often, does not show.                            *)
(***************************************************************************)
CONSTANT Event

VARIABLES committed,   (* the changes the domain services have committed     *)
          recorded     (* the changes the audit log knows                    *)

trail == <<committed, recorded>>

Init ==
  /\ committed = {}
  /\ recorded = {}

Commit(e) ==
  /\ e \notin committed
  /\ committed' = committed \cup {e}
  /\ UNCHANGED recorded

Record(e) ==
  /\ e \in committed \ recorded
  /\ recorded' = recorded \cup {e}
  /\ UNCHANGED committed

Next == \E e \in Event : Commit(e) \/ Record(e)

Spec == Init /\ [][Next]_trail
=============================================================================
