------------------------------ MODULE MCOutbox ------------------------------
(* Model checking of the transactional outbox on small instances.            *)
EXTENDS Outbox
=============================================================================
