-------------------------- MODULE MCEventPipeline ---------------------------
(* Model checking of the event pipeline on small instances.                  *)
EXTENDS EventPipeline
=============================================================================
