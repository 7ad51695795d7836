-------------------------- MODULE MCCaseLifecycle ---------------------------
(* Model checking of the life of a case under the workflows of config/.      *)
EXTENDS CaseLifecycle, DefaultWorkflows

\* What theorems LegalHistory and SerialCases ask of a configuration, these give.
ASSUME ShippedConfiguration == ExpiryAllowed /\ OrderlyEnds
=============================================================================
