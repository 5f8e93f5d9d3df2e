--------------------------- MODULE MCProvisioning ---------------------------
(* Three calls against one resource, with two attempts each, so that a call *)
(* can run out of attempts; two state checks a wait.                        *)
EXTENDS Provisioning
=============================================================================
