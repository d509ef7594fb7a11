---------------------------- MODULE MCLifecycle ----------------------------
(* Two processes of one worker; every fault, two of them together. *)
EXTENDS Lifecycle

MCFaults == FaultKinds
=============================================================================
