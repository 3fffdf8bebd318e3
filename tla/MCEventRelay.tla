------------------------------ MODULE MCEventRelay ------------------------------
(* Instances of EventRelay for TLC; liveness is checked, so there is no symmetry. *)
EXTENDS EventRelay
=============================================================================
