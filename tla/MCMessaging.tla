------------------------------ MODULE MCMessaging ------------------------------
(* Instances of Messaging for TLC; liveness is checked, so there is no symmetry. *)
EXTENDS Messaging
=============================================================================
