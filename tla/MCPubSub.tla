------------------------------ MODULE MCPubSub ------------------------------
(* Instances of PubSub for TLC; liveness is checked, so there is no symmetry. *)
EXTENDS PubSub
=============================================================================
