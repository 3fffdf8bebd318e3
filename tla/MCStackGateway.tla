--------------------------- MODULE MCStackGateway ---------------------------
(* Instances of StackGateway for TLC. *)
EXTENDS StackGateway, TLC

Alike == Permutations(Request)
=============================================================================
