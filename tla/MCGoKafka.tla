----------------------------- MODULE MCGoKafka ------------------------------
(* Instances of GoKafka for TLC. *)
EXTENDS GoKafka

OneTopic == <<"a">>
=============================================================================
