------------------------------ MODULE MCRedisStack ------------------------------
(* Instances of RedisStack for TLC; liveness is checked, so there is no symmetry. *)
EXTENDS RedisStack
=============================================================================
