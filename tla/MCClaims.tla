------------------------------ MODULE MCClaims ------------------------------
(* Instances of Claims for TLC. *)
EXTENDS Claims, TLC

\* Negative, below the deductible, at and just above the limit of a junior adjuster, and
\* above the coverage of the policy.
Amounts == {-100, 20000, 300000, 300001, 2600000}
ThreadSymmetry == Permutations(Thread)
=============================================================================
