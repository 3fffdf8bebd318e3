---------------------------- MODULE MCTailSampling ---------------------------
(* Two clients whose chains together need more threads than Tomcat has; and    *)
(* tests of a rule that keeps all it matches, of one that keeps some, of both. *)
EXTENDS TailSamplingTest

Sure   == [match |-> 1, keep |-> 1, drop |-> 0]
Chance == [match |-> 1, keep |-> None, drop |-> None]

TestFiles == {<<Sure>>, <<Chance>>, <<Sure, Chance>>}
=============================================================================
