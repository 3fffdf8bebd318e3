----------------------------- MODULE MCSqlQuery ------------------------------
(* Instances of SqlQuery for TLC; liveness is checked, so there is no symmetry. *)
EXTENDS SqlQuery

\* Up to the length of the queries, and where the projections run out.
Lengths == 1 .. 260 \union 800 .. 1000

\* The three markers, and aliases that occur among the projections.
Markers == {[alias |-> 26, twin |-> 0], [alias |-> 28, twin |-> 0],
            [alias |-> 16, twin |-> 1], [alias |-> 21, twin |-> 21]}

\* The query that is cut in WHERE stands for the three.
CutInWhere == {[exactLen |-> 242, marker |-> [alias |-> 26, twin |-> 0]]}
=============================================================================
