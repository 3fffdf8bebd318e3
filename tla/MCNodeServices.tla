--------------------------- MODULE MCNodeServices ---------------------------
(* Instances of NodeServices for TLC. *)
EXTENDS NodeServices

\* A route word, and a prefix, with a capital.
MCSpelling == [w \in {"Static", "Http-Framework"} |->
                 IF w = "Static" THEN "static" ELSE "http-framework"]
=============================================================================
