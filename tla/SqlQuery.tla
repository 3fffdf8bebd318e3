------------------------------ MODULE SqlQuery -------------------------------
(***************************************************************************)
(* The sql-query app from the start of its process: the query lists are    *)
(* built while the package is initialised (SelectList), and a list that    *)
(* cannot be built ends the process; only then does main open the database *)
(* and serve (SqlSchema).  The three lists are built one after another and *)
(* share nothing, so one list stands for them, of any length in ExactLen;  *)
(* the app goes on from the length that Deployed names.                    *)
(***************************************************************************)
EXTENDS SqlSchema

CONSTANTS
  ExactLen, Marker,  \* of SelectList
  Deployed           \* the arguments the app is run with after the list is built

VARIABLES
  exactLen, marker, upcoming, middle, last,  \* of SelectList
  built                                      \* SelectList's at

list == <<exactLen, marker, upcoming, middle, last, built>>

List == INSTANCE SelectList WITH at <- built, next <- upcoming

ASSUME ListAssumption == List!InputTyped

Arguments == [exactLen |-> exactLen, marker |-> marker]

\* QueryBuilder.java is a port: lists that are only built are built by the Go app.
QueryInit == SchemaInit /\ List!Init /\ (Arguments \in Deployed \/ language = "go")

\* The variables of the package: builds the list.
BuildList ==
  /\ List!Next
  /\ UNCHANGED schemaVars

\* A step of main, which starts when the lists are there.
Main(step) ==
  /\ built = "built"
  /\ Arguments \in Deployed
  /\ UNCHANGED list
  /\ step

QueryNext == BuildList \/ Main(SchemaNext)

QuerySpec ==
  /\ QueryInit /\ [][QueryNext]_<<schemaVars, list>>
  /\ WF_<<schemaVars, list>>(Main(PostgresStarts))
  /\ WF_<<schemaVars, list>>(Main(LateInsert))
  /\ \A t \in Thread : WF_<<schemaVars, list>>(Main(Serve(t)))
  /\ \A p \in Pod : WF_<<schemaVars, list>>(Main(Arrive(<<Kubelet, p>>)))

-----------------------------------------------------------------------------
(* Properties *)

\* "buildSelectList returns exactly exactLen chars" (main.go:157), on all its
\* paths, for every length from the shortest list to the longest that the
\* projections can fill, so the app never dies at start-up of a length in between;
\* with the length buildQueryCuttingWord asks for, the capture cuts the word it is
\* meant to cut (query_build_test.go:43).
ExactAndValid == List!Exact /\ List!PanicsOutside
=============================================================================
