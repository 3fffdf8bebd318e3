----------------------------- MODULE SelectList ------------------------------
(***************************************************************************)
(* The query builder of scenarios/sql-query: buildSelectList pads a SELECT *)
(* list with projections until it is exactly exactLen characters long, so  *)
(* that a capture of 256 characters ends in the middle of a word of the    *)
(* rest of the query.  QueryBuilder.java is a port of it.                  *)
(*                                                                         *)
(* Only lengths matter.  An entry of the list is "<expr> AS <alias>, "; of *)
(* the entries written so far the model keeps their total length and the   *)
(* length of the last alias.  Each turn of a loop is one step.             *)
(***************************************************************************)
EXTENDS Integers, Sequences

CONSTANTS
  ExactLen,  \* lengths asked for
  Marker     \* [alias |-> length, twin |-> index of the projection with the same
             \* alias, 0 if there is none]

queryCaptureTruncateAt == 256
maxIdentLen == 63

InputTyped ==
  /\ ExactLen \subseteq Nat
  /\ \A m \in Marker : m.alias \in 1 .. maxIdentLen - 15

\* selectProjections: lengths of expr and alias.
selectProjections ==
  <<<<2, 16>>, <<4, 17>>, <<5, 21>>, <<2, 21>>, <<4, 22>>, <<5, 26>>, <<2, 29>>,
    <<4, 26>>, <<5, 22>>, <<2, 26>>, <<4, 27>>, <<5, 23>>, <<2, 28>>, <<4, 27>>,
    <<5, 23>>, <<2, 23>>, <<4, 27>>, <<5, 23>>, <<2, 27>>, <<4, 26>>, <<5, 21>>>>

\* The lengths of aliasExactFragments.
aliasExactFragments ==
  (1 .. 46) \ {9, 12, 18, 22, 25, 26, 34, 38}

\* aliasOfLength(n): a fragment, or two of at least four characters joined by an
\* underscore.  The call panics when there is none.
HasAlias(n) ==
  /\ n \in 1 .. maxIdentLen
  /\ \/ n \in aliasExactFragments
     \/ \E l, r \in aliasExactFragments : l >= 4 /\ r >= 4 /\ l + 1 + r = n

prefix    == 7    \* "SELECT "
finalCols == 15   \* "id, name, email"
Entry(expr, alias) == expr + 4 + alias + 2
overhead      == Entry(2, 0)
minAdjustable == overhead + 8

VARIABLES
  exactLen,  \* the argument
  marker,    \* the argument
  next,      \* index of the next projection
  middle,    \* middle.Len()
  last,      \* length of the last alias in middle
  at         \* "project", "fill", "close", "built", "panic"

vars == <<exactLen, marker, next, middle, last, at>>

fillEnd == exactLen - finalCols
Gap     == fillEnd - prefix - middle

Init ==
  /\ exactLen \in ExactLen
  /\ marker \in Marker
  /\ next = 1
  /\ middle = Entry(2, marker.alias)
  /\ last = marker.alias
  /\ at = IF fillEnd <= prefix THEN "panic" ELSE "project"

Write(expr, alias) ==
  /\ middle' = middle + Entry(expr, alias)
  /\ last' = alias

GoTo(place) == at' = place

-----------------------------------------------------------------------------
(* The loop over selectProjections *)

Rest == UNCHANGED <<exactLen, marker>>

Skip ==
  /\ at = "project"
  /\ next = marker.twin
  /\ next' = next + 1
  /\ UNCHANGED <<middle, last, at>> /\ Rest

\* Room is kept for one last entry whose alias can still be chosen.
Fits(entry) == entry + minAdjustable <= Gap

EntryAt(i) == Entry(selectProjections[i][1], selectProjections[i][2])

\* The early return of an entry that fits exactly can never be taken: such an
\* entry leaves no room for another.
Project ==
  /\ at = "project"
  /\ next <= Len(selectProjections) /\ next # marker.twin
  /\ Fits(EntryAt(next))
  /\ Write(selectProjections[next][1], selectProjections[next][2])
  /\ GoTo(IF Gap = EntryAt(next) THEN "built" ELSE "project")
  /\ next' = next + 1
  /\ Rest

EndProjections ==
  /\ at = "project"
  /\ next <= Len(selectProjections) => next # marker.twin /\ ~Fits(EntryAt(next))
  /\ GoTo("fill")
  /\ UNCHANGED <<next, middle, last>> /\ Rest

-----------------------------------------------------------------------------
(* What is left *)

Fill ==
  /\ at = "fill"
  /\ Gap > overhead + maxIdentLen
  /\ IF HasAlias(maxIdentLen)
     THEN Write(2, maxIdentLen) /\ UNCHANGED at
     ELSE GoTo("panic") /\ UNCHANGED <<middle, last>>
  /\ UNCHANGED next /\ Rest

EndFill ==
  /\ at = "fill"
  /\ Gap <= overhead + maxIdentLen
  /\ GoTo("close")
  /\ UNCHANGED <<next, middle, last>> /\ Rest

\* One more entry whose alias has just the length that is missing.
Adjust ==
  /\ at = "close"
  /\ Gap # 0 /\ Gap >= minAdjustable
  /\ IF HasAlias(Gap - overhead)
     THEN Write(2, Gap - overhead) /\ GoTo("check")
     ELSE GoTo("panic") /\ UNCHANGED <<middle, last>>
  /\ UNCHANGED next /\ Rest

\* Mutant of CanGrow: the limit of Postgres identifiers is forgotten.
CanGrowFreely == HasAlias(Gap)

CanGrow == HasAlias(Gap) /\ last + Gap <= maxIdentLen

\* Or the last alias grows by what is missing.
Grow ==
  /\ at = "close"
  /\ Gap # 0 /\ Gap < minAdjustable
  /\ IF CanGrow
     THEN middle' = middle + Gap /\ last' = last + Gap /\ GoTo("check")
     ELSE GoTo("panic") /\ UNCHANGED <<middle, last>>
  /\ UNCHANGED next /\ Rest

AlreadyExact ==
  /\ at = "close"
  /\ Gap = 0
  /\ GoTo("check")
  /\ UNCHANGED <<next, middle, last>> /\ Rest

Check ==
  /\ at = "check"
  /\ GoTo(IF prefix + middle + finalCols = exactLen THEN "built" ELSE "panic")
  /\ UNCHANGED <<next, middle, last>> /\ Rest

Next ==
  \/ Skip \/ Project \/ EndProjections
  \/ Fill \/ EndFill
  \/ Adjust \/ Grow \/ AlreadyExact
  \/ Check

-----------------------------------------------------------------------------
(* buildQueryCuttingWord *)

\* The lengths of the words around the cut of the three queries.
Query ==
  {[cutWord |-> 5, beforeWord |-> 12, afterWord |-> 15],
   [cutWord |-> 4, beforeWord |-> 1, afterWord |-> 27],
   [cutWord |-> 5, beforeWord |-> 6, afterWord |-> 21]}

wordMid(q) == q.cutWord \div 2

selectLen(q) == queryCaptureTruncateAt - wordMid(q) - q.beforeWord

-----------------------------------------------------------------------------
(* What the callers rely on *)

\* The list has the length asked for, and no alias is longer than an identifier
\* of Postgres.  With the length buildQueryCuttingWord asks for, the capture ends
\* strictly inside the word it is meant to cut, and at most 64 characters follow.
Exact ==
  /\ last <= maxIdentLen
  /\ at = "built" =>
       LET length == prefix + middle + finalCols
       IN /\ length = exactLen
          /\ \A q \in Query : exactLen = selectLen(q) =>
               LET start == length + q.beforeWord
               IN /\ start < queryCaptureTruncateAt
                  /\ queryCaptureTruncateAt < start + q.cutWord
                  /\ start + q.cutWord + q.afterWord <= queryCaptureTruncateAt + 64

\* The call panics for lengths below the shortest list with this marker, and for
\* lengths the projections cannot fill, once the last alias is full; for no other.
PanicsOutside ==
  at = "panic" =>
    \/ exactLen < prefix + Entry(2, marker.alias) + finalCols
    \/ next > Len(selectProjections) /\ last = maxIdentLen
=============================================================================
