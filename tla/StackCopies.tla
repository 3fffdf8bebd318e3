----------------------------- MODULE StackCopies -----------------------------
(***************************************************************************)
(* The two services of the stacks that keep a copy of what another one     *)
(* writes, and fill it on a read that finds nothing: inventory-go, whose   *)
(* map follows a Kafka topic (Inventory), and nodejs-cache in front of     *)
(* Elasticsearch (SearchStack).  They are stacks of their own and share    *)
(* nothing, so a behaviour is one of the one or of the other.              *)
(***************************************************************************)
EXTENDS Inventory

CONSTANTS
  Body, MaxTxns  \* of SearchStack

VARIABLES
  stack,         \* "kafka" or "search"
  docs, shipments, cached, call, begun, excused, lapsed, missed  \* of SearchStack

searchVars == <<docs, shipments, cached, call, begun, excused, lapsed, missed>>

Search == INSTANCE SearchStack WITH txn <- call, faults <- missed, MaxFaults <- MaxFailures

ASSUME SearchAssumption == Search!InputTyped

CopiesInit ==
  /\ stack \in {"kafka", "search"}
  /\ InventoryInit /\ Search!Init

KafkaStep  == stack = "kafka" /\ InventoryNext /\ UNCHANGED <<stack, searchVars>>
SearchStep == stack = "search" /\ Search!Next /\ UNCHANGED <<stack, inventoryVars>>

CopiesNext == KafkaStep \/ SearchStep

CopiesSpec == CopiesInit /\ [][CopiesNext]_<<stack, inventoryVars, searchVars>>

-----------------------------------------------------------------------------
(* Properties *)

\* A copy is what was last written, whatever requests and events overlap, except
\* where a reader or a writer came between the two steps of another: the stock of
\* inventory-go stays "updated", and memcached holds the copy of the body that is
\* indexed.
CopiesKept == UpdateKept /\ Search!CopyAgrees
=============================================================================
