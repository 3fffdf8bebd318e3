----------------------------- MODULE Inventory ------------------------------
(***************************************************************************)
(* stacks/kafka-stack/inventory-go and the part of a kafka-stack           *)
(* transaction that uses it: the gateway produces an event with a key,     *)
(* asks GET /inventory/<key> and then looks the key up over gRPC.          *)
(*                                                                         *)
(* Every request has a goroutine of its own, and another one reads the     *)
(* topic.  They share a sync.Map: a Load and a Store are atomic, a Load    *)
(* followed by a Store is not.  kafka-go's ReadMessage (external) commits  *)
(* the offset before it returns the message.                               *)
(***************************************************************************)
EXTENDS Integers, Sequences

CONSTANTS
  Client,      \* transactions under way at once
  Key,         \* inventory keys
  MaxEvents,   \* bound: events, so transactions too
  MaxFailures  \* bound: failed commits and restarts of inventory-go

ASSUME BoundAssumption == MaxEvents \in Nat /\ MaxFailures \in Nat

Stock == {"unknown", "stock", "updated"}
NoKey == "none"
Done  == [key |-> NoKey, at |-> "done"]

VARIABLES
  inventory, \* the sync.Map; "unknown" for a key it does not hold
  txn,       \* the transaction of each client and what it was answered
  topic,     \* keys of the events, in order
  committed, \* offset the group has committed
  position,  \* consumer: offset of the last message read
  hand,      \* consumer: ReadMessage has returned a message that is not stored yet
  updates,   \* history: offsets whose update was stored, in order
  current,   \* history: keys updated since the restart
  overtaken, \* history: keys updated between the Load and the Store of a request
  failures   \* number of failures

consumerVars  == <<committed, position, hand, updates, current, overtaken>>
inventoryVars == <<inventory, txn, topic, consumerVars, failures>>

InventoryInit ==
  /\ inventory = [k \in Key |-> "unknown"]
  /\ txn = [c \in Client |-> Done]
  /\ topic = <<>>
  /\ committed = 0
  /\ position = 0
  /\ hand = FALSE
  /\ updates = <<>>
  /\ current = {}
  /\ overtaken = {}
  /\ failures = 0

Failure == failures < MaxFailures /\ failures' = failures + 1

-----------------------------------------------------------------------------
(* A transaction of the gateway *)

Produce(c, k) ==
  /\ txn[c].at = "done"
  /\ Len(topic) < MaxEvents
  /\ topic' = Append(topic, k)
  /\ txn' = [txn EXCEPT ![c] = [Done EXCEPT !.key = k, !.at = "load"]]
  /\ UNCHANGED <<inventory, consumerVars, failures>>

\* GET /inventory/<key>: inventory.Load.
Load(c) ==
  /\ txn[c].at = "load"
  /\ LET found == inventory[txn[c].key]
     IN txn' = [txn EXCEPT ![c].at = IF found = "unknown" THEN "store" ELSE "lookup"]
  /\ UNCHANGED <<inventory, topic, consumerVars, failures>>

\* ... and inventory.Store, whatever was stored in between.
Store(c) ==
  /\ txn[c].at = "store"
  /\ inventory' = [inventory EXCEPT ![txn[c].key] = "stock"]
  /\ txn' = [txn EXCEPT ![c].at = "lookup"]
  /\ UNCHANGED <<topic, consumerVars, failures>>

\* gRPC Get.
Lookup(c) ==
  /\ txn[c].at = "lookup"
  /\ txn' = [txn EXCEPT ![c] = Done]
  /\ UNCHANGED <<inventory, topic, consumerVars, failures>>

-----------------------------------------------------------------------------
(* consumeKafka *)

\* Mutant of Read: commits what was fetched ahead, not what is returned.
ReadCommitsAhead ==
  /\ ~hand
  /\ position < Len(topic)
  /\ hand' = TRUE
  /\ position' = position + 1
  /\ committed' = Len(topic)
  /\ UNCHANGED <<inventory, txn, topic, updates, current, overtaken, failures>>

\* ReadMessage: fetch, commit, return.
Read ==
  /\ ~hand
  /\ position < Len(topic)
  /\ hand' = TRUE
  /\ position' = position + 1
  /\ committed' = position + 1
  /\ UNCHANGED <<inventory, txn, topic, updates, current, overtaken, failures>>

\* The commit fails, on its way or on its way back: ReadMessage returns an error,
\* and the loop goes on with the message after.
ReadFails ==
  /\ ~hand
  /\ position < Len(topic)
  /\ Failure
  /\ position' = position + 1
  /\ committed' \in {committed, position + 1}
  /\ UNCHANGED <<inventory, txn, topic, hand, updates, current, overtaken>>

\* inventory.Store(key, "updated-" + key).
Update ==
  /\ hand
  /\ LET key == topic[position]
     IN /\ inventory' = [inventory EXCEPT ![key] = "updated"]
        /\ current' = current \union {key}
        /\ overtaken' = IF \E c \in Client : txn[c].at = "store" /\ txn[c].key = key
                        THEN overtaken \union {key} ELSE overtaken
  /\ updates' = Append(updates, position)
  /\ hand' = FALSE
  /\ UNCHANGED <<txn, topic, committed, position, failures>>

\* The container restarts with an empty map; the requests it was serving fail.
Restart ==
  /\ Failure
  /\ inventory' = [k \in Key |-> "unknown"]
  /\ txn' = [c \in Client |-> IF txn[c].at \in {"load", "store"} THEN Done ELSE txn[c]]
  /\ position' = committed
  /\ hand' = FALSE
  /\ current' = {}
  /\ overtaken' = {}
  /\ UNCHANGED <<topic, committed, updates>>

Consume == Read \/ Update

InventoryNext ==
  \/ \E c \in Client : \/ \E k \in Key : Produce(c, k)
                       \/ Load(c) \/ Store(c) \/ Lookup(c)
  \/ Consume
  \/ ReadFails
  \/ Restart

InventorySpec == InventoryInit /\ [][InventoryNext]_inventoryVars

-----------------------------------------------------------------------------
(* Properties *)

\* An update that was stored is only overwritten by a request that had found the
\* key missing before: any other order of requests and events ends "updated".
UpdateKept ==
  \A k \in current \ overtaken : inventory[k] = "updated"

\* The group commits before it stores, across failing commits and restarts: no
\* event is stored twice, each failure costs at most one update, and what was
\* neither stored nor lost is the message in hand.
LossBounded ==
  /\ \A i, j \in DOMAIN updates : i < j => updates[i] < updates[j]
  /\ committed <= Len(updates) + failures + (IF hand THEN 1 ELSE 0)
=============================================================================
