----------------------------- MODULE SearchStack -----------------------------
(***************************************************************************)
(* stacks/search-stack: the three transactions of gateway-dotnet over      *)
(* django-crm and php-shipping (MySQL), go-indexer (Elasticsearch) and     *)
(* nodejs-cache (memcached).                                               *)
(*                                                                         *)
(* index-document writes a document and then its copy in the cache;        *)
(* customer-lookup fills the cache with what a search returns;             *)
(* customer-lookup and ship-order write documents of their own, under ids  *)
(* that may be those of documents.  Each call to a store is one action.    *)
(***************************************************************************)
EXTENDS Integers

CONSTANTS
  Client,    \* transactions under way at once
  Key,       \* customers, documents and orders: one set, as ids may coincide
  Body,      \* bodies of documents that are neither empty nor missing
  MaxTxns,   \* bound: transactions
  MaxFaults  \* bound: failing calls

Kind == {"customer-lookup", "index-document", "ship-order"}
None == "none"
Hits == "hits"    \* the text of a search response

\* What a request to gateway-dotnet may have for a body: none or an empty one, too.
\* (stacks/gateway always sends one that is neither.)
Missing == "null"
Empty   == ""
Asked   == Body \union {Missing, Empty}

InputTyped == Body \intersect {None, Hits, Missing, "customer", "shipment"} = {}

Over == [kind |-> "none", key |-> None, body |-> None, at |-> "done", overtaken |-> FALSE]

VARIABLES
  docs,      \* Elasticsearch: None, a body or its default, "customer" or "shipment"
  shipments, \* MySQL: orders in the shipments table
  cached,    \* memcached: None, a body or its default, or Hits
  txn,       \* gateway-dotnet: the transaction of each client
  begun,     \* number of transactions
  excused,   \* history: keys whose last copy was overtaken by another, or failed
  lapsed,    \* history: keys whose copy has expired since
  faults     \* number of faults

stores == <<docs, shipments, cached, excused, lapsed>>
vars   == <<stores, txn, begun, faults>>

Init ==
  /\ docs = [k \in Key |-> None]
  /\ shipments = {}
  /\ cached = [k \in Key |-> None]
  /\ txn = [c \in Client |-> Over]
  /\ begun = 0
  /\ excused = {}
  /\ lapsed = Key
  /\ faults = 0

Goto(c, place) == txn' = [txn EXCEPT ![c] = IF place = "done" THEN Over ELSE [@ EXCEPT !.at = place]]

\* The calls of a transaction, in order.
First(kind) ==
  IF kind = "customer-lookup" THEN "customer" ELSE IF kind = "ship-order" THEN "ship" ELSE "index"

Then(c) ==
  CASE txn[c].at = "customer" -> IF txn[c].kind = "customer-lookup" THEN "index" ELSE "post"
    [] txn[c].at = "ship"     -> "index"
    [] txn[c].at = "index"    -> CASE txn[c].kind = "customer-lookup" -> "get"
                                   [] txn[c].kind = "index-document"  -> "customer"
                                   [] OTHER                           -> "search"
    [] OTHER                  -> "done"

Begin(c, kind, key, body) ==
  /\ txn[c].at = "done"
  /\ begun < MaxTxns
  /\ begun' = begun + 1
  /\ txn' = [txn EXCEPT ![c] = [kind |-> kind, key |-> key, at |-> First(kind), overtaken |-> FALSE,
                                body |-> IF kind = "index-document" THEN body ELSE None]]
  /\ UNCHANGED <<stores, faults>>

\* GET /customers/<id> creates the customer if there is none, and GET /search only
\* reads: no other call depends on either.
Customer(c) ==
  /\ txn[c].at \in {"customer", "search"}
  /\ Goto(c, Then(c))
  /\ UNCHANGED <<stores, begun, faults>>

\* POST /ship: INSERT ... ON DUPLICATE KEY UPDATE.
Ship(c) ==
  /\ txn[c].at = "ship"
  /\ shipments' = shipments \union {txn[c].key}
  /\ Goto(c, "index")
  /\ UNCHANGED <<docs, cached, excused, lapsed, begun, faults>>

\* The text that is indexed for a body, and the one nodejs-cache stores for it:
\* req.Body ?? "sample" is of the gateway and leaves an empty body empty, value ||
\* "cached" is of the cache and does not.
Indexed(body)    == IF body = Missing THEN "sample" ELSE body
CopyStored(body) == IF body \in {Missing, Empty} THEN "cached" ELSE body

\* What each kind of transaction indexes.
Document(c) ==
  CASE txn[c].kind = "index-document" -> Indexed(txn[c].body)
    [] txn[c].kind = "customer-lookup" -> "customer"
    [] OTHER -> "shipment"

\* POST /index: PUT _doc/<id> replaces the document.  A transaction that has
\* indexed a body and not cached it yet will cache what is no longer there.
Index(c) ==
  /\ txn[c].at = "index"
  /\ docs' = [docs EXCEPT ![txn[c].key] = Document(c)]
  /\ txn' = [d \in Client |->
               IF d = c THEN [txn[c] EXCEPT !.at = Then(c)]
               ELSE IF txn[d].key = txn[c].key /\ txn[d].at \in {"customer", "post"}
               THEN [txn[d] EXCEPT !.overtaken = TRUE] ELSE txn[d]]
  /\ UNCHANGED <<shipments, cached, excused, lapsed, begun, faults>>

-----------------------------------------------------------------------------
(* nodejs-cache *)

\* Mutant of Post: the key is only added.
PostIfAbsent(c) ==
  /\ txn[c].at = "post"
  /\ LET key == txn[c].key
     IN /\ cached' = [cached EXCEPT ![key] = IF @ = None THEN CopyStored(txn[c].body) ELSE @]
        /\ excused' = IF txn[c].overtaken THEN excused \union {key} ELSE excused \ {key}
        /\ lapsed' = lapsed \ {key}
  /\ Goto(c, "done")
  /\ UNCHANGED <<docs, shipments, begun, faults>>

\* POST /cache/<key>: client.set.
Post(c) ==
  /\ txn[c].at = "post"
  /\ LET key == txn[c].key
     IN /\ cached' = [cached EXCEPT ![key] = CopyStored(txn[c].body)]
        /\ excused' = IF txn[c].overtaken THEN excused \union {key} ELSE excused \ {key}
        /\ lapsed' = lapsed \ {key}
  /\ Goto(c, "done")
  /\ UNCHANGED <<docs, shipments, begun, faults>>

\* GET /cache/<key>: a hit is the answer, a miss is searched for ...
Get(c) ==
  /\ txn[c].at = "get"
  /\ Goto(c, IF cached[txn[c].key] # None THEN "done" ELSE "fill")
  /\ UNCHANGED <<stores, begun, faults>>

\* ... and the response stored, whatever was stored in between.
Fill(c) ==
  /\ txn[c].at = "fill"
  /\ LET key == txn[c].key
     IN /\ cached' = [cached EXCEPT ![key] = Hits]
        /\ excused' = IF key \in lapsed THEN excused ELSE excused \union {key}
  /\ Goto(c, "done")
  /\ UNCHANGED <<docs, shipments, lapsed, begun, faults>>

\* After 300 s.
Expire(k) ==
  /\ cached[k] # None
  /\ cached' = [cached EXCEPT ![k] = None]
  /\ lapsed' = lapsed \union {k}
  /\ UNCHANGED <<docs, shipments, excused, txn, begun, faults>>

-----------------------------------------------------------------------------
(* Failing calls *)

\* A store cannot be reached: the service answers with an error, which the
\* gateway takes for a step like any other; or the service cannot be reached,
\* and the transaction ends.  php-shipping throws when MySQL fails, and ignores
\* that go-indexer does.  A call that fails has no effect.
CallFails(c) ==
  /\ txn[c].at # "done"
  /\ faults < MaxFaults /\ faults' = faults + 1
  /\ LET next == IF txn[c].at = "ship" THEN "search" ELSE Then(c)
     IN txn' \in {[txn EXCEPT ![c] = Over],
                  [txn EXCEPT ![c] =
                     IF next = "done" THEN Over
                     ELSE [txn[c] EXCEPT !.at = next,
                                         !.overtaken = txn[c].overtaken \/ txn[c].at = "index"]]}
  /\ excused' = IF txn[c].kind = "index-document" /\ (txn'[c] = Over \/ txn[c].at = "index")
                THEN excused \union {txn[c].key} ELSE excused
  /\ UNCHANGED <<docs, shipments, cached, lapsed, begun>>

Next ==
  \/ \E c \in Client :
       \/ \E kind \in Kind, k \in Key, b \in Asked : Begin(c, kind, k, b)
       \/ Customer(c) \/ Ship(c) \/ Index(c)
       \/ Post(c) \/ Get(c) \/ Fill(c)
       \/ CallFails(c)
  \/ \E k \in Key : Expire(k)

-----------------------------------------------------------------------------
(* What the transactions keep *)

UnderWay(k) == \E c \in Client : txn[c].kind = "index-document" /\ txn[c].key = k

\* As long as a document is what index-document made it, and no other writer of
\* its id came between its two writes, its copy in the cache is what the cache
\* stores for that request, until it expires: the same body, or "cached" for an
\* empty body and for a missing one, which is indexed as "sample".  And a shipment
\* that can be searched for is in the table.
CopyAgrees ==
  \A k \in Key :
    /\ (docs[k] \notin {None, "customer", "shipment"} /\ k \notin excused /\ ~UnderWay(k))
         => \/ \E b \in Asked : docs[k] = Indexed(b) /\ cached[k] = CopyStored(b)
            \/ k \in lapsed /\ cached[k] \in {None, Hits}
    /\ docs[k] = "shipment" => k \in shipments
=============================================================================
