------------------------------ MODULE Messaging ------------------------------
(***************************************************************************)
(* stacks/messaging-stack: a gateway whose transactions write a product to *)
(* MongoDB through fastapi-products and quarkus-pricing and publish an     *)
(* event to the RabbitMQ queue catalog-events.  Both quarkus-pricing and   *)
(* messaging-worker consume that queue, so they compete for its events.    *)
(*                                                                         *)
(* quarkus-pricing reads a price and writes it back with a discount; the   *)
(* two are separate commands to MongoDB (external).  A price is what it    *)
(* was computed from and the number of discounts since.  RabbitMQ          *)
(* (external) delivers an event again when its consumer dies without ack.  *)
(* sync-recommendations and the GETs only read and are left out.           *)
(***************************************************************************)
EXTENDS Integers, FiniteSets

CONSTANTS
  Client,    \* transactions under way at once
  Sku,       \* product keys
  MaxTxns,   \* bound: transactions, so events too
  MaxFaults  \* bound: failed calls and crashes

ASSUME BoundAssumption == MaxTxns \in Nat /\ MaxFaults \in Nat

Event    == 1 .. MaxTxns
Consumer == {"worker", "quarkus"}
NoPrice  == [base |-> "none", discounts |-> 0]
Listed   == [base |-> "9.99", discounts |-> 0]
Unlisted == [base |-> "19.99", discounts |-> 0]
Idle     == [kind |-> "none", sku |-> "none", at |-> "done", cut |-> FALSE,
             found |-> NoPrice]

VARIABLES
  price,    \* MongoDB: the price of each product
  txn,      \* gateway and services: the transaction of each client
  started,  \* number of transactions
  events,   \* number of events
  socket,   \* gateway: events written by sendToQueue and not sent yet
  unsent,   \* history: events that were in the socket when the gateway died
  queue,    \* RabbitMQ: events ready for delivery
  taken,    \* RabbitMQ: taken[c]: events delivered to consumer c and not acked
  at,       \* consumers: events whose handler is done
  acked,    \* history: events acked
  handled,  \* history: how often each event was handled
  applied,  \* history: discounts written since the price was last set by fastapi
  raced,    \* history: products written between the read and the write of a discount
  faults    \* number of faults

output     == <<socket, unsent>>
brokerVars == <<queue, taken, at, acked, handled>>
priceVars  == <<price, applied, raced>>
vars       == <<priceVars, txn, started, events, output, brokerVars, faults>>

Init ==
  /\ price = [s \in Sku |-> NoPrice]
  /\ txn = [c \in Client |-> Idle]
  /\ started = 0
  /\ events = 0
  /\ socket = {} /\ unsent = {}
  /\ queue = {}
  /\ taken = [c \in Consumer |-> {}]
  /\ at = [c \in Consumer |-> {}]
  /\ acked = {}
  /\ handled = [e \in Event |-> 0]
  /\ applied = [s \in Sku |-> 0]
  /\ raced = {}
  /\ faults = 0

Fault == faults < MaxFaults /\ faults' = faults + 1

Goto(c, where) == txn' = [txn EXCEPT ![c].at = where]

-----------------------------------------------------------------------------
(* gateway-nestjs *)

First(kind) == IF kind = "publish-product" THEN "publish" ELSE "find"

Start(c, kind, s) ==
  /\ txn[c].at = "done"
  /\ started < MaxTxns
  /\ started' = started + 1
  /\ txn' = [txn EXCEPT ![c] = [Idle EXCEPT !.kind = kind, !.sku = s, !.at = First(kind)]]
  /\ UNCHANGED <<priceVars, events, output, brokerVars, faults>>

\* sendToQueue only writes to the socket; there is no confirm.  It is the first
\* step of publish-product and the last but a GET of apply-pricing.
Publish(c) ==
  /\ txn[c].at = "publish"
  /\ events' = events + 1
  /\ socket' = socket \union {events + 1}
  /\ Goto(c, IF txn[c].kind = "publish-product" THEN "upsert" ELSE "done")
  /\ UNCHANGED <<priceVars, started, unsent, brokerVars, faults>>

Flush(e) ==
  /\ e \in socket
  /\ socket' = socket \ {e}
  /\ queue' = queue \union {e}
  /\ UNCHANGED <<priceVars, txn, started, events, unsent, taken, at, acked, handled, faults>>

\* A call throws: its service was not reached or died, or it goes on alone.  The
\* rest of the transaction is skipped.
CallFails(c) ==
  /\ txn[c].at \notin {"done", "publish"}
  /\ Fault
  /\ Goto(c, "done") \/ txn' = [txn EXCEPT ![c].cut = TRUE]
  /\ UNCHANGED <<priceVars, started, events, output, brokerVars>>

\* The gateway dies with its connection: unsent events and the rest of every
\* transaction are gone.
GatewayCrash ==
  /\ Fault
  /\ socket' = {} /\ unsent' = unsent \union socket
  /\ txn' = [c \in Client |-> IF txn[c].at \in {"publish", "done"} THEN Idle
                             ELSE [txn[c] EXCEPT !.cut = TRUE]]
  /\ UNCHANGED <<priceVars, started, events, brokerVars>>

-----------------------------------------------------------------------------
(* fastapi-products and quarkus-pricing *)

\* Products whose discount is being computed from a price that is about to change.
Overtaken(c) == {txn[d].sku : d \in {d \in Client \ {c} : txn[d].at = "write" /\
                                                        txn[d].sku = txn[c].sku}}

\* POST /products: update_one with $set of price 9.99.
Upsert(c) ==
  /\ txn[c].at = "upsert"
  /\ price' = [price EXCEPT ![txn[c].sku] = Listed]
  /\ applied' = [applied EXCEPT ![txn[c].sku] = 0]
  /\ raced' = (raced \ {txn[c].sku}) \union Overtaken(c)
  /\ Goto(c, "done")
  /\ UNCHANGED <<started, events, output, brokerVars, faults>>

\* POST /price: find ...
Find(c) ==
  /\ txn[c].at = "find"
  /\ txn' = [txn EXCEPT ![c].at = "write",
                        ![c].found = IF price[txn[c].sku] = NoPrice THEN Unlisted
                                     ELSE price[txn[c].sku]]
  /\ UNCHANGED <<priceVars, started, events, output, brokerVars, faults>>

\* Mutant of Write: the discount is taken off the price without one.
WriteFirstDiscount(c) ==
  /\ txn[c].at = "write"
  /\ price' = [price EXCEPT ![txn[c].sku] = [txn[c].found EXCEPT !.discounts = 1]]
  /\ applied' = [applied EXCEPT ![txn[c].sku] = @ + 1]
  /\ raced' = raced \union Overtaken(c)
  /\ Goto(c, IF txn[c].cut THEN "done" ELSE "publish")
  /\ UNCHANGED <<started, events, output, brokerVars, faults>>

\* ... and updateOne with what was found, discounted.
Write(c) ==
  /\ txn[c].at = "write"
  /\ price' = [price EXCEPT ![txn[c].sku] =
                 [txn[c].found EXCEPT !.discounts = txn[c].found.discounts + 1]]
  /\ applied' = [applied EXCEPT ![txn[c].sku] = @ + 1]
  /\ raced' = raced \union Overtaken(c)
  /\ Goto(c, IF txn[c].cut THEN "done" ELSE "publish")
  /\ UNCHANGED <<started, events, output, brokerVars, faults>>

-----------------------------------------------------------------------------
(* The consumers of catalog-events: messaging-worker and quarkus-pricing *)

Deliver(c, e) ==
  /\ e \in queue
  /\ queue' = queue \ {e}
  /\ taken' = [taken EXCEPT ![c] = @ \union {e}]
  /\ UNCHANGED <<priceVars, txn, started, events, output, at, acked, handled, faults>>

\* Mutant of Handle: noAck, the broker forgets the event on delivery.
HandleNoAck(c, e) ==
  /\ e \in taken[c] \ at[c]
  /\ taken' = [taken EXCEPT ![c] = @ \ {e}]
  /\ acked' = acked \union {e}
  /\ UNCHANGED <<priceVars, txn, started, events, output, queue, at, handled, faults>>

\* processed++ (consumed++); the worker then calls fastapi and ignores errors.
Handle(c, e) ==
  /\ e \in taken[c] \ at[c]
  /\ handled' = [handled EXCEPT ![e] = @ + 1]
  /\ at' = [at EXCEPT ![c] = @ \union {e}]
  /\ UNCHANGED <<priceVars, txn, started, events, output, queue, taken, acked, faults>>

Ack(c, e) ==
  /\ e \in at[c]
  /\ taken' = [taken EXCEPT ![c] = @ \ {e}]
  /\ at' = [at EXCEPT ![c] = @ \ {e}]
  /\ acked' = acked \union {e}
  /\ UNCHANGED <<priceVars, txn, started, events, output, queue, handled, faults>>

\* Mutant of ConsumerCrash: the events it held are dropped.
CrashDrops(c) ==
  /\ Fault
  /\ taken' = [taken EXCEPT ![c] = {}]
  /\ at' = [at EXCEPT ![c] = {}]
  /\ UNCHANGED <<priceVars, txn, started, events, output, queue, acked, handled>>

\* The consumer or its connection dies: what it has not acked is ready again.
ConsumerCrash(c) ==
  /\ Fault
  /\ queue' = queue \union taken[c]
  /\ taken' = [taken EXCEPT ![c] = {}]
  /\ at' = [at EXCEPT ![c] = {}]
  /\ UNCHANGED <<priceVars, txn, started, events, output, acked, handled>>

-----------------------------------------------------------------------------

Next ==
  \/ \E c \in Client :
       \/ \E kind \in {"publish-product", "apply-pricing"}, s \in Sku : Start(c, kind, s)
       \/ Publish(c) \/ CallFails(c) \/ Upsert(c) \/ Find(c) \/ Write(c)
  \/ \E e \in Event : Flush(e)
  \/ GatewayCrash
  \/ \E c \in Consumer : \/ \E e \in Event : Deliver(c, e) \/ Handle(c, e) \/ Ack(c, e)
                         \/ ConsumerCrash(c)

Spec == Init /\ [][Next]_vars

\* Sockets are flushed, the broker delivers and the handlers run.
FairSpec ==
  /\ Spec
  /\ \A e \in Event : /\ WF_vars(Flush(e)) /\ WF_vars(\E c \in Consumer : Deliver(c, e))
                      /\ \A c \in Consumer : WF_vars(Handle(c, e) \/ Ack(c, e))

-----------------------------------------------------------------------------
(* Properties *)

\* A price carries every discount written since fastapi listed the product,
\* unless some write came between the find and the updateOne of another.
DiscountsCounted == \A s \in Sku \ raced : price[s].discounts = applied[s]

\* The queue and the two consumers that compete for it are a work queue: an event
\* leaves it for good only after one of them has handled it, whoever of them it was
\* delivered to first; and it is handled again only as often as something has failed.
Queue == INSTANCE WorkQueue WITH
           Item <- Event, sent <- (1 .. events) \ (socket \union unsent),
           handled <- {e \in Event : handled[e] > 0}, gone <- acked

KeepsQueue == Queue!Spec /\ [](\A e \in Event : handled[e] <= faults + 1)

\* An event written by sendToQueue, which nobody waits for, is handled in the end,
\* although the worker acks even what it failed to look up, and although consumers
\* crash; only the death of the gateway loses it, and only before it is sent.
SentIsHandled == \A e \in Event : (e <= events) ~> (handled[e] > 0 \/ e \in unsent)
==============================================================================
