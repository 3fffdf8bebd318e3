--------------------------- MODULE MessagingProofs ---------------------------
(***************************************************************************)
(* Proofs about Messaging, for any number of clients, products, events and *)
(* faults: the queue and its two consumers keep the promise of a work      *)
(* queue, an event is handled again at most once for every failure, and a  *)
(* price carries the discounts written since it was listed.                *)
(***************************************************************************)
EXTENDS Messaging, FiniteSetTheorems, TLAPS

-----------------------------------------------------------------------------
(* What makes the properties inductive. *)

Price == [base : {"none", "9.99", "19.99"}, discounts : Nat]
At    == {"done", "publish", "upsert", "find", "write"}
Txn   == [kind : {"none", "publish-product", "apply-pricing"}, sku : Sku \union {"none"},
          at : At, cut : BOOLEAN, found : Price]

TypeOK ==
  /\ price \in [Sku -> Price]
  /\ txn \in [Client -> Txn]
  /\ \A c \in Client : txn[c].at # "done" => txn[c].sku \in Sku
  /\ started \in Nat
  /\ events \in Nat
  /\ socket \subseteq Event
  /\ unsent \subseteq Event
  /\ queue \subseteq Event
  /\ taken \in [Consumer -> SUBSET Event]
  /\ at \in [Consumer -> SUBSET Event]
  /\ acked \subseteq Event
  /\ handled \in [Event -> Nat]
  /\ applied \in [Sku -> Nat]
  /\ raced \subseteq Sku
  /\ faults \in Nat

\* Transactions that may still publish; each does so at most once, so there is a
\* number for every event.
Publishing == {c \in Client : txn[c].at \in {"find", "write", "publish"}}

TxnsSuffice ==
  /\ IsFiniteSet(Publishing)
  /\ events + Cardinality(Publishing) <= started
  /\ started <= MaxTxns

Sent == (1 .. events) \ (socket \union unsent)

\* An event that was sent is in the queue, with one consumer, or acked; and a
\* consumer acks only what it has handled.
BrokerSound ==
  /\ socket \union unsent \subseteq 1 .. events
  /\ socket \intersect unsent = {}
  /\ queue \union acked \subseteq Sent
  /\ queue \intersect acked = {}
  /\ \A c \in Consumer : /\ taken[c] \subseteq Sent
                         /\ taken[c] \intersect (queue \union acked) = {}
                         /\ at[c] \subseteq taken[c]
  /\ \A c, d \in Consumer : c # d => taken[c] \intersect taken[d] = {}
  /\ \A e \in acked : handled[e] > 0
  /\ \A c \in Consumer : \A e \in at[c] : handled[e] > 0

\* An event that was handled once more than there were faults is on its way to the ack.
RepeatsBounded ==
  \A e \in Event :
    /\ handled[e] <= faults + 1
    /\ handled[e] = faults + 1 => e \in acked \/ \E c \in Consumer : e \in at[c]

\* The price has the discounts that were written since it was listed, and so has one
\* that some update is about to discount.
DiscountsSound ==
  \A s \in Sku \ raced :
    /\ price[s].discounts = applied[s]
    /\ \A c \in Client : txn[c].at = "write" /\ txn[c].sku = s
                           => txn[c].found.discounts = applied[s]

IInv == TypeOK /\ TxnsSuffice /\ BrokerSound /\ RepeatsBounded /\ DiscountsSound

-----------------------------------------------------------------------------
(* The records of the transactions *)

LEMMA IdleType == Idle \in Txn /\ Idle.at = "done"
BY Zenon DEF Idle, Txn, At, NoPrice, Price

LEMMA PriceTypes ==
  /\ NoPrice \in Price /\ Listed \in Price /\ Unlisted \in Price
  /\ NoPrice.discounts = 0 /\ Listed.discounts = 0 /\ Unlisted.discounts = 0
BY DEF NoPrice, Listed, Unlisted, Price

LEMMA StartedType ==
  ASSUME NEW kind \in {"publish-product", "apply-pricing"}, NEW s \in Sku
  PROVE  /\ [Idle EXCEPT !.kind = kind, !.sku = s, !.at = First(kind)] \in Txn
         /\ [Idle EXCEPT !.kind = kind, !.sku = s, !.at = First(kind)].at = First(kind)
         /\ [Idle EXCEPT !.kind = kind, !.sku = s, !.at = First(kind)].sku = s
         /\ First(kind) \in {"publish", "find"}
<1>1. First(kind) \in {"publish", "find"}
  BY DEF First
<1>. QED
  BY <1>1, IdleType DEF Txn, At

LEMMA GotoType ==
  ASSUME NEW t \in Txn, NEW where \in At
  PROVE  LET u == [t EXCEPT !.at = where]
         IN u \in Txn /\ u.at = where /\ u.sku = t.sku /\ u.found = t.found
BY DEF Txn

LEMMA CutType ==
  ASSUME NEW t \in Txn, NEW cut \in BOOLEAN
  PROVE  LET u == [t EXCEPT !.cut = cut]
         IN u \in Txn /\ u.at = t.at /\ u.sku = t.sku /\ u.found = t.found
BY DEF Txn

LEMMA FoundType ==
  ASSUME NEW t \in Txn, NEW p \in Price
  PROVE  LET u == [t EXCEPT !.at = "write", !.found = p]
         IN u \in Txn /\ u.at = "write" /\ u.sku = t.sku /\ u.found = p
BY DEF Txn, At

-----------------------------------------------------------------------------
(* The initial states *)

LEMMA InitInv == Init => IInv
<1>. SUFFICES ASSUME Init PROVE IInv
  OBVIOUS
<1>1. TypeOK
  BY IdleType, PriceTypes DEF Init, TypeOK
<1>2. Publishing = {}
  BY IdleType DEF Init, Publishing
<1>3. TxnsSuffice
  BY <1>2, FS_EmptySet, BoundAssumption DEF Init, TxnsSuffice
<1>4. BrokerSound
  BY DEF Init, BrokerSound
<1>5. RepeatsBounded
  BY DEF Init, RepeatsBounded
<1>6. DiscountsSound
  BY IdleType, PriceTypes DEF Init, DiscountsSound
<1>. QED
  BY <1>1, <1>3, <1>4, <1>5, <1>6 DEF IInv

-----------------------------------------------------------------------------
(* The gateway and the services behind it *)

LEMMA BrokerFrame ==
  ASSUME IInv, UNCHANGED <<events, output, brokerVars>>, faults' \in {faults, faults + 1}
  PROVE  BrokerSound' /\ RepeatsBounded'
<1>1. UNCHANGED <<events, socket, unsent, queue, taken, at, acked, handled>>
  BY DEF output, brokerVars
<1>2. BrokerSound'
  BY <1>1 DEF IInv, BrokerSound, Sent
<1>3. \A e \in Event : handled'[e] \in Nat /\ handled'[e] = handled[e]
  BY <1>1 DEF IInv, TypeOK
<1>4. RepeatsBounded'
  BY <1>1, <1>3 DEF IInv, TypeOK, RepeatsBounded
<1>. QED
  BY <1>2, <1>4

\* A transaction that goes on, ends or is cut still publishes at most once.
LEMMA PublishingFrame ==
  ASSUME IInv, NEW c \in Client, NEW u \in Txn, txn' = [txn EXCEPT ![c] = u],
         u.at \in {"find", "write", "publish"} => c \in Publishing,
         UNCHANGED <<events, started>>
  PROVE  TxnsSuffice'
<1>1. Publishing' \subseteq Publishing
  BY DEF IInv, TypeOK, Publishing
<1>2. IsFiniteSet(Publishing') /\ Cardinality(Publishing') <= Cardinality(Publishing)
  BY <1>1, FS_Subset DEF IInv, TxnsSuffice
<1>3. Cardinality(Publishing) \in Nat /\ Cardinality(Publishing') \in Nat
  BY <1>2, FS_CardinalityType DEF IInv, TxnsSuffice
<1>. QED
  BY <1>2, <1>3 DEF IInv, TypeOK, TxnsSuffice

LEMMA StartInv ==
  ASSUME IInv, NEW c \in Client, NEW kind \in {"publish-product", "apply-pricing"}, NEW s \in Sku,
         Start(c, kind, s)
  PROVE  IInv'
<1>. DEFINE u == [Idle EXCEPT !.kind = kind, !.sku = s, !.at = First(kind)]
<1>1. u \in Txn /\ u.at \in {"publish", "find"} /\ u.sku = s
  BY StartedType
<1>2. /\ txn[c].at = "done" /\ started < MaxTxns /\ started' = started + 1
      /\ txn' = [txn EXCEPT ![c] = u]
      /\ UNCHANGED <<priceVars, events, output, brokerVars, faults>>
  BY DEF Start
<1>. HIDE DEF u
<1>3. txn'[c] = u /\ \A d \in Client \ {c} : txn'[d] = txn[d]
  BY <1>2 DEF IInv, TypeOK
<1>4. TypeOK'
  BY <1>1, <1>2, <1>3 DEF IInv, TypeOK, priceVars, output, brokerVars
<1>5. TxnsSuffice'
  <2>1. Publishing' = Publishing \union {c} /\ c \notin Publishing
    BY <1>1, <1>2, <1>3 DEF Publishing
  <2>2. IsFiniteSet(Publishing') /\ Cardinality(Publishing') = Cardinality(Publishing) + 1
    BY <2>1, FS_AddElement DEF IInv, TxnsSuffice
  <2>3. Cardinality(Publishing) \in Nat
    BY FS_CardinalityType DEF IInv, TxnsSuffice
  <2>. QED
    BY <1>2, <2>2, <2>3, BoundAssumption DEF IInv, TypeOK, TxnsSuffice
<1>6. DiscountsSound'
  BY <1>1, <1>2, <1>3 DEF IInv, DiscountsSound, priceVars
<1>. QED
  BY <1>2, <1>4, <1>5, <1>6, BrokerFrame DEF IInv

\* The event gets a number that no event had, and stays unsent.
LEMMA PublishInv ==
  ASSUME IInv, NEW c \in Client, Publish(c)
  PROVE  IInv' /\ UNCHANGED <<Sent, handled, acked>>
<1>. DEFINE where == IF txn[c].kind = "publish-product" THEN "upsert" ELSE "done"
            u == [txn[c] EXCEPT !.at = where]
<1>1. where \in At /\ where \in {"upsert", "done"}
  BY DEF At
<1>2. u \in Txn /\ u.at = where /\ u.sku = txn[c].sku
  BY <1>1, GotoType DEF IInv, TypeOK
<1>3. /\ txn[c].at = "publish" /\ events' = events + 1
      /\ socket' = socket \union {events + 1} /\ unsent' = unsent
      /\ txn' = [txn EXCEPT ![c] = u]
      /\ UNCHANGED <<price, applied, raced, started, queue, taken, at, acked, handled, faults>>
  BY DEF Publish, Goto, priceVars, brokerVars
<1>. HIDE DEF u, where
<1>4. txn'[c] = u /\ \A d \in Client \ {c} : txn'[d] = txn[d]
  BY <1>2, <1>3 DEF IInv, TypeOK
<1>5. /\ Publishing' = Publishing \ {c} /\ c \in Publishing
  BY <1>1, <1>2, <1>3, <1>4 DEF Publishing
<1>6. /\ IsFiniteSet(Publishing') /\ Cardinality(Publishing') = Cardinality(Publishing) - 1
      /\ Cardinality(Publishing') \in Nat /\ Cardinality(Publishing) \in Nat
  BY <1>5, FS_RemoveElement, FS_CardinalityType DEF IInv, TxnsSuffice
<1>7. TxnsSuffice' /\ events + 1 \in Event
  BY <1>3, <1>6, BoundAssumption DEF IInv, TypeOK, TxnsSuffice, Event
<1>8. TypeOK'
  BY <1>2, <1>3, <1>4, <1>7 DEF IInv, TypeOK
<1>9. events \in Nat
  BY DEF IInv, TypeOK
<1>10. Sent' = Sent
  BY <1>3, <1>9 DEF Sent
<1>11. BrokerSound'
  <2>1. /\ socket' \union unsent' \subseteq 1 .. events'
        /\ socket' \intersect unsent' = {}
    BY <1>3, <1>9 DEF IInv, BrokerSound
  <2>. QED
    BY <1>3, <1>10, <2>1 DEF IInv, BrokerSound
<1>12. RepeatsBounded'
  BY <1>3 DEF IInv, RepeatsBounded
<1>13. DiscountsSound'
  BY <1>1, <1>2, <1>3, <1>4 DEF IInv, DiscountsSound
<1>. QED
  BY <1>3, <1>7, <1>8, <1>10, <1>11, <1>12, <1>13 DEF IInv

LEMMA CallFailsInv ==
  ASSUME IInv, NEW c \in Client, CallFails(c)
  PROVE  IInv'
<1>1. /\ faults' = faults + 1 /\ txn[c] \in Txn
      /\ txn[c].at \notin {"done", "publish"}
      /\ UNCHANGED <<priceVars, started, events, output, brokerVars>>
  BY DEF CallFails, Fault, IInv, TypeOK
<1>2. PICK u \in Txn : /\ txn' = [txn EXCEPT ![c] = u]
                       /\ u.at \in {"done", txn[c].at} /\ u.sku = txn[c].sku
                       /\ u.found = txn[c].found
  <2>1. CASE Goto(c, "done")
    <3>1. "done" \in At
      BY DEF At
    <3>2. txn' = [txn EXCEPT ![c] = [txn[c] EXCEPT !.at = "done"]]
      BY <2>1 DEF Goto
    <3>. DEFINE v == [txn[c] EXCEPT !.at = "done"]
    <3>3. v \in Txn /\ v.at = "done" /\ v.sku = txn[c].sku /\ v.found = txn[c].found
      BY <1>1, <3>1, GotoType
    <3>4. txn' = [txn EXCEPT ![c] = v]
      BY <3>2
    <3>. HIDE DEF v
    <3>. QED
      BY <3>3, <3>4
  <2>2. CASE txn' = [txn EXCEPT ![c].cut = TRUE]
    <3>1. PICK b \in BOOLEAN : txn' = [txn EXCEPT ![c].cut = b]
      BY <2>2, Zenon
    <3>. QED
      BY <1>1, <3>1, CutType
  <2>. QED
    BY <2>1, <2>2 DEF CallFails
<1>3. txn'[c] = u /\ \A d \in Client \ {c} : txn'[d] = txn[d]
  BY <1>2 DEF IInv, TypeOK
<1>4. TypeOK'
  BY <1>1, <1>2, <1>3 DEF IInv, TypeOK, priceVars, output, brokerVars
<1>5. TxnsSuffice'
  BY <1>1, <1>2, PublishingFrame DEF Publishing
<1>6. DiscountsSound'
  BY <1>1, <1>2, <1>3 DEF IInv, DiscountsSound, priceVars
<1>. QED
  BY <1>1, <1>4, <1>5, <1>6, BrokerFrame DEF IInv

\* What the dead gateway had in its socket stays unsent; its calls go on alone.
LEMMA GatewayCrashInv ==
  ASSUME IInv, GatewayCrash
  PROVE  IInv' /\ UNCHANGED <<Sent, handled, acked>>
<1>1. /\ faults' = faults + 1
      /\ socket' = {} /\ unsent' = unsent \union socket
      /\ UNCHANGED <<price, applied, raced, started, events, queue, taken, at, acked, handled>>
  BY DEF GatewayCrash, Fault, priceVars, brokerVars
<1>2. ASSUME NEW c \in Client
      PROVE  /\ txn'[c] \in Txn
             /\ txn'[c].at = "done" \/ (/\ txn'[c].at = txn[c].at
                                       /\ txn'[c].sku = txn[c].sku
                                       /\ txn'[c].found = txn[c].found
                                       /\ txn[c].at # "publish")
  <2>1. CASE txn[c].at \in {"publish", "done"}
    BY <2>1, IdleType DEF GatewayCrash
  <2>2. CASE txn[c].at \notin {"publish", "done"}
    <3>1. txn'[c] = [txn[c] EXCEPT !.cut = TRUE]
      BY <2>2 DEF GatewayCrash
    <3>2. PICK b \in BOOLEAN : txn'[c] = [txn[c] EXCEPT !.cut = b]
      BY <3>1, Zenon
    <3>. QED
      BY <2>2, <3>2, CutType DEF IInv, TypeOK
  <2>. QED
    BY <2>1, <2>2
<1>3. txn' \in [Client -> Txn]
  BY <1>2 DEF GatewayCrash
<1>4. TypeOK'
  BY <1>1, <1>2, <1>3 DEF IInv, TypeOK
<1>5. TxnsSuffice'
  <2>1. Publishing' \subseteq Publishing
    BY <1>2 DEF Publishing
  <2>2. IsFiniteSet(Publishing') /\ Cardinality(Publishing') <= Cardinality(Publishing)
    BY <2>1, FS_Subset DEF IInv, TxnsSuffice
  <2>3. Cardinality(Publishing) \in Nat /\ Cardinality(Publishing') \in Nat
    BY <2>2, FS_CardinalityType DEF IInv, TxnsSuffice
  <2>. QED
    BY <1>1, <2>2, <2>3 DEF IInv, TypeOK, TxnsSuffice
<1>6. Sent' = Sent
  BY <1>1 DEF Sent
<1>7. BrokerSound'
  BY <1>1, <1>6 DEF IInv, BrokerSound
<1>8. RepeatsBounded'
  BY <1>1 DEF IInv, TypeOK, RepeatsBounded
<1>9. DiscountsSound'
  BY <1>1, <1>2 DEF IInv, DiscountsSound
<1>. QED
  BY <1>1, <1>4, <1>5, <1>6, <1>7, <1>8, <1>9 DEF IInv

-----------------------------------------------------------------------------
(* The prices *)

\* A product that fastapi lists has no discount, and whoever had found the old
\* price is marked.
LEMMA UpsertInv ==
  ASSUME IInv, NEW c \in Client, Upsert(c)
  PROVE  IInv'
<1>. DEFINE u == [txn[c] EXCEPT !.at = "done"]
            s == txn[c].sku
<1>1. u \in Txn /\ u.at = "done"
  BY GotoType DEF IInv, TypeOK, At
<1>2. /\ txn[c].at = "upsert" /\ s \in Sku
      /\ txn' = [txn EXCEPT ![c] = u]
      /\ price' = [price EXCEPT ![s] = Listed]
      /\ applied' = [applied EXCEPT ![s] = 0]
      /\ raced' = (raced \ {s}) \union Overtaken(c)
      /\ UNCHANGED <<started, events, output, brokerVars, faults>>
  BY DEF Upsert, Goto, IInv, TypeOK
<1>. HIDE DEF u
<1>3. txn'[c] = u /\ \A d \in Client \ {c} : txn'[d] = txn[d]
  BY <1>1, <1>2 DEF IInv, TypeOK
<1>4. /\ Overtaken(c) \subseteq {s}
      /\ \A d \in Client \ {c} : txn[d].at = "write" /\ txn[d].sku = s => s \in Overtaken(c)
  BY DEF Overtaken
<1>. HIDE DEF s
<1>5. TypeOK'
  BY <1>1, <1>2, <1>3, <1>4, PriceTypes DEF IInv, TypeOK, output, brokerVars
<1>6. TxnsSuffice'
  BY <1>1, <1>2, PublishingFrame DEF Publishing
<1>7. DiscountsSound'
  <2>. SUFFICES ASSUME NEW p \in Sku \ raced'
                PROVE  /\ price'[p].discounts = applied'[p]
                       /\ \A d \in Client : txn'[d].at = "write" /\ txn'[d].sku = p
                                              => txn'[d].found.discounts = applied'[p]
    BY DEF DiscountsSound
  <2>1. CASE p = s
    BY <1>1, <1>2, <1>3, <1>4, <2>1, PriceTypes DEF IInv, TypeOK
  <2>2. CASE p # s
    <3>1. p \notin raced /\ price'[p] = price[p] /\ applied'[p] = applied[p]
      BY <1>2, <2>2 DEF IInv, TypeOK
    <3>. QED
      BY <1>1, <1>3, <3>1 DEF IInv, DiscountsSound
  <2>. QED
    BY <2>1, <2>2
<1>. QED
  BY <1>2, <1>5, <1>6, <1>7, BrokerFrame DEF IInv

\* What is found carries the discounts of the product.
LEMMA FindInv ==
  ASSUME IInv, NEW c \in Client, Find(c)
  PROVE  IInv'
<1>. DEFINE s == txn[c].sku
            p == IF price[s] = NoPrice THEN Unlisted ELSE price[s]
            u == [txn[c] EXCEPT !.at = "write", !.found = p]
<1>1. txn[c].at = "find" /\ s \in Sku /\ txn[c] \in Txn
  BY DEF Find, IInv, TypeOK
<1>2. p \in Price /\ p.discounts = price[s].discounts
  BY <1>1, PriceTypes DEF IInv, TypeOK
<1>3. /\ txn' = [txn EXCEPT ![c] = u]
      /\ UNCHANGED <<priceVars, started, events, output, brokerVars, faults>>
  BY DEF Find
<1>. HIDE DEF p
<1>4. u \in Txn /\ u.at = "write" /\ u.sku = s /\ u.found = p
  BY <1>1, <1>2, FoundType
<1>. HIDE DEF u
<1>5. txn'[c] = u /\ \A d \in Client \ {c} : txn'[d] = txn[d]
  BY <1>3 DEF IInv, TypeOK
<1>6. TypeOK'
  BY <1>1, <1>3, <1>4, <1>5 DEF IInv, TypeOK, priceVars, output, brokerVars
<1>7. TxnsSuffice'
  BY <1>1, <1>3, <1>4, PublishingFrame DEF Publishing
<1>8. DiscountsSound'
  BY <1>2, <1>3, <1>4, <1>5 DEF IInv, DiscountsSound, priceVars
<1>. QED
  BY <1>3, <1>6, <1>7, <1>8, BrokerFrame DEF IInv

\* The update overtakes whoever has found the price it replaces.
LEMMA WriteInv ==
  ASSUME IInv, NEW c \in Client, Write(c)
  PROVE  IInv'
<1>. DEFINE s == txn[c].sku
            f == txn[c].found
            q == [f EXCEPT !.discounts = f.discounts + 1]
            where == IF txn[c].cut THEN "done" ELSE "publish"
            u == [txn[c] EXCEPT !.at = where]
<1>1. txn[c].at = "write" /\ s \in Sku /\ txn[c] \in Txn /\ f \in Price
  BY DEF Write, IInv, TypeOK, Txn
<1>2. q \in Price /\ q.discounts = f.discounts + 1
  BY <1>1 DEF Price
<1>3. where \in At /\ where \in {"done", "publish"}
  BY DEF At
<1>4. u \in Txn /\ u.at = where /\ u.sku = s
  BY <1>1, <1>3, GotoType
<1>5. /\ txn' = [txn EXCEPT ![c] = u]
      /\ price' = [price EXCEPT ![s] = q]
      /\ applied' = [applied EXCEPT ![s] = @ + 1]
      /\ raced' = raced \union Overtaken(c)
      /\ UNCHANGED <<started, events, output, brokerVars, faults>>
  BY DEF Write, Goto
<1>6. /\ Overtaken(c) \subseteq {s}
      /\ \A d \in Client \ {c} : txn[d].at = "write" /\ txn[d].sku = s => s \in Overtaken(c)
  BY DEF Overtaken
<1>7. s \notin raced => f.discounts = applied[s]
  BY <1>1 DEF IInv, DiscountsSound
<1>. HIDE DEF q, where, u
<1>8. txn'[c] = u /\ \A d \in Client \ {c} : txn'[d] = txn[d]
  BY <1>5 DEF IInv, TypeOK
<1>. HIDE DEF s, f
<1>9. TypeOK'
  BY <1>1, <1>2, <1>3, <1>4, <1>5, <1>6, <1>8 DEF IInv, TypeOK, output, brokerVars
<1>10. TxnsSuffice'
  BY <1>1, <1>4, <1>5, PublishingFrame DEF Publishing
<1>11. DiscountsSound'
  <2>. SUFFICES ASSUME NEW p \in Sku \ raced'
                PROVE  /\ price'[p].discounts = applied'[p]
                       /\ \A d \in Client : txn'[d].at = "write" /\ txn'[d].sku = p
                                              => txn'[d].found.discounts = applied'[p]
    BY DEF DiscountsSound
  <2>1. CASE p = s
    BY <1>1, <1>2, <1>3, <1>4, <1>5, <1>6, <1>7, <1>8, <2>1 DEF IInv, TypeOK
  <2>2. CASE p # s
    <3>1. p \notin raced /\ price'[p] = price[p] /\ applied'[p] = applied[p]
      BY <1>1, <1>5, <2>2 DEF IInv, TypeOK
    <3>. QED
      BY <1>3, <1>4, <1>8, <3>1 DEF IInv, DiscountsSound
  <2>. QED
    BY <2>1, <2>2
<1>. QED
  BY <1>5, <1>9, <1>10, <1>11, BrokerFrame DEF IInv

-----------------------------------------------------------------------------
(* The broker and its consumers *)

LEMMA GatewayFrame ==
  ASSUME IInv, UNCHANGED <<priceVars, txn, started, events>>
  PROVE  TxnsSuffice' /\ DiscountsSound'
BY DEF IInv, priceVars, TxnsSuffice, DiscountsSound, Publishing

\* The steps of the broker, each with what the work queue sees of it.
LEMMA FlushInv ==
  ASSUME IInv, NEW e \in Event, Flush(e)
  PROVE  /\ IInv'
         /\ Sent' = Sent \union {e} /\ e \notin Sent
         /\ UNCHANGED <<handled, acked>>
<1>1. /\ e \in socket /\ socket' = socket \ {e} /\ queue' = queue \union {e}
      /\ UNCHANGED <<price, applied, raced, txn, started, events, unsent, taken, at, acked, handled,
                     faults>>
  BY DEF Flush, priceVars
<1>2. Sent' = Sent \union {e} /\ e \notin Sent
  BY <1>1 DEF Sent, IInv, BrokerSound
<1>3. TypeOK'
  BY <1>1 DEF IInv, TypeOK
<1>4. BrokerSound'
  BY <1>1, <1>2 DEF IInv, BrokerSound
<1>5. RepeatsBounded'
  BY <1>1 DEF IInv, RepeatsBounded
<1>. QED
  BY <1>1, <1>2, <1>3, <1>4, <1>5, GatewayFrame DEF IInv, priceVars

LEMMA DeliverInv ==
  ASSUME IInv, NEW c \in Consumer, NEW e \in Event, Deliver(c, e)
  PROVE  IInv' /\ UNCHANGED <<Sent, handled, acked>>
<1>1. /\ e \in queue /\ queue' = queue \ {e}
      /\ taken' = [taken EXCEPT ![c] = @ \union {e}]
      /\ UNCHANGED <<price, applied, raced, txn, started, events, socket, unsent, at, acked, handled,
                     faults>>
  BY DEF Deliver, priceVars, output
<1>2. Sent' = Sent
  BY <1>1 DEF Sent
<1>3. TypeOK'
  BY <1>1 DEF IInv, TypeOK
<1>4. taken'[c] = taken[c] \union {e} /\ \A d \in Consumer \ {c} : taken'[d] = taken[d]
  BY <1>1 DEF IInv, TypeOK
<1>5. BrokerSound'
  BY <1>1, <1>2, <1>4 DEF IInv, BrokerSound
<1>6. RepeatsBounded'
  BY <1>1 DEF IInv, RepeatsBounded
<1>. QED
  BY <1>1, <1>2, <1>3, <1>5, <1>6, GatewayFrame DEF IInv, priceVars

\* An event that a consumer has taken and not handled was handled no more often than
\* something has failed.
LEMMA HandleInv ==
  ASSUME IInv, NEW c \in Consumer, NEW e \in Event, Handle(c, e)
  PROVE  /\ IInv'
         /\ e \in Sent \ acked
         /\ handled' = [handled EXCEPT ![e] = @ + 1]
         /\ UNCHANGED <<Sent, acked>>
<1>1. /\ e \in taken[c] /\ e \notin at[c]
      /\ handled' = [handled EXCEPT ![e] = @ + 1]
      /\ at' = [at EXCEPT ![c] = @ \union {e}]
      /\ UNCHANGED <<price, applied, raced, txn, started, events, socket, unsent, queue, taken, acked,
                     faults>>
  BY DEF Handle, priceVars, output
<1>2. Sent' = Sent /\ e \in Sent \ acked
  BY <1>1 DEF Sent, IInv, BrokerSound
<1>3. TypeOK'
  BY <1>1 DEF IInv, TypeOK
<1>4. /\ at'[c] = at[c] \union {e} /\ \A d \in Consumer \ {c} : at'[d] = at[d]
      /\ handled[e] \in Nat /\ handled'[e] = handled[e] + 1
      /\ \A f \in Event \ {e} : handled'[f] = handled[f]
      /\ \A f \in Event : handled'[f] \in Nat
  BY <1>1, <1>3 DEF IInv, TypeOK
<1>5. BrokerSound'
  <2>1. \A f \in acked' : handled'[f] > 0
    BY <1>1, <1>4 DEF IInv, TypeOK, BrokerSound
  <2>2. \A d \in Consumer : \A f \in at'[d] : handled'[f] > 0
    BY <1>1, <1>4 DEF IInv, TypeOK, BrokerSound
  <2>3. \A d \in Consumer : at'[d] \subseteq taken'[d]
    BY <1>1, <1>4 DEF IInv, BrokerSound
  <2>. QED
    BY <1>1, <1>2, <2>1, <2>2, <2>3 DEF IInv, BrokerSound
<1>6. RepeatsBounded'
  <2>. SUFFICES ASSUME NEW f \in Event
                PROVE  /\ handled'[f] <= faults' + 1
                       /\ handled'[f] = faults' + 1 => f \in acked' \/ \E d \in Consumer : f \in at'[d]
    BY <1>1 DEF RepeatsBounded
  <2>1. CASE f # e
    BY <1>1, <1>4, <2>1 DEF IInv, TypeOK, RepeatsBounded
  <2>2. CASE f = e
    <3>1. \A d \in Consumer : e \notin at[d]
      BY <1>1 DEF IInv, BrokerSound
    <3>2. handled[e] <= faults
      BY <1>2, <1>4, <3>1 DEF IInv, TypeOK, RepeatsBounded
    <3>. QED
      BY <1>1, <1>4, <2>2, <3>2 DEF IInv, TypeOK
  <2>. QED
    BY <2>1, <2>2
<1>. QED
  BY <1>1, <1>2, <1>3, <1>5, <1>6, GatewayFrame DEF IInv, priceVars

LEMMA AckInv ==
  ASSUME IInv, NEW c \in Consumer, NEW e \in Event, Ack(c, e)
  PROVE  /\ IInv'
         /\ handled[e] > 0 /\ acked' = acked \union {e}
         /\ UNCHANGED <<Sent, handled>>
<1>1. /\ e \in at[c] /\ acked' = acked \union {e}
      /\ taken' = [taken EXCEPT ![c] = @ \ {e}]
      /\ at' = [at EXCEPT ![c] = @ \ {e}]
      /\ UNCHANGED <<price, applied, raced, txn, started, events, socket, unsent, queue, handled,
                     faults>>
  BY DEF Ack, priceVars, output
<1>2. Sent' = Sent /\ handled[e] > 0 /\ e \in taken[c]
  BY <1>1 DEF Sent, IInv, BrokerSound
<1>3. TypeOK'
  BY <1>1 DEF IInv, TypeOK
<1>4. /\ at'[c] = at[c] \ {e} /\ \A d \in Consumer \ {c} : at'[d] = at[d]
      /\ taken'[c] = taken[c] \ {e} /\ \A d \in Consumer \ {c} : taken'[d] = taken[d]
  BY <1>1 DEF IInv, TypeOK
<1>5. BrokerSound'
  <2>1. queue' \union acked' \subseteq Sent' /\ queue' \intersect acked' = {}
    BY <1>1, <1>2 DEF IInv, BrokerSound
  <2>2. \A d \in Consumer : /\ taken'[d] \subseteq Sent'
                            /\ taken'[d] \intersect (queue' \union acked') = {}
                            /\ at'[d] \subseteq taken'[d]
    BY <1>1, <1>2, <1>4 DEF IInv, BrokerSound
  <2>3. \A d, f \in Consumer : d # f => taken'[d] \intersect taken'[f] = {}
    BY <1>4 DEF IInv, BrokerSound
  <2>4. \A f \in acked' : handled'[f] > 0
    BY <1>1, <1>2 DEF IInv, BrokerSound
  <2>5. \A d \in Consumer : \A f \in at'[d] : handled'[f] > 0
    BY <1>1, <1>4 DEF IInv, BrokerSound
  <2>. QED
    BY <1>1, <2>1, <2>2, <2>3, <2>4, <2>5 DEF IInv, BrokerSound
<1>6. RepeatsBounded'
  BY <1>1, <1>4 DEF IInv, RepeatsBounded
<1>. QED
  BY <1>1, <1>2, <1>3, <1>5, <1>6, GatewayFrame DEF IInv, priceVars

\* What a dead consumer had not acked is ready again, for either of them.
LEMMA ConsumerCrashInv ==
  ASSUME IInv, NEW c \in Consumer, ConsumerCrash(c)
  PROVE  IInv' /\ UNCHANGED <<Sent, handled, acked>>
<1>1. /\ faults' = faults + 1 /\ queue' = queue \union taken[c]
      /\ taken' = [taken EXCEPT ![c] = {}]
      /\ at' = [at EXCEPT ![c] = {}]
      /\ UNCHANGED <<price, applied, raced, txn, started, events, socket, unsent, acked, handled>>
  BY DEF ConsumerCrash, Fault, priceVars, output
<1>2. Sent' = Sent
  BY <1>1 DEF Sent
<1>3. TypeOK'
  BY <1>1 DEF IInv, TypeOK
<1>4. /\ at'[c] = {} /\ \A d \in Consumer \ {c} : at'[d] = at[d]
      /\ taken'[c] = {} /\ \A d \in Consumer \ {c} : taken'[d] = taken[d]
  BY <1>1 DEF IInv, TypeOK
<1>5. BrokerSound'
  BY <1>1, <1>2, <1>4 DEF IInv, BrokerSound
<1>6. RepeatsBounded'
  BY <1>1 DEF IInv, TypeOK, RepeatsBounded
<1>. QED
  BY <1>1, <1>2, <1>3, <1>5, <1>6, GatewayFrame DEF IInv, priceVars

-----------------------------------------------------------------------------
(* Theorems. *)

LEMMA StutterInv ==
  ASSUME IInv, UNCHANGED vars
  PROVE  IInv' /\ UNCHANGED <<Sent, handled, acked>>
<1>1. UNCHANGED <<price, applied, raced, txn, started, events, socket, unsent, queue, taken, at,
                  acked, handled, faults>>
  BY DEF vars, priceVars, output, brokerVars
<1>. QED
  BY <1>1
  DEF IInv, TypeOK, TxnsSuffice, BrokerSound, RepeatsBounded, DiscountsSound, Publishing, Sent

LEMMA NextInv == IInv /\ [Next]_vars => IInv'
<1>. SUFFICES ASSUME IInv, [Next]_vars PROVE IInv'
  OBVIOUS
<1>1. ASSUME NEW c \in Client,
             \/ \E kind \in {"publish-product", "apply-pricing"}, s \in Sku : Start(c, kind, s)
             \/ Publish(c) \/ CallFails(c) \/ Upsert(c) \/ Find(c) \/ Write(c)
      PROVE  IInv'
  BY <1>1, StartInv, PublishInv, CallFailsInv, UpsertInv, FindInv, WriteInv
<1>2. ASSUME NEW c \in Consumer,
             \/ \E e \in Event : Deliver(c, e) \/ Handle(c, e) \/ Ack(c, e)
             \/ ConsumerCrash(c)
      PROVE  IInv'
  BY <1>2, DeliverInv, HandleInv, AckInv, ConsumerCrashInv
<1>. QED
  BY <1>1, <1>2, FlushInv, GatewayCrashInv, StutterInv DEF Next

LEMMA Inductive == Spec => []IInv
BY InitInv, NextInv, PTL DEF Spec

\* A price carries every discount written since the product was listed, unless a
\* write came between the find and the update of another: whatever is cut off.
THEOREM DiscountsSafe == Spec => []DiscountsCounted
<1>1. IInv => DiscountsCounted
  BY DEF IInv, DiscountsSound, DiscountsCounted
<1>. QED
  BY <1>1, Inductive, PTL

\* What the work queue sees of a step.
LEMMA QueueNext == IInv /\ [Next]_vars => [Queue!Next]_(Queue!queue)
<1>. SUFFICES ASSUME IInv, [Next]_vars PROVE [Queue!Next]_(Queue!queue)
  OBVIOUS
<1>1. CASE UNCHANGED <<Sent, handled, acked>>
  BY <1>1 DEF Queue!queue, Sent
<1>2. ASSUME NEW e \in Event, Flush(e) PROVE Queue!Next
  <2>1. Queue!Send(e)
    BY <1>2, FlushInv DEF Queue!Send, Sent
  <2>. QED
    BY <2>1 DEF Queue!Next
<1>3. ASSUME NEW c \in Consumer, NEW e \in Event, Handle(c, e) PROVE Queue!Next
  <2>1. /\ e \in Sent \ acked
        /\ handled' = [handled EXCEPT ![e] = @ + 1]
        /\ UNCHANGED <<Sent, acked>>
    BY <1>3, HandleInv
  <2>2. {f \in Event : handled'[f] > 0} = {f \in Event : handled[f] > 0} \union {e}
    BY <2>1 DEF IInv, TypeOK
  <2>3. Queue!Handle({e})
    BY <2>1, <2>2 DEF Queue!Handle, Sent
  <2>. QED
    BY <2>3 DEF Queue!Next
<1>4. ASSUME NEW c \in Consumer, NEW e \in Event, Ack(c, e) PROVE Queue!Next
  <2>1. Queue!Forget({e})
    BY <1>4, AckInv DEF Queue!Forget, Sent
  <2>. QED
    BY <2>1 DEF Queue!Next
<1>5. ASSUME NEW c \in Client,
             \/ \E kind \in {"publish-product", "apply-pricing"}, s \in Sku : Start(c, kind, s)
             \/ CallFails(c) \/ Upsert(c) \/ Find(c) \/ Write(c)
      PROVE  UNCHANGED <<Sent, handled, acked>>
  <2>1. UNCHANGED <<events, output, brokerVars>>
    BY <1>5 DEF Start, CallFails, Upsert, Find, Write
  <2>. QED
    BY <2>1 DEF output, brokerVars, Sent
<1>. QED
  BY <1>1, <1>2, <1>3, <1>4, <1>5, PublishInv, GatewayCrashInv, DeliverInv, ConsumerCrashInv,
     StutterInv DEF Next

\* The queue and its consumers are a work queue: an event leaves it only after it
\* was handled, and it is handled again only as often as something has failed.
THEOREM QueueKept == Spec => KeepsQueue
<1>1. Init => Queue!Init
  BY DEF Init, Queue!Init
<1>2. IInv => \A e \in Event : handled[e] <= faults + 1
  BY DEF IInv, RepeatsBounded
<1>. QED
  BY <1>1, <1>2, QueueNext, Inductive, PTL DEF Spec, KeepsQueue, Queue!Spec
=============================================================================
