---------------------------- MODULE StackGateway ----------------------------
(***************************************************************************)
(* stacks/gateway: the umbrella gateway, which runs a transaction as a     *)
(* chain of awaited calls to the services of the redis, kafka and postgres *)
(* stacks and to the gateways of the other two.  Requests overlap; nothing *)
(* is undone when a chain stops half way.                                  *)
(*                                                                         *)
(* A call is answered with a status, or it fails on the way, before or     *)
(* after the service has done its work.  runTransaction only looks at      *)
(* failures: an error status is noted and the chain goes on.               *)
(***************************************************************************)
EXTENDS Integers, Sequences, SequencesExt

CONSTANTS
  Request,   \* requests, each made at most once
  Txn,       \* the transactions that clients run
  User,      \* the user ids that clients send
  MaxFaults  \* bound: refused calls, failed calls and crashes

KnownUser == "user-1"

RedisStack    == <<"session", "cacheGet", "cache", "notify">>
KafkaStack    == <<"produce", "inventory", "inventoryGet", "analytics">>
PostgresStack == <<"users", "usersGet", "orders", "billing", "audit">>

Transaction == {"place-order", "sync-catalog", "fulfill-shipment", "publish-product",
                "apply-pricing", "sync-recommendations", "customer-lookup",
                "index-document", "ship-order", "platform-wide"}

\* The calls of each transaction.  The last two stacks have gateways of their own.
Plan ==
  [t \in Transaction |->
     CASE t = "place-order"      -> RedisStack \o KafkaStack \o PostgresStack
       [] t = "sync-catalog"     -> KafkaStack \o PostgresStack \o RedisStack
       [] t = "fulfill-shipment" -> PostgresStack \o RedisStack \o KafkaStack
       [] t = "platform-wide"    -> RedisStack \o KafkaStack \o PostgresStack
                                      \o <<"messaging", "search">>
       [] t \in {"publish-product", "apply-pricing", "sync-recommendations"} -> <<"messaging">>
       [] OTHER -> <<"search">>]

ASSUME TxnAssumption == Txn \subseteq DOMAIN Plan
ASSUME FaultAssumption == MaxFaults \in Nat

Call      == {"session", "cacheGet", "cache", "notify", "produce", "inventory",
              "inventoryGet", "analytics", "users", "usersGet", "orders", "billing",
              "audit", "messaging", "search"}
Tolerated == {"cacheGet", "inventoryGet", "usersGet"}   \* gRPC, in a try of its own
Reads     == {"cacheGet", "inventory", "inventoryGet", "users", "usersGet"}
             \* GETs, and calls of the Get of a LookupService
Status    == {"ok", "error", "failed"}

VARIABLES
  run,       \* gateway: where each request is
  steps,     \* gateway: the steps array of each request
  producer,  \* gateway: Kafka producer: "starting", "connected", "closing"
  effects,   \* services: the calls of each request that left something behind
  faults     \* number of faults

vars == <<run, steps, producer, effects, faults>>

\* at: index of the call under way; phase: "new", "sent", "served", or how it ended.
NewRun == [txn |-> "none", user |-> "none", at |-> 1, phase |-> "new", reply |-> "ok"]

Init ==
  /\ run = [r \in Request |-> NewRun]
  /\ steps = [r \in Request |-> <<>>]
  /\ producer = "starting"
  /\ effects = [r \in Request |-> {}]
  /\ faults = 0

Fault == faults < MaxFaults /\ faults' = faults + 1

Calls(r)   == Plan[run[r].txn]
Active(r)  == run[r].phase \in {"sent", "served"}
Current(r) == Calls(r)[run[r].at]
More(r)    == Active(r) /\ run[r].at <= Len(Calls(r))

-----------------------------------------------------------------------------
(* The services: [status, effect] of the answers to a call *)

Answer(status, effect) == [status |-> status, effect |-> effect]

\* users-go knows one user, and orders-python asks it before it makes an order.
UsersGo(user)      == {IF user = KnownUser THEN Answer("ok", FALSE) ELSE Answer("error", FALSE)}
OrdersPython(user) == {IF user = KnownUser THEN Answer("ok", TRUE) ELSE Answer("error", FALSE)}
BillingJava        == {Answer("ok", TRUE)}
AuditGo            == {Answer("ok", TRUE)}

\* inventory-go's GET stores "stock-<key>" when it knows nothing of the key: the first
\* read of it after a start leaves something behind.
InventoryGo == {Answer("ok", TRUE), Answer("ok", FALSE)}

Normal(call, user) ==
  CASE call = "users"   -> UsersGo(user)
    [] call = "orders"  -> OrdersPython(user)
    [] call = "billing" -> BillingJava
    [] call = "audit"   -> AuditGo
    [] call = "inventory" -> InventoryGo
    [] call \in Reads \ {"users", "inventory"} -> {Answer("ok", FALSE)}
    [] OTHER -> {Answer("ok", TRUE)}

\* cache-go ignores what Redis answers; session-python stores before the call
\* that may fail; the other gateways may stop half way.
Refused(call) ==
  CASE call = "cache" -> {Answer("ok", FALSE)}
    [] call = "produce" -> {}
    [] call \in {"session", "messaging", "search"} -> {Answer("error", TRUE), Answer("error", FALSE)}
    [] OTHER -> {Answer("error", FALSE)}

-----------------------------------------------------------------------------
(* The gateway *)

\* The end of startup().
Connect ==
  /\ producer = "starting"
  /\ producer' = "connected"
  /\ UNCHANGED <<run, steps, effects, faults>>

\* A POST to /transactions/<t>, which does not ask whether startup is over.
Start(r, t, u) ==
  /\ run[r].phase = "new"
  /\ run' = [run EXCEPT ![r] = [NewRun EXCEPT !.txn = t, !.user = u, !.phase = "sent"]]
  /\ UNCHANGED <<steps, producer, effects, faults>>

\* The service does its work; a produce needs a connected producer.
Serve(r) ==
  /\ run[r].phase = "sent" /\ More(r)
  /\ Current(r) = "produce" => producer = "connected"
  /\ \E a \in Normal(Current(r), run[r].user) \union Refused(Current(r)) :
       /\ IF a \in Normal(Current(r), run[r].user) THEN UNCHANGED faults ELSE Fault
       /\ run' = [run EXCEPT ![r].phase = "served", ![r].reply = a.status]
       /\ effects' = [effects EXCEPT ![r] = IF a.effect THEN @ \union {Current(r)} ELSE @]
  /\ UNCHANGED <<steps, producer>>

\* Mutant of Push: only a call that succeeded is pushed.
PushOk(r, status) ==
  /\ steps' = [steps EXCEPT ![r] =
        IF status = "ok" THEN Append(@, [call |-> Current(r), status |-> status]) ELSE @]
  /\ run' = [run EXCEPT ![r].at = @ + 1, ![r].phase = "sent"]

\* steps.push, and on to the next call.
Push(r, status) ==
  /\ steps' = [steps EXCEPT ![r] = Append(@, [call |-> Current(r), status |-> status])]
  /\ run' = [run EXCEPT ![r].at = @ + 1, ![r].phase = "sent"]

Returns(r) ==
  /\ run[r].phase = "served"
  /\ Push(r, run[r].reply)
  /\ UNCHANGED <<producer, effects, faults>>

End(r, phase) == run' = [run EXCEPT ![r].phase = phase] /\ UNCHANGED steps

\* Mutant of Fails: the catch of the gRPC calls is around every call.
FailsTolerated(r) ==
  /\ More(r)
  /\ Fault
  /\ Push(r, "failed")
  /\ UNCHANGED <<producer, effects>>

\* The call throws: the service was not reached, or its answer was lost, or the
\* producer is not connected.  Only the gRPC calls are caught.
Fails(r) ==
  /\ More(r)
  /\ IF Current(r) = "produce" /\ producer # "connected" THEN UNCHANGED faults ELSE Fault
  /\ IF Current(r) \in Tolerated THEN Push(r, "failed") ELSE End(r, "500")
  /\ UNCHANGED <<producer, effects>>

\* Mutant of Finish: the last stack is not awaited.
FinishEarly(r) ==
  /\ Active(r)
  /\ run[r].at > Len(Calls(r)) - 2
  /\ End(r, "200")
  /\ UNCHANGED <<producer, effects, faults>>

Finish(r) ==
  /\ run[r].phase = "sent"
  /\ run[r].at > Len(Calls(r))
  /\ End(r, "200")
  /\ UNCHANGED <<producer, effects, faults>>

\* SIGTERM: the producer disconnects while requests go on ...
Sigterm ==
  /\ producer # "closing"
  /\ producer' = "closing"
  /\ UNCHANGED <<run, steps, effects, faults>>

\* ... and then the process exits, whatever is under way.
Gone ==
  /\ producer' = "starting"
  /\ run' = [r \in Request |-> IF Active(r) THEN [run[r] EXCEPT !.phase = "cut"] ELSE run[r]]
  /\ UNCHANGED <<steps, effects>>

Exit == producer = "closing" /\ Gone /\ UNCHANGED faults

Crash == Gone /\ Fault

Next ==
  \/ Connect
  \/ \E r \in Request :
       \/ \E t \in Txn, u \in User : Start(r, t, u)
       \/ Serve(r) \/ Returns(r) \/ Fails(r) \/ Finish(r)
  \/ Sigterm
  \/ Exit
  \/ Crash

Spec == Init /\ [][Next]_vars

-----------------------------------------------------------------------------
(* Properties *)

Reported(r)    == {steps[r][i].call : i \in DOMAIN steps[r]}
HasStep(r, c, s) == \E i \in DOMAIN steps[r] : steps[r][i] = [call |-> c, status |-> s]

\* A 200 whose steps all succeeded means that every service of the transaction
\* that is asked to store something did so; cache-go is the exception, which answers 200 without the value
\* when Redis fails.
AllOkMeansAllDone ==
  \A r \in Request :
    (run[r].phase = "200" /\ \A i \in DOMAIN steps[r] : steps[r][i].status = "ok")
      => ToSet(Calls(r)) \ (Reads \union {"cache"}) \subseteq effects[r]

\* The chain goes on after an error status, so billing-java charges users for
\* whom orders-python has made no order: but never without a step that says so.
ChargeExplained ==
  \A r \in Request : "billing" \in effects[r] /\ "orders" \notin effects[r]
                      => HasStep(r, "orders", "error")

\* The steps of a 500 leave out at most the effect of the call that failed, and
\* the steps of a 200 none: what a client would have to undo.
EffectsReported ==
  \A r \in Request :
    /\ run[r].phase = "200" => effects[r] \subseteq Reported(r)
    /\ run[r].phase = "500" => effects[r] \subseteq Reported(r) \union {Current(r)}

=============================================================================
