# TLA+ models of synthetic-apps

This directory keeps formal models of the applications in this repository: TLA+
modules, TLC configurations that check them on small instances, and proofs that
TLAPS checks for every value of the constants. `PROJECT.json` is the index: which
module models which lines (`map`), what every run checks (`runs`), which mutation
of the model makes each property fail (`mutants`), what is hard to test in the
code and which property watches it (`hazards`).

Check a run with `tlc -config MCClaims.cfg MCClaims`, a proof with
`tlapm ClaimsProofs.tla`.

## 1. The system

The repository is a collection of services that exist to be instrumented. Each is
a real program, most of them concurrent, and many talk to each other: over HTTP
and gRPC, through Kafka, Redis, RabbitMQ, Pub/Sub, Postgres and MongoDB. They
share no code. What they share is a shape, which decides what is hard about them:

* request handlers that overlap, on threads (Java, Go, Python) or between awaits
  (Node), and state they share with each other and with a background loop;
* a consumer loop whose commit, ack or pop is not atomic with its work, and a
  restart that keeps only what the broker or the database keeps;
* `/ready` and `/healthz`, which the kubelet polls, over a flag or a `lastError`
  that several activities write;
* a startup delay, retries until a backend is there, and a SIGTERM handler that
  stops some activities before others.

### Modelled components

| Component | State | Operations | Talks to | What is hard | What makes it correct |
| --- | --- | --- | --- | --- | --- |
| `java/claims-intake` | claim store, id sequence, audit chain head | submit, adjudicate, look up | clients | no lock across two accesses to shared state; ids wrap onto each other; stale snapshots are written back | payouts authorised and in coverage; the store holds claims as filed; a decision is never undone; the audit chain tells the truth |
| `golang/kafka` | topics, group offsets and members; health of both sides; turn of the producer | send, fetch, process, commit, probe, restart, rebalance | Kafka, kubelet, own server | commit after processing, errors that are skipped, no offset at the first start, a commit that failed and was applied, a rebalance with a message in hand | nothing untried is committed; commits of one subscription only advance; the consumer gets healthy again |
| `nodejs/google-pubsub` | subscription and leases; publishes and handlers under way; `lastError` of both sides | tick, POST, deliver, call, ack, nack, probe, shutdown | Pub/Sub, kubelet, own server | handlers overlap and share `lastError`; acks get lost, leases expire; SIGTERM closes the server before the subscription | acked is processed; answered is processed; healthy again |
| `scenarios/sql-query` (Go, Java) | the users table in Postgres, a mutex per pod; the select list under construction | query, ensure schema, probe, start; build a query | Postgres, kubelet | Postgres restarts without its data; two pods share the table but not the mutex; exact string length with limits of 63 | seeded once; a pod heals; exact length without panic |
| `stacks/gateway` and the postgres services | steps and effects of each transaction, producer | the ten transactions | all stacks | error statuses do not stop a chain, failures do; nothing is undone; shutdown cuts chains | the answer tells what was done |
| `stacks/redis-stack` services | sessions, cache, notification list, worker | session, cache, notify, pop | Redis, each other | BRPOP removes before the worker has it; errors that are ignored | order, at most once, every notification is handled or was lost with a restart |
| `stacks/kafka-stack` inventory-go | sync.Map, group offset | get (which fills in a missing key), look up, update from the topic | gateway, Kafka | Load then Store over an update; commit before the update | only an overtaken update is lost; losses are bounded by faults |
| `stacks/search-stack` | customers and shipments (MySQL), documents (Elasticsearch), copies (memcached) | customer-lookup, index-document, ship-order | the three stores, each other | a document and its copy are two writes; a miss is filled with what a search found earlier; error statuses are steps like any other; two defaults for a body that is missing | the copy is what is indexed, where no other writer came between; what can be found is in the table |
| `stacks/kafka-stack` relay, processor, analytics | counters, three groups | relay, listen, record | Kafka, each other | retry after a call that succeeded, fromBeginning false, a consumer thread that dies | each group is a work queue; every event is relayed, reported, analyzed |
| `stacks/messaging-stack` services | product prices, RabbitMQ queue | publish product, apply pricing, consume | MongoDB, RabbitMQ | read-modify-write of a price, two kinds of consumer on one queue, a publish that nobody waits for | discounts counted; the queue is a work queue; what was sent is handled |
| `scenarios/tail-sampling` (Node, Java, Python) | `/alternate` flag, server state, threads of the pool | hops, alternate, scenario routes, SIGTERM | itself | each hop holds a thread of the pool that the next needs; three kinds of toggle; three kinds of shutdown | traces as documented; every second answer fails; requests end |
| the test of its sampling counters (`tests/common/assert`) | baseline, readings of an attempt; counters and scrapes outside | record baseline, trigger, assert delta, retry | VictoriaMetrics, chainsaw | three counters read one after another while they move; a query that fails reads 0; late traces of an earlier run | a test that passes has missed nothing |
| Node services: `nodejs/grpc`, `kafka`, `db-permissions-leak`, `aws-sns-sqs`, `httppayload`, `httpserver`, `workload-types`, `k8s-health`, `agent-stability`; `scenarios/head-sampling-http` and `url-templatization` | module variables, armed timers, the server, open requests | start-up, handlers, loops, probes, SIGTERM | brokers, Postgres, themselves, kubelet | a signal during start-up; a loop armed after the signal; one `lastError` for two activities; find and insert; calls to the own port while it closes | requests end; processes end when told; probes tell the truth; answers as documented |

### Components that are not modelled (yet)

`PROJECT.json` lists each with its files and the reason. Those with a behaviour
worth modelling are in the plan (section 6). The others answer constants
(pii-masking, multi-containers), wrap a library (mtls-destination, loadgen),
repeat the shape of a modelled one (cassandra), or are scripts that run once. The
sub-gateways of the redis, kafka and postgres stacks are neither built nor deployed
(`stacks/deploy.sh` and `stacks/gateway` name the other services only); their
routes `/flow`, `/event`, `/checkout` and again `/flow` would call each other until
a call fails.

Some components are *partly* modelled. Missing are what db-permissions-leak answers to a
token, the contents of the SQS queues, the Python and Java servers of
head-sampling-http, the HTTP servers in Go, Java, Python and Ruby.

## 2. Modules

Every module models one component: its state as VARIABLES, one action per
operation or step between two points where others can run, and the faults of its
environment as actions that consume `MaxFaults` (`MaxFailures` in Inventory and
RedisStack). Variables marked *history* are not in the code; the properties use them to
remember what happened. Definitions
called *mutant* stand before the definition they replace in a mutation of the
model; nothing else uses them.

**Claims** (`MCClaims`, `ClaimsProofs`). `store`, `sequence`, `chain` are
`ClaimRepository.claims`, `.sequence` and what `AuditTrail.chainHead` has hashed;
`pc`, `work`, `actor`, `head` are the locals of a request thread. Each access to
shared state is an action: `SubmitClaim` (validation and the atomic `nextId`),
`ReadForApproval` (`findById`, tenant guard), `Deny`, `SignPayout`, `Save` (the
put), `ReadHead` and `WriteHead` (the two halves of `AuditTrail.record`). The hash
is modelled by the sequence of entries it stands for: two heads are equal exactly
if these are. Integers do not get near 2^31 (amounts are bounded by the coverage).

**GoKafka** (`MCGoKafka`, `GoKafkaProofs`) with the abstract **GroupLog**. The
producer (`Send...`), the consumer loop (`Fetch`, `ProcessSucceeds/Fails`,
`CommitSucceeds/Fails`), the reader that joins in the background (`Join`), the
kubelet (`LivenessKill`, `Terminate`) and the broker. There may be two consumer
containers, because the default rolling update starts the new one beside the old one;
each topic belongs to one of them. `Rebalance` is a group that forms anew in running
processes (a member that comes or goes, a missed heartbeat, a broker that restarts): every
reader ends its subscription, and joins again at the committed offset, while the loop may
still have a message of the old subscription in hand, which it then commits (`stale`).
Such a commit can be refused, or move the group back, over messages that will be delivered
again. GroupLog says what a group promises all the same: the log grows; commits are of
offsets whose messages were processed; and between two commits of one subscription the
offset advances, so that only the end of a subscription with a message in hand
(`Unsubscribe`) lets one go back. GoKafka implements it (`KeepsGroupLog`).

**WorkQueue** is what a subscription, a queue or a consumer group promises to whoever
put an item into it: only what was put in is handled, it is forgotten only after it
was handled, and stays so. PubSub, Messaging and each of the three groups of EventRelay
implement it (`Queue`, `RelayQueue`, `ListenerQueue`, `AnalyticsQueue` give the
mappings), where *forgotten* is acked or committed.

**PubSub** (`MCPubSub`, `PubSubProofs`). A `job` is a tick or a POST waiting for its publish, a
`handler` a message between `on("message")` and ack or nack. What runs between two
awaits is one action. `KeepsQueue` maps `handled` to the messages a handler has
processed and `gone` to the acked ones.

**SqlQuery** (`MCSqlQuery`, `ScenarioProofs`) is the sql-query app from the start of its process:
first **SelectList**, `buildSelectList` with strings reduced to their lengths, one step
per turn of a loop, where aliases of a length that no fragments make are a panic that
ends the process; then **SqlSchema**, where startup, probe and query threads of up to
two pods run `initSchema` (`Create`, `Count`, `Seed`, `Verify`) under the mutex, except
startup, which runs without. `language` chooses between Go and Java where they differ
(`Verified`, `GiveUp`). The app goes on from the query that is cut in its WHERE, which
stands for the three; other lengths are built and no more.

**StackGateway** (`MCStackGateway`, `StackGatewayProofs`). A transaction is a list of calls (`Plan`); a
call is sent, served and returned, or fails before or after it was served. The
postgres services are the answers they can give; the sub-gateways of the messaging
and search stacks are one call each. A GET of inventory-go stores a value for a key that
has none (`InventoryGo`); it counts as an effect, of which the answer has to tell.

**RedisStack** (`MCRedisStack`) and **EventRelay** (`MCEventRelay`), whose proofs are in
`StackWorkersProofs`, and **Messaging** (`MCMessaging`, `MessagingProofs`). The services behind
that gateway, one module for each group that shares state. `Produce` (EventRelay) and `Start` (Messaging) are the gateway's side of
the interface.

**StackCopies** (`MCStackCopies`, `StackGatewayProofs`) puts two services side by side that
keep a copy of what another one writes: **Inventory** (inventory-go, whose map follows a topic;
`Produce` is the gateway's side) and **SearchStack** (the three transactions of
gateway-dotnet over django-crm, php-shipping, go-indexer and nodejs-cache; each call to a
store is one action, and calls fail with a status, which the gateway ignores, or by an
exception, which ends the transaction). A request may have no body, or an empty one: the
gateway's default is for the document and the cache's for the copy (`Indexed`,
`CopyStored`), and the two differ without any race or fault. The public gateway always
sends a body with text. They share nothing in the code, so a behaviour is
one of the one or of the other.

**TailSampling** (`MCTailSampling`, `ScenarioProofs`). A client's request is a chain with one hop
that is sent, handled or answered (`level`), those above it waiting. `Busy` counts
the threads that chains hold. `/alternate` is one step in Node, read-negate-store
in Python, and read-negate, then an atomic swap in Java.

**SamplingMetrics** is the test of that scenario's counters: `Record` and `Ask` are one
query each, in the order of the script; a query that fails reads 0, because `set -e`
does not reach into a command substitution and the `error()` of jq ends nothing;
`Verdict` is `assert_counter_delta` for a rule, and a rule that fails ends the attempt.
The collector counts traces at any time after they were sent, restarts, and is scraped.
**TailSamplingTest** puts server and test side by side: to the test the server is a
number of traces for each rule.

**NodeServices** (`MCNodeServices`, `NodeServicesProofs`) is the life of one container of any
Node service in any of its deployments. **NodeProcess** holds what they share: a single-threaded process that
listens, activities suspended at an await (`job`, one slot each), armed `timers`, `code`
(the exit code), `told` (SIGTERM was delivered), and a `peer` that goes away and comes
back. Each service's module adds its handlers over these variables, and NodeServices
instantiates it; `own` is a record of the service's module variables:

* **NodeGrpc**: server, relay (which calls itself) and client (rounds of four calls), each in
  a process of its own or server and client in one, which calls itself then (the default
  of `GRPC_PEER_ADDRESS`); bind, start-up delay, SIGTERM with its deadline.
* **NodeKafka**: producer on an interval, consumer that fails to start (`ConsumerFails`,
  with `lastError`) or is stopped by kafkajs at any time later (`ConsumerCrashes`, of which
  the code hears nothing), one `lastError`.
* **NodeTimers**: agent-stability, k8s-health, workload-types, the HTTP server of
  `nodejs/httpserver`; probes, crash timers, the watch for a distro.
* **NodeSampling**: head-sampling-http: probes by uptime over REST and GraphQL, the
  routes, the periodic outbound loop.
* **NodeRoutes**: url-templatization: the dispatch to plain node:http or Express, each
  with its route table, and the outbound triggers that fetch from the own process. A path
  is a sequence of segments, dots among them: `URL.pathname` resolves "." and "..", which only
  the plain handler sees; Express compares without regard to case, which the plain handler
  does not (`Lower`, with `Spelling` the words in capitals that the instance knows).
* **NodePayload**: httppayload: what each parser leaves of a body, how it is sent on to
  the own echo route, what comes back. A form loses there what it cannot hold: a list of one
  element comes back as the element.
* **NodeAccounts**: start-up, registration and login of db-permissions-leak (find, then
  insert) and the handlers of aws-sns-sqs. The pool of the former has no listener for `error`,
  so a connection that idles while Postgres goes away ends the process (`IdleClientLost`).

Brokers, databases, the kubelet and RPC libraries are not in the repository: what
the models say about them is marked *external* in the modules and the map.

## 3. Runs

| Run | Instance | What it shows |
| --- | --- | --- |
| `claims` | 2 threads, 1 seeded claim, ids that wrap after 2, 2 policies of which one lapsed, amounts below zero, below the excess, at and above the junior limit and above the coverage, 4 requests | the safety of store, payouts and audit under every interleaving, wrap included |
| `claims_audit_append` | 2 threads, 2 requests | *violated*: the audit log is not append-only (section 5) |
| `go_kafka` | 2 containers, 1 topic, 3 sends, 2 faults (errors, crashes, redeploys, rebalances) | nothing untried is committed; refinement of GroupLog; every message behind a commit is tried in the end; recovery |
| `pubsub` | 2 publishes and 2 handlers at once, 3 rounds (so that publishes overlap after the first tick, which is alone), 2 faults | refinement of WorkQueue, duplicates bounded by the faults (none without), answered is processed, recovery |
| `sql_query` | lists of all lengths to 260 and 800 to 1000 with four markers; then 2 pods, a client each, 2 attempts, 1 restart of Postgres, 1 fault; both languages | exact length on every path and a panic outside the range only; seeded once under one pod and empty only in passing; `/healthz` heals |
| `gateway` | 2 requests, 3 transactions that visit the stacks in different orders, a known and an unknown user, 1 fault | the answer explains the effects |
| `redis` | 2 clients, 2 keys, 3 requests, 2 faults | order and at-most-once of notifications, cache announced, all handled |
| `stack_copies` | 2 clients, 2 keys, 4 events, a body, none and an empty one, 4 transactions, 2 faults | which updates and copies can be lost or stale, and how many |
| `relay` | 2 events, 2 faults, three groups | refinement of WorkQueue by each group, duplicates bounded by the faults, counters agree without faults, all relayed, reported and analyzed |
| `messaging` | 2 clients, 1 product, 3 transactions, 1 fault | discounts, refinement of WorkQueue, duplicates bounded by the faults, every event that was sent is handled |
| `tail_sampling` | 2 clients, pool of 3, 3 hops, 3 requests, three languages; test files with a deterministic rule, a probabilistic one and both, 2 traces of the trigger, 1 of an earlier run, 1 error | traces, alternation, requests end unless the pool is exhausted; a test that passes has missed nothing |
| `node_services` | every service in every deployment, 2 activities at once, 2 faults | requests end; a process that is told ends, others recover with their peer; a process ends for a reason, cuts off no request and starts no new calls; probes and answers are true; routes as documented |

**Why the bounds are enough.** Races in this code are between two activities, so
two threads, jobs, handlers, clients or pods show them; a third would only repeat
one of the two roles. Sequences are as long as the longest one whose parts differ:
ids must wrap onto each other and be wrapped again (4 requests over 2 ids); a
topic must have a message before, at and after a commit (3 sends, and `SendSucceeds` may
append two copies), while topics share nothing but the turn of the producer and the loop,
so that one shows what a reader can do and the proofs take any number; a pool is exhausted by two chains
(3 threads, 3 hops). One fault breaks an operation; where something repairs it (a
retry, a redelivery, a restart), a second one breaks the repair, and `MaxFaults`
allows for both. Each property has a mutation of the model that violates it
within these bounds. Select lists are built in all lengths that the queries and the
projections distinguish. For SamplingMetrics a rule needs room for fewer, as many and
more traces than it expects (1 of 2), for two rules together so that one can have what
the other lacks. Symmetry is used in `claims`, `stack_copies` and `gateway`,
which check no liveness.

**Deadlock.** `CHECK_DEADLOCK FALSE` is set everywhere because every instance may
stop: clients send no more than the bound allows, a builder returns, a process
that got SIGTERM ends. Waiting for ever is what the liveness properties exclude.

## 4. Fairness

Fairness is weak, and for what the runtime or the cluster does by itself only.
Clients, faults, redeploys and timers of a producer have none.

* GoKafka: the consumer loop with its reader (`Run`) of each container, a container that the
  Deployment's replica count calls for, and the liveness probe of `consumer-k8s.yaml`, which
  kills a container that stays at 503.
* PubSub: every handler goes on, because the event loop runs and the call it makes
  is to its own process; the service redelivers what is available and takes back
  expired leases; an exit that is due happens; the probe kills.
* SqlQuery: once the list is built, threads run (a statement ends, if only with its
  connection), Postgres is restarted by its deployment, the kubelet probes each pod. There
  is no fairness for the mutex as such: it is a consequence of its holder running.
* RedisStack, EventRelay, Messaging: worker and handlers run, brokers deliver,
  sockets are flushed. Per client, event or group, so that one cannot starve.
* TailSampling: each request advances whenever it can; a stop comes to its end.
* NodeServices (`FairSpec`; its `Spec`, which the proofs use, has no fairness): the event loop runs what is due, per slot: a call that was made settles
  (`Settles`), start-up goes on (`Starts`), the callback of `server.close` runs
  (`Closed`), a timer that ends the process fires (`TimerExits`), the interval of the
  nodejs/kafka producer ticks. The peer comes back, because its deployment restarts it.
  Neither the deadline of a shutdown nor the kubelet's probes are counted on, so what
  ends, ends without them.

## 5. What is checked and proved

### Results that a reader may not expect

* `AppendOnly` does not hold: `AuditTrail.record` reads the chain head, hashes for
  milliseconds and writes it back, so one of two concurrent entries is lost,
  against the class comment "Append-only regulatory audit log".
* Adjudications write back stale snapshots. That can replace one decision by
  another (`DecisionsStick` is about undecided claims only), and after the id range
  has wrapped it can erase a newer claim (`AcknowledgedKept` stops there).
* In `golang/kafka` a message whose processing failed is committed past by its
  successor: `CommittedTried` says tried, not processed. A consumer that never
  committed starts at the end after a restart or a rebalance.
* In `golang/kafka` a rebalance with a message in hand lets a later commit move the group
  back, within one container or between two. Messages are then delivered again; none is
  skipped (`GroupLog` has this as `Unsubscribe`).
* `EffectsReported` (gateway) leaves out the effect of the call that failed, whose
  answer was lost: a client cannot know it.
* In `sql_query` two pods in a rollout can seed twice, and the Java pods then
  answer 503 for good: `Heals` excepts exactly this.
* In `tail_sampling` two chains can exhaust Tomcat's pool and wait for each other
  for ever; and the graceful path of the Python server never completes, because
  `shutdown()` waits for the loop that its caller interrupted. Only the timer ends
  the process. `AnsweredUnlessExhausted` states what is left to rely on.

* A test of the sampling counters may pass although more traces matched than it expects:
  the loop ends as soon as the numbers fit, while others are still to be counted.
  `NothingMissed` is about missing ones. It has an exception too: a baseline query that
  fails reads 0, and what was counted before then counts for the test; so do traces of an
  earlier run that arrive after the baseline. And VictoriaMetrics must hold what the
  counter holds when the baseline is recorded: if it is behind, a restart of the collector
  together with queries that read 0 can make up for a trace that is missing. The attempt
  to prove the property without this found it.
* agent-stability started without a distro does not crash when one appears later: the
  watch sets `instrumentationHandled` before it reacts, and the reaction does nothing then.
  The deployments of its crash scenarios announce a crash, so `Due` excepts this.
* nodejs/kafka: after its consumer has failed for good, the next send that succeeds clears
  `lastError`, and the service is healthy without a consumer (`own.masked`). A consumer that
  stops after `run()` has resolved is not noticed at all: no catch, no listener for the crash
  event, no `lastError`. `AnswersTrue` therefore speaks of a consumer that failed to start.
* nodejs/grpc: a SIGTERM during the start-up delay is not noticed by it; the first round
  of calls and the loop are armed after the signal, where server and client are one process
  (a client alone exits at once). `OrderlyShutdown` excepts exactly these.
* db-permissions-leak: the login route has no try/catch, so a login while Postgres is away
  ends the process. Two registrations of one address can both find nothing and insert
  (`OneAccount` counts the raced ones). A connection that idles in the pool when Postgres goes
  away ends the process without any query.
* url-templatization answers the same under both prefixes but for what `RoutedAlike` names:
  among it paths with "." or ".." and paths in capitals.
* httppayload answers a form field `a[]=x` as a list and its echo as a text.
* search-stack: a copy in the cache may be older than the document for its 300 s when
  writers overlap or a call fails; `CopyAgrees` names these keys. A document without a body
  is indexed as "sample" and cached as "cached", one with an empty body is cached as "cached":
  there the property says what each of the two holds.
* An analytics thread that found no broker is dead while `/health` answers healthy; its
  events wait for a restart.

### Proved for every value of the constants

A module of proofs extends the component it is about and assumes of the constants only
what the component's own `ASSUME`s say: bounds are natural numbers, a value that stands for
"nothing" is none of the others. Sets of threads, clients, handlers, keys and requests may be
infinite. Each proof has the same layout. Its first section names the parts of the
inductive invariant; then come lemmas about operators, one lemma per action (or per group
of actions that change the same variables), the lemma that `[Next]_vars` keeps the
invariant, and the theorems. TLC checked every invariant on its run before it was proved.
The properties of the theorems are those that the runs check.

`ClaimsProofs`, for any set of threads and any bound on the ids:

* `TypeCorrect`: types, among them that no payout is negative.
* `StoreSound`, `ApprovalsSound`, `PayoutsSound`, `AuditSound`, `DecisionsSound`. None of
  these is inductive. `IInv` adds what relates a thread's locals to the shared state:
  `FiledSound` (refs stay below the sequence, so the next one is new), `RefsUnique`,
  `WorkSound` (what a thread is about to save is filed, and signed if approved),
  `HeadsTruthful` (the chain a thread has read is as truthful as the chain),
  `FreshUntilSaved` (nobody else has a claim that is not saved yet, so a save of an
  undecided claim cannot hide a decision).
* `AcknowledgedSound`: before the ids wrap, a claim whose submission was acknowledged stays.
  It needs `SavedKept` (also the claims on their way to an answer are kept) and that
  `Slot` gives different refs different slots until then.

`GoKafkaProofs`, for any list of distinct topics and any set of members:

* `TypeCorrect`, with the fact that a reader stands behind the message in hand of its own
  subscription.
* `CommittedSafe`, by `PositionSound` (all between the last start without an offset and a
  reader was tried or is in hand) and `HandSound` (so it is in front of what a member is
  about to commit, also if the message is of an earlier subscription). Neither needs that
  commits advance, which after a rebalance they do not.
* `CommitsAdvance` (two commits of one subscription never go back) and `Refinement`
  (GoKafka implements GroupLog), from the same invariant: the member
  that committed last, as long as its subscription runs, reads at or after that offset.

`PubSubProofs`: `QueueKept` (refinement of WorkQueue) from `LeaseSound`: what is acked was
processed. `ProcessedOnce` bounds the deliveries that repeat: by `DeliveriesCounted` what the
counter has counted, the handlers under way (`Handling`) and the messages nobody holds that can
still be delivered (`Waiting`) are together no more than the messages published and the
failures. A step of a handler moves a message from one of these to the next; only a fault adds
one. `Undisturbed` says that while nothing fails every message under way has one handler
whose lease runs. `RoundsSuffice` counts the publishes under way, so that a published message
always has an id.

`MessagingProofs`: `QueueKept` from `BrokerSound` (an event is in one place: the socket, the
queue, with one consumer, acked; and a consumer acks what it has handled), and from
`RepeatsBounded`: an event that was handled more often than things have failed is on its way to
its ack or acked, so that only one more failure can bring it back. `DiscountsSafe`
from `DiscountsSound`: also the price an update has read carries all discounts, unless the
product is raced.

`StackWorkersProofs`:

* `QueuesKept`, the refinement of WorkQueue by each of the three groups of EventRelay, from
  one statement about a group (`Sound`: everything up to its position is handled, so
  whatever it commits is). `CallsCounted` bounds how often processor-java hears of an event:
  once, and once more for every fault; an event that has used up its faults is answered, and the
  relay goes on to the next. It also says where the two counters stand while nothing fails.
* `WorkerInOrder`, `WorkerOnce`, `CacheAnnounced` of RedisStack. `ListSound` says which part
  of all that was ever pushed the list holds, in which order; `HandledSound` puts what the
  worker has handled before it; `ValuesApart` tells the notifications apart; `LossCounted`
  bounds the losses by the faults.

`StackGatewayProofs`:

* `TransactionDone`, `BillingExplained`, `AnswersComplete` for any set of transactions.
  `StepsFollow` relates steps and plan, `OkIsDone` and `DoneIsReported` relate steps and
  effects, and `Explained` uses that billing-java is called right after orders-python in
  every plan (`PlanOrdered`), so that the refusal is in the steps before the charge.
* `LossesBounded`: the reader of inventory-go is ahead of its commit only through commits
  that failed, and has passed what was stored, what was lost to a failure, and the message
  in hand (`ReaderSound`).
* `CopiesSound`: for inventory-go, who is about to store has found the key missing before
  any update of it, or is counted as overtaken (`MapSound`); for search-stack, a document
  and its copy belong to the same request but between the two writes of a transaction
  (`CallSound`, `CopySound`), whether that request had a body or the two defaults for one.

`ScenarioProofs`:

* `TracesDocumented`, `AlternateAlternates`: `ChainSound` gives the number of failed hops
  and the status at every level of a chain on its way back, for any number of hops;
  `FlagSound` relates the flag to the answers given.
* `PassEarned`: what was read, was sent. `BaselinesBound` bounds every counter by baseline
  and trigger, across restarts and late scrapes; `ReadingSound` follows the numbers through
  the queries of an attempt; `PassedSound` keeps the verdicts of earlier rules.
* `SeedsOnce`, `InitSchemaExcludes`: `Guarded` says who may be inside initSchema (startup
  before anybody else runs, the others with the mutex); before the first fault there is one
  pod (`AloneOn`), and who is about to seed has found the table empty and still does
  (`Seeding`).
* `ListsExact`: the invariant `ListSound` of the three loops of `buildSelectList`. Room
  for one more entry, or a last alias that is full, is all that is needed for the rest to be
  closed (`Open`); `Aliases` shows that every length from 1 to 63 has an alias. So the
  builder panics outside the documented range only, for every length and marker, where the
  run tries a few hundred.

`NodeServicesProofs`, for every service, in every deployment, with any number of activities
and faults:

* `NodeServicesShutDownOrderly`: a process ends for a reason, exits with 0 only when nothing
  it serves is open, and starts no calls after SIGTERM but those that are named. None of it
  follows from one handler, because the exit, the signal and the timer that fires are
  different steps. `NodeSound` is the first invariant: for nodejs/grpc (`GrpcSound`)
  which timers may be armed in which role and at which stage of the start-up, before and
  after the signal, and that a client without server serves nobody, so that its immediate exit
  cuts nothing off; for the cron job of workload-types the same (`WorkloadSound`). `EndSound`
  is the second one: whoever arms an exit, a crash or a deadline had a reason for it, or was
  told.
* `NodeAnswersTrue`: a nodejs/kafka whose consumer has failed to start is unhealthy unless a
  send masked it (`KafkaSound`); a nodejs/grpc that is ready is up; every registered address has
  one account but for the raced ones, because `AccountsSound` counts rows and those who are
  about to insert together (`Inserting`); a payload comes back as it went in but for the form fields that
  a form cannot hold, from `EchoKeeps` about the parsers; the two kinds of probes of head-sampling agree, for every uptime
  (`ProbesAlwaysAgree`).
* `NodeRoutesDocumented`: the routes are the documented ones. `AlikeEverywhere`, which it rests
  on, is about every path and not only the listed ones, as long as no segment is "." or ".."
  (`NoDots`) or a word of the routes in capitals (`AsRead`): for those the handlers do differ.
  `PlainAnswers` and `FrameworkAnswers` say what each handler answers to a path of each kind, `OneKind`
  that no path is of two kinds, so that neither the order of the tests in the one nor the order
  of the routes in the other matters. `FetchedOnce` follows what a trigger fetches to its answer,
  for every request (`NoFanOut`). A segment stands for a name: that percent-encodings are
  decoded, and that URL takes "\" for a slash, is not in the model. `Pathname` is a recursive function over the segments; what it gives is proved by
  a least counterexample (`LeastElement`, from `WFMin` of the library), which needs no
  induction theorem with an operator parameter.

### Hazards that a property names as its exception

Some hazards are what the code does. A property about them would be false, so the one next
to them says what holds beside them, and names the case: claims replaced after the ids wrap
(`AcknowledgedKept`) or by another decision (`DecisionsStick`); an error hidden by another
success (`ConsumerRecovers`); updates overtaken and copies raced (`CopiesKept`); events counted
again or unseen after a fault (`KeepQueues`, `EventuallyHandled`); discounts and accounts
that raced (`DiscountsCounted`, `OneAccount`); a table seeded twice (`Heals`); a baseline that
could not be read (`PassIsEarned`); an exhausted pool (`AnsweredUnlessExhausted`); overlapping
toggles (`EverySecondFails`); rounds after a signal (`OrderlyShutdown`). cache-go answers for a
notification that it could not send, so `AllOkMeansAllDone` leaves it out, and
`CachedIsAnnounced` asks for a notification in whatever order. `EveryRequestEnds` counts a
request as ended that its process cut off by ending. In `PROJECT.json` these hazards carry a
note, and those that no property catches have none listed.

### Only model-checked

Liveness (`EventuallyTried`, `Recovers`, `AnsweredIsProcessed`, `ConsumerRecovers`,
`QueuedIsHandled`, `EventuallyHandled`, `SentIsHandled`, `Heals`,
`AnsweredUnlessExhausted`, `EveryRequestEnds`, `EndsOrRecovers`): TLAPS has no rule here for
fairness and ENABLED.

Every invariant and action property of the passing runs is a theorem.

### Left out of the modelled components

Bodies, logs and delays, unless a property is about them. NodePayload: form fields inside
fields, files with fields of the same name, and bodies that outgrow a parser's limit between
the request and its echo (a multipart one then ends the process, by a `JSON.parse` that
nothing catches). NodeRoutes: the `server_kind` of the request
log, percent-encodings, "//" inside a path and "\". TailSampling: parameters that are no
number (Java answers them with 400) and the 60 s after which a hop of Python gives up; no
property depends on either. StackGateway: what the gateways of the
messaging and search stacks do inside (Messaging and SearchStack model that). Messaging and
SearchStack: reads that change nothing. SamplingMetrics: how a rule id is looked up (only
that it may fail), and the span assertions between trigger and deltas. StackCopies: that a
failing call to a store may have had its effect.

## 6. Plan

Order by how much of the system a module explains.

1. *Done*: Claims, GoKafka with GroupLog, PubSub, SelectList and SqlSchema in SqlQuery,
   StackGateway, RedisStack, Inventory and SearchStack in StackCopies, EventRelay,
   Messaging, TailSampling with SamplingMetrics, NodeServices with its services, and
   the refinements of WorkQueue.
2. **SpanQuery**: the query that the span runner builds from an expectation, as
   operators over small sets of spans, against the documented meaning of a match.
3. The Python and Java servers of head-sampling-http, beside NodeSampling; among them the
   outbound thread of Python, which an exception that is no URLError ends
   (`python/src/main.py:418`).
4. The composition of StackGateway with RedisStack and Messaging for one transaction.
5. Theorems about the modules of items 2 to 4.
