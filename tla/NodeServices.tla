---------------------------- MODULE NodeServices ----------------------------
(***************************************************************************)
(* The Node services side by side: a behaviour is the life of one          *)
(* container, of any service in any of its deployments.  Each service's    *)
(* module is instantiated over the variables of NodeProcess; what they     *)
(* share in the code (a server to close, calls to await, probes to answer) *)
(* is what the properties are about.                                       *)
(***************************************************************************)
EXTENDS NodeProcess

\* NodeRoutes: the spellings of its words with capitals.
CONSTANT Spelling

Grpc     == INSTANCE NodeGrpc     WITH Slot <- Slot, own <- own, job <- job, timers <- timers
Kafka    == INSTANCE NodeKafka    WITH Slot <- Slot, own <- own, job <- job, timers <- timers
Timers   == INSTANCE NodeTimers   WITH Slot <- Slot, own <- own, job <- job, timers <- timers
Sampling == INSTANCE NodeSampling WITH Slot <- Slot, own <- own, job <- job, timers <- timers
Routes   == INSTANCE NodeRoutes   WITH Slot <- Slot, own <- own, job <- job, timers <- timers
Accounts == INSTANCE NodeAccounts WITH Slot <- Slot, own <- own, job <- job, timers <- timers
Payload  == INSTANCE NodePayload  WITH Slot <- Slot, own <- own, job <- job, timers <- timers

\* The words are in lower case, and dots have no case.
ASSUME SpellingAssumption == DOMAIN Spelling \cap (Routes!RouteWords \union Routes!Dots) = {}

Deployments ==
  [name : {"grpc"}, server : {TRUE}, client : BOOLEAN, relay : BOOLEAN]
  \union [name : {"grpc"}, server : {FALSE}, client : {TRUE}, relay : {FALSE}]
  \union [name : {"kafka", "routes", "payload", "accounts", "queues", "httpserver"}]
  \union [name : {"sampling"}, slow : BOOLEAN, outbound : BOOLEAN]
  \union [name : {"agent"}, distro : BOOLEAN,
          scenario : {"stable"} \union Timers!CrashScenarios]
  \union [name : {"health"}, distro : {FALSE},
          scenario : {"ok", "live-ok-ready-fail", "live-fail", "crash-exit"}]
  \union [name : {"workload"}, distro : {FALSE}, scenario : {"server", "cron"}]

OnlyTimers == {"agent", "health", "workload"}

Init ==
  /\ app \in Deployments
  /\ own = CASE app.name = "grpc"       -> Grpc!GrpcStart(app)
             [] app.name = "kafka"      -> Kafka!KafkaStart
             [] app.name = "accounts"   -> Accounts!AccountsStart
             [] app.name = "sampling"   -> Sampling!SamplingStart
             [] app.name \in OnlyTimers -> Timers!TimersStart(app)
             [] OTHER                   -> [none |-> TRUE]
  /\ listening = ~ \/ app.name \in {"grpc", "accounts"}
                   \/ app.name = "workload" /\ app.scenario = "cron"
  /\ timers = IF app.name = "sampling" /\ app.outbound THEN {"loop"} ELSE {}
  /\ code = "none"
  /\ told = FALSE
  /\ job = [s \in Slot |-> Idle]
  /\ peer = TRUE
  /\ faults = 0
  /\ answer = NoReply

\* The services that depend on somebody else.
HasPeer == \/ app.name \in {"kafka", "accounts", "queues"}
           \/ app.name = "grpc" /\ ~app.server

\* The services that close a server when they end.
Closes == app.name \notin {"kafka", "accounts"}

Next ==
  \/ app.name = "grpc" /\ Grpc!GrpcNext
  \/ app.name = "kafka" /\ Kafka!KafkaNext
  \/ app.name = "sampling" /\ Sampling!SamplingNext
  \/ app.name = "routes" /\ Routes!RoutesNext
  \/ app.name = "payload" /\ Payload!PayloadNext
  \/ app.name = "accounts" /\ Accounts!AccountsNext
  \/ app.name = "queues" /\ Accounts!QueuesNext
  \/ app.name = "httpserver" /\ Timers!HttpServerNext
  \/ app.name \in OnlyTimers /\ Timers!TimersNext
  \/ HasPeer /\ (PeerFails \/ PeerReturns)
  \/ \E s \in Slot : Closes /\ (SlowClient(s) \/ SlowClientEnds(s))
  \/ Closes /\ Closed
  \/ Deadline

\* The event loop runs what is due: start-up, settled calls, callbacks and timers that
\* end the process.  Requests and faults need not come; the deadline of a shutdown is
\* not counted on, and neither is the kubelet's probe.
Settles(s) ==
  CASE app.name = "grpc"     -> Grpc!GrpcSettles(s) \/ SlowClientEnds(s)
    [] app.name = "kafka"    -> Kafka!SendSettles(s)
    [] app.name = "sampling" -> Sampling!SamplingCall(s) \/ SlowClientEnds(s)
    [] app.name = "routes"   -> Routes!FetchSettles(s) \/ SlowClientEnds(s)
    [] app.name = "accounts" -> Accounts!Register(s) \/ Accounts!Login(s)
    [] app.name = "queues"   -> Accounts!QueueSettles(s) \/ SlowClientEnds(s)
    [] app.name = "payload"  -> Payload!EchoSettles(s) \/ SlowClientEnds(s)
    [] OTHER                 -> SlowClientEnds(s)

Starts ==
  CASE app.name = "grpc"       -> Grpc!GrpcRuns
    [] app.name = "kafka"      -> Kafka!KafkaRuns
    [] app.name = "accounts"   -> Accounts!AccountsRuns
    [] app.name \in OnlyTimers -> Timers!TimersUp
    [] OTHER                   -> FALSE

Spec == Init /\ [][Next]_vars

FairSpec ==
  /\ Spec
  /\ \A s \in Slot : WF_vars(Settles(s))
  /\ WF_vars(Starts)
  /\ WF_vars(HasPeer /\ PeerReturns)
  /\ WF_vars(app.name = "kafka" /\ \E s \in Slot : Kafka!KafkaSend(s))
  /\ WF_vars(Closes /\ Closed)
  /\ WF_vars(app.name \in OnlyTimers /\ Timers!TimerExits)

-----------------------------------------------------------------------------
(* Properties *)

\* Whatever a process has accepted or sent ends, whether the other side answers,
\* refuses or goes away, and also while the process is closing: no handler waits for
\* good.  A request that the exit of its process cuts off counts as ended; which ends
\* may do that is OrderlyShutdown's question.
EveryRequestEnds == \A s \in Slot : (job[s] # Idle) ~> (job[s] = Idle)

\* Somebody has asked the process to end: SIGTERM, a crash scenario that finds the
\* distro when it starts, the exit of k8s-health, the end of the cron job.  A distro
\* that appears later is not among them: the watch marks it handled before it reacts.
Due ==
  \/ told
  \/ app.name = "agent" /\ app.scenario \in Timers!CrashScenarios /\ app.distro
  \/ app.name \in {"health", "workload"} /\ app.scenario \in {"crash-exit", "cron"}

\* Then it ends, without the ten-second deadline that only some services have.  And
\* whatever fails, a process that is not told recovers with its peer: nodejs/kafka is
\* healthy again once the broker answers, and the accounts are served once Postgres does.
EndsOrRecovers ==
  /\ Due ~> ~Alive
  /\ []<>(CASE app.name = "kafka"    -> told \/ Kafka!Healthy
           [] app.name = "accounts" -> told \/ listening
           [] OTHER                 -> TRUE)

\* Nothing else ends a process but the failure of its start or of its liveness probe,
\* and, in db-permissions-leak, a query that Postgres does not answer or the loss of a
\* connection that idles.
Explained ==
  \/ Due
  \/ code = "killed"
  \/ app.name = "accounts" /\ faults > 0
  \/ IF app.name \in {"grpc", "kafka"} THEN ~own.ready ELSE FALSE

\* A process ends for a reason, and one that exits with 0 cuts off no request it has
\* accepted; and SIGTERM ends the rounds of outbound calls, but for the first one of a
\* nodejs/grpc that is server and client, whose timer is not kept, and the loop its
\* start-up arms after the signal.
OrderlyShutdown ==
  [][ /\ (Alive /\ ~Alive') => Explained'
      /\ (Alive /\ code' = "0") => \A s \in Slot : ~Served(s)
      /\ (told /\ \E s \in Slot : job[s] = Idle /\ job'[s].does = "fire") =>
           /\ app.name = "grpc" /\ app.server
           /\ ~own.fired \/ own.late ]_vars

\* What the probes and the answers say is true, where the code makes it so.  A consumer of
\* nodejs/kafka whose start failed is shown by /healthz until a send succeeds; one that
\* crashes once it has started is never shown, and nothing is said of it here.  A
\* nodejs/grpc that is ready is up; the two kinds of probes of head-sampling agree; a
\* payload comes back as it went in, but for what a form cannot hold; and an address
\* that is registered has one account.
AnswersTrue ==
  /\ (app.name = "kafka" /\ Kafka!Healthy) => (own.consumer = "failed" => own.masked)
  /\ (app.name = "grpc" /\ Grpc!GrpcHealthy) => Grpc!GrpcUp
  /\ app.name = "sampling" => Sampling!ProbesAgree
  /\ app.name = "payload" => Payload!EchoIsIncoming
  /\ app.name = "accounts" => Accounts!OneAccount

\* The routes are the documented ones: see the two modules.
RoutedAsDocumented ==
  /\ app.name = "routes" => Routes!RoutedAlike
  /\ app.name = "sampling" => Sampling!OneRoute
=============================================================================
