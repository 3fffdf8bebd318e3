------------------------- MODULE NodeServicesProofs -------------------------
(***************************************************************************)
(* Proofs about the Node services, for any number of activities at once    *)
(* and any number of faults: SIGTERM cuts off no request and starts no     *)
(* round of calls, but for the ones that are named; the probes tell the    *)
(* truth; accounts are counted; the payload that came back is the one      *)
(* that came in, where it can be; and the routes are the documented ones,  *)
(* for every path and not only for the listed ones.                        *)
(***************************************************************************)
EXTENDS NodeServices, Sequences, FiniteSetTheorems, WellFoundedInduction, TLAPS

-----------------------------------------------------------------------------
(* What makes the properties inductive. *)

\* A slot holds a record with the fields of Idle.
JobTyped(s) ==
  job[s] = [does |-> job[s].does, req |-> job[s].req,
            left |-> job[s].left, refused |-> job[s].refused]

NodeTyped ==
  /\ app \in Deployments
  /\ listening \in BOOLEAN
  /\ job = [s \in Slot |-> job[s]]
  /\ \A s \in Slot : JobTyped(s)

\* A process that serves nobody accepts no connection.
Quiet == ~listening /\ \A s \in Slot : ~Served(s)

\* nodejs/grpc: what is armed belongs to the client, and after SIGTERM it is the first
\* round, or the loop of a start-up that the signal did not reach.
GrpcTyped ==
  own = [stage |-> own.stage, ready |-> own.ready, lastClientError |-> own.lastClientError,
         fired |-> own.fired, late |-> own.late]

GrpcSound ==
  /\ GrpcTyped /\ own.stage \in {"bind", "delay", "running"}
  /\ own.ready => own.stage = "running"
  /\ own.stage # "running" => timers \intersect {"first", "loop"} = {} /\ ~own.fired /\ ~own.late
  /\ "first" \in timers => ~own.fired
  /\ told /\ ~own.late => "loop" \notin timers
  /\ ~app.client => timers \intersect {"first", "loop"} = {}
  /\ ~app.server => Quiet /\ own.stage # "bind" /\ (told => ~Alive)
  /\ Alive /\ ~told /\ app.server /\ own.stage # "bind" => listening
  /\ Alive /\ ~told /\ app.client /\ own.stage = "running" => "loop" \in timers

\* nodejs/kafka: a consumer whose start failed leaves lastError set until a send succeeds.
KafkaOwn == [stage : {"connect", "delay", "first", "running"},
             consumer : {"none", "joining", "rejoining", "running", "failed", "crashed"},
             lastError : {"none", "consumer", "send"}, ready : BOOLEAN, masked : BOOLEAN]

KafkaSound ==
  /\ own \in KafkaOwn
  /\ own.consumer = "failed" /\ own.lastError = "none" => own.masked

\* workload-types: only the cron job ends by itself, and it serves nobody.
WorkloadSound ==
  /\ app.scenario = "cron" => Quiet
  /\ "crash" \in timers => app.scenario = "cron"
  /\ "watch" \notin timers

\* db-permissions-leak: whoever is about to insert has found nothing, and all but one
\* are counted.
Inserting == {s \in Slot : job[s].does = "register" /\ job[s].left = 1}

AccountsOwn == [stage : {"wait", "seed", "up"}, seeded : Nat, rows : Nat, raced : Nat]

AccountsSound ==
  /\ own \in AccountsOwn
  /\ \A s \in Slot : job[s].does = "register" => job[s].left \in 1 .. 3
  /\ IsFiniteSet(Inserting)
  /\ own.rows + Cardinality(Inserting) <= 1 + own.raced

ServiceSound ==
  /\ app.name = "grpc" => GrpcSound
  /\ app.name = "kafka" => KafkaSound
  /\ app.name = "sampling" => (told => "loop" \notin timers)
  /\ app.name = "workload" => WorkloadSound
  /\ app.name = "accounts" => AccountsSound
  /\ app.name = "payload" => Payload!EchoIsIncoming

NodeSound == NodeTyped /\ ServiceSound

\* What OrderlyShutdown says of a step.
Fires(s) == job[s] = Idle /\ job'[s].does = "fire"

NoneCut == (Alive /\ code' = "0") => \A s \in Slot : ~Served(s)

Calm == (told /\ \E s \in Slot : Fires(s)) =>
          /\ app.name = "grpc" /\ app.server
          /\ ~own.fired \/ own.late

-----------------------------------------------------------------------------
(* Slots, and the steps that change nothing else *)

Becomes(s, d, q, n, m) ==
  job' = [job EXCEPT ![s] = [does |-> d, req |-> q, left |-> n, refused |-> m]]

LEMMA SlotChanges ==
  ASSUME NodeTyped, NEW s \in Slot, NEW d, NEW q, NEW n, NEW m, Becomes(s, d, q, n, m)
  PROVE  /\ job' = [t \in Slot |-> job'[t]]
         /\ \A t \in Slot : JobTyped(t)'
         /\ job'[s] = [does |-> d, req |-> q, left |-> n, refused |-> m]
         /\ \A t \in Slot \ {s} : job'[t] = job[t]
<1>1. /\ job'[s] = [does |-> d, req |-> q, left |-> n, refused |-> m]
      /\ \A t \in Slot \ {s} : job'[t] = job[t]
      /\ job' = [t \in Slot |-> job'[t]]
  BY DEF NodeTyped, Becomes
<1>2. JobTyped(s)'
  BY <1>1 DEF JobTyped
<1>3. ASSUME NEW t \in Slot \ {s} PROVE JobTyped(t)'
  BY <1>1, <1>3 DEF NodeTyped, JobTyped
<1>. QED
  BY <1>1, <1>2, <1>3

\* A step of one slot cuts nothing off, and begins no round unless its slot does.
LEMMA SlotCalm ==
  ASSUME NEW s \in Slot, code' = code, \A t \in Slot \ {s} : job'[t] = job[t],
         ~told \/ job'[s].does # "fire" \/ job[s] # Idle
  PROVE  NoneCut /\ Calm
<1>1. NoneCut
  BY DEF NoneCut, Alive
<1>2. told => \A t \in Slot : ~Fires(t)
  BY DEF Fires, Idle
<1>. QED
  BY <1>1, <1>2 DEF Calm

\* The part of it that is the same for every service.
LEMMA SlotFrame ==
  ASSUME NodeTyped, NEW s \in Slot, NEW d, NEW q, NEW n, NEW m, Becomes(s, d, q, n, m),
         UNCHANGED <<app, code>>, listening' \in BOOLEAN,
         ~told \/ d # "fire" \/ job[s] # Idle
  PROVE  /\ NodeTyped' /\ NoneCut /\ Calm
         /\ job'[s] = [does |-> d, req |-> q, left |-> n, refused |-> m]
         /\ \A t \in Slot \ {s} : job'[t] = job[t]
<1>1. /\ job' = [t \in Slot |-> job'[t]]
      /\ \A t \in Slot : JobTyped(t)'
      /\ job'[s] = [does |-> d, req |-> q, left |-> n, refused |-> m]
      /\ \A t \in Slot \ {s} : job'[t] = job[t]
  BY SlotChanges
<1>2. NodeTyped'
  BY <1>1 DEF NodeTyped
<1>3. NoneCut /\ Calm
  BY <1>1, SlotCalm
<1>. QED
  BY <1>1, <1>2, <1>3

ServedKinds == {"outbound", "payload", "slow", "relay", "stream", "queue"}

\* A step of one slot that accepts a request only while the process listens, and
\* inserts nothing.
LEMMA SlotStep ==
  ASSUME NodeSound, NEW s \in Slot, NEW d, NEW q, NEW n, NEW m, Becomes(s, d, q, n, m),
         UNCHANGED <<app, own, listening, code, told, timers>>,
         ~told \/ d # "fire" \/ job[s] # Idle,
         d \in ServedKinds => listening \/ Served(s),
         d = "register" => n \in 2 .. 3,
         app.name = "payload" => Payload!EchoIsIncoming'
  PROVE  NodeSound' /\ NoneCut /\ Calm
<1>1. NodeTyped /\ listening' \in BOOLEAN
  BY DEF NodeSound, NodeTyped
<1>2. /\ NodeTyped' /\ NoneCut /\ Calm
      /\ job'[s] = [does |-> d, req |-> q, left |-> n, refused |-> m]
      /\ \A t \in Slot \ {s} : job'[t] = job[t]
  BY <1>1, SlotFrame
<1>3. /\ NodeTyped' /\ NoneCut /\ Calm
      /\ job'[s].does = d /\ job'[s].left = n
      /\ \A t \in Slot \ {s} : job'[t] = job[t]
  BY <1>2
<1>4. Quiet => Quiet'
  BY <1>3 DEF Quiet, Served, ServedKinds
<1>5. app.name = "grpc" => GrpcSound'
  BY <1>4 DEF NodeSound, ServiceSound, GrpcSound, GrpcTyped, Alive
<1>6. app.name = "kafka" => KafkaSound'
  BY DEF NodeSound, ServiceSound, KafkaSound
<1>7. app.name = "workload" => WorkloadSound'
  BY <1>4 DEF NodeSound, ServiceSound, WorkloadSound
<1>8. ASSUME app.name = "accounts" PROVE AccountsSound'
  <2>1. Inserting' \subseteq Inserting
    BY <1>3, <1>8 DEF Inserting
  <2>2. IsFiniteSet(Inserting') /\ Cardinality(Inserting') <= Cardinality(Inserting)
        /\ Cardinality(Inserting') \in Nat /\ Cardinality(Inserting) \in Nat
    BY <1>8, <2>1, FS_Subset, FS_CardinalityType DEF NodeSound, ServiceSound, AccountsSound
  <2>3. /\ own \in AccountsOwn /\ own.rows \in Nat /\ own.raced \in Nat
        /\ own.rows + Cardinality(Inserting) <= 1 + own.raced
    BY <1>8 DEF NodeSound, ServiceSound, AccountsSound, AccountsOwn
  <2>. QED
    BY <1>3, <1>8, <2>2, <2>3 DEF NodeSound, ServiceSound, AccountsSound
<1>. QED
  BY <1>3, <1>5, <1>6, <1>7, <1>8 DEF NodeSound, ServiceSound

\* A step that leaves the slots alone, and does not end the process.
LEMMA OwnStep ==
  ASSUME NodeSound, UNCHANGED <<app, code, job>>, listening' \in BOOLEAN, ServiceSound'
  PROVE  NodeSound' /\ NoneCut /\ Calm
<1>1. NodeTyped'
  BY DEF NodeSound, NodeTyped, JobTyped
<1>2. NoneCut /\ Calm
  BY DEF NoneCut, Alive, Calm, Fires, Idle
<1>. QED
  BY <1>1, <1>2 DEF NodeSound

\* ... and changes nothing of the process at all.
LEMMA FrameStep ==
  ASSUME NodeSound, UNCHANGED <<app, own, listening, code, told, timers, job, answer>>
  PROVE  NodeSound' /\ NoneCut /\ Calm
<1>1. ServiceSound'
  BY DEF NodeSound, ServiceSound, GrpcSound, GrpcTyped, KafkaSound, WorkloadSound, AccountsSound, Quiet,
     Served, Alive, Inserting, Payload!EchoIsIncoming
<1>. QED
  BY <1>1, OwnStep DEF NodeSound, NodeTyped

-----------------------------------------------------------------------------
(* The end of a process, and its environment *)

\* Nothing is armed, and nobody served, after an exit.
LEMMA ExitStep ==
  ASSUME NodeSound, NEW c, Exit(c), c # "none", UNCHANGED <<app, own, answer>>
  PROVE  NodeSound' /\ Calm
<1>1. /\ code' = c /\ listening' = FALSE /\ timers' = {}
      /\ \A s \in Slot : job'[s] = Idle
      /\ job' = [s \in Slot |-> job'[s]]
  BY DEF Exit
<1>2. \A s \in Slot : JobTyped(s)' /\ job'[s].does = "nothing"
  BY <1>1 DEF JobTyped, Idle
<1>3. NodeTyped'
  BY <1>1, <1>2 DEF NodeSound, NodeTyped
<1>4. Quiet'
  BY <1>1, <1>2 DEF Quiet, Served
<1>5. ~Alive'
  BY <1>1 DEF Alive
<1>6. app.name = "grpc" => GrpcSound'
  BY <1>1, <1>4, <1>5 DEF NodeSound, ServiceSound, GrpcSound, GrpcTyped
<1>7. app.name = "kafka" => KafkaSound'
  BY DEF NodeSound, ServiceSound, KafkaSound
<1>8. app.name = "workload" => WorkloadSound'
  BY <1>1, <1>4 DEF WorkloadSound
<1>9. ASSUME app.name = "accounts" PROVE AccountsSound'
  <2>1. Inserting' = {}
    BY <1>2 DEF Inserting
  <2>2. IsFiniteSet(Inserting') /\ Cardinality(Inserting') = 0
    BY <2>1, FS_EmptySet
  <2>3. /\ own \in AccountsOwn /\ own.rows \in Nat /\ own.raced \in Nat
        /\ IsFiniteSet(Inserting) /\ own.rows + Cardinality(Inserting) <= 1 + own.raced
    BY <1>9 DEF NodeSound, ServiceSound, AccountsSound, AccountsOwn
  <2>4. Cardinality(Inserting) \in Nat
    BY <2>3, FS_CardinalityType
  <2>. QED
    BY <1>2, <2>2, <2>3, <2>4 DEF AccountsSound
<1>10. app.name = "payload" => Payload!EchoIsIncoming'
  BY DEF NodeSound, ServiceSound, Payload!EchoIsIncoming
<1>11. Calm
  BY <1>2 DEF Calm, Fires
<1>. QED
  BY <1>1, <1>3, <1>6, <1>7, <1>8, <1>9, <1>10, <1>11 DEF NodeSound, ServiceSound

\* A process that exits with another code than 0 may cut off what it likes.
LEMMA ExitCuts ==
  ASSUME NEW c, Exit(c), c # "0"
  PROVE  NoneCut
BY DEF Exit, NoneCut

LEMMA SigtermStep ==
  ASSUME NodeSound, NEW deadline \in SUBSET {"deadline"}, NEW closes \in BOOLEAN,
         Sigterm(deadline, closes),
         ~closes => Quiet,
         app.name = "grpc" => (closes <=> app.server)
  PROVE  NodeSound' /\ NoneCut /\ Calm
<1>1. CASE ~closes
  <2>1. Exit("0") /\ UNCHANGED <<app, own, answer>>
    BY <1>1 DEF Sigterm
  <2>2. NoneCut
    BY <1>1 DEF NoneCut, Quiet
  <2>. QED
    BY <2>1, <2>2, ExitStep
<1>2. CASE closes
  <2>1. /\ Alive /\ ~told /\ told' = TRUE /\ listening' = FALSE
        /\ timers' = (timers \ {"loop"}) \union deadline
        /\ UNCHANGED <<app, own, code, job, answer>>
    BY <1>2 DEF Sigterm
  <2>2. /\ "loop" \notin timers'
        /\ \A name \in {"first", "crash", "watch"} : name \in timers' => name \in timers
    BY <2>1
  <2>3. NodeTyped'
    BY <2>1 DEF NodeSound, NodeTyped, JobTyped
  <2>4. Quiet => Quiet'
    BY <2>1 DEF Quiet, Served
  <2>5. app.name = "grpc" => GrpcSound'
    BY <1>2, <2>1, <2>2, <2>4 DEF NodeSound, ServiceSound, GrpcSound, GrpcTyped, Alive
  <2>6. app.name = "kafka" => KafkaSound'
    BY <2>1 DEF NodeSound, ServiceSound, KafkaSound
  <2>7. app.name = "workload" => WorkloadSound'
    BY <2>1, <2>2, <2>4 DEF NodeSound, ServiceSound, WorkloadSound
  <2>8. app.name = "accounts" => AccountsSound'
    BY <2>1 DEF NodeSound, ServiceSound, AccountsSound, Inserting
  <2>9. app.name = "payload" => Payload!EchoIsIncoming'
    BY <2>1 DEF NodeSound, ServiceSound, Payload!EchoIsIncoming
  <2>10. NoneCut /\ Calm
    BY <2>1 DEF NoneCut, Alive, Calm, Fires
  <2>. QED
    BY <2>1, <2>2, <2>3, <2>5, <2>6, <2>7, <2>8, <2>9, <2>10 DEF NodeSound, ServiceSound
<1>. QED
  BY <1>1, <1>2

LEMMA KilledStep ==
  ASSUME NodeSound, Killed
  PROVE  NodeSound' /\ NoneCut /\ Calm
<1>1. Exit("killed") /\ UNCHANGED <<app, own, answer>>
  BY DEF Killed
<1>. QED
  BY <1>1, ExitStep, ExitCuts

\* A slot is taken, counts down, or is given back.
LEMMA BeginStep ==
  ASSUME NodeSound, NEW s \in Slot, NEW d, NEW q, NEW n, Begin(s, d, q, n),
         UNCHANGED <<app, own, listening, code, told, timers, answer>>,
         d \in ServedKinds => listening, d # "fire", d = "register" => n \in 2 .. 3
  PROVE  NodeSound' /\ NoneCut /\ Calm
<1>1. Becomes(s, d, q, n, 0)
  BY DEF Begin, Becomes
<1>2. app.name = "payload" => Payload!EchoIsIncoming'
  BY DEF NodeSound, ServiceSound, Payload!EchoIsIncoming
<1>. QED
  BY <1>1, <1>2, SlotStep

CountsTo(s, n)         == job' = [job EXCEPT ![s] = [job[s] EXCEPT !.left = n]]
CountsRefusal(s, n, m) == job' = [job EXCEPT ![s] = [job[s] EXCEPT !.left = n, !.refused = m]]

LEMMA CountStep ==
  ASSUME NodeSound, NEW s \in Slot, NEW n, NEW m, job[s] # Idle, job[s].does = "register" => n \in 2 .. 3,
         CountsTo(s, n) \/ CountsRefusal(s, n, m),
         UNCHANGED <<app, own, listening, code, told, timers, answer>>
  PROVE  NodeSound' /\ NoneCut /\ Calm
<1>1. PICK d, q, k, r : job[s] = [does |-> d, req |-> q, left |-> k, refused |-> r]
  BY DEF NodeSound, NodeTyped, JobTyped
<1>2. job[s].does = d
  BY <1>1
<1>3. Becomes(s, d, q, n, r) \/ Becomes(s, d, q, n, m)
  <2>1. [job[s] EXCEPT !.left = n] = [does |-> d, req |-> q, left |-> n, refused |-> r]
    BY <1>1
  <2>2. [job[s] EXCEPT !.left = n, !.refused = m] = [[job[s] EXCEPT !.left = n] EXCEPT !.refused = m]
    OBVIOUS
  <2>3. [[does |-> d, req |-> q, left |-> n, refused |-> r] EXCEPT !.refused = m]
          = [does |-> d, req |-> q, left |-> n, refused |-> m]
    OBVIOUS
  <2>4. CASE CountsTo(s, n)
    BY <2>1, <2>4 DEF Becomes, CountsTo
  <2>5. CASE CountsRefusal(s, n, m)
    BY <2>1, <2>2, <2>3, <2>5 DEF Becomes, CountsRefusal
  <2>. QED
    BY <2>4, <2>5
<1>4. app.name = "payload" => Payload!EchoIsIncoming'
  BY DEF NodeSound, ServiceSound, Payload!EchoIsIncoming
<1>5. d \in ServedKinds => listening \/ Served(s)
  BY <1>2 DEF Served, ServedKinds
<1>6. (d # "fire" \/ job[s] # Idle) /\ (d = "register" => n \in 2 .. 3)
  BY <1>2
<1>. QED
  BY <1>3, <1>4, <1>5, <1>6, SlotStep

LEMMA EndStep ==
  ASSUME NodeSound, NEW s \in Slot, End(s), UNCHANGED <<app, own, listening, code, told, timers>>,
         app.name = "payload" => Payload!EchoIsIncoming'
  PROVE  NodeSound' /\ NoneCut /\ Calm
<1>1. Becomes(s, "nothing", <<>>, 0, 0)
  BY DEF End, Idle, Becomes
<1>. QED
  BY <1>1, SlotStep DEF ServedKinds

LEMMA EnvironmentStep ==
  ASSUME NodeSound,
         \/ PeerFails \/ PeerReturns \/ Deadline \/ Closed
         \/ \E s \in Slot : SlowClient(s) \/ SlowClientEnds(s)
  PROVE  NodeSound' /\ NoneCut /\ Calm
<1>1. CASE PeerFails \/ PeerReturns
  <2>1. UNCHANGED <<app, own, listening, code, told, timers, job, answer>>
    BY <1>1 DEF PeerFails, PeerReturns
  <2>. QED
    BY <2>1, FrameStep
<1>2. CASE Deadline
  <2>1. Exit("1") /\ UNCHANGED <<app, own, answer>>
    BY <1>2 DEF Deadline
  <2>. QED
    BY <2>1, ExitStep, ExitCuts
<1>3. CASE Closed
  <2>1. Exit("0") /\ UNCHANGED <<app, own, answer>>
    BY <1>3 DEF Closed
  <2>2. NoneCut
    BY <1>3 DEF Closed, NoneCut
  <2>. QED
    BY <2>1, <2>2, ExitStep
<1>4. ASSUME NEW s \in Slot, SlowClient(s) PROVE NodeSound' /\ NoneCut /\ Calm
  <2>1. /\ listening /\ Begin(s, "slow", <<>>, 1)
        /\ UNCHANGED <<app, own, listening, code, told, timers, answer>>
    BY <1>4 DEF SlowClient
  <2>. QED
    BY <2>1, BeginStep
<1>5. ASSUME NEW s \in Slot, SlowClientEnds(s) PROVE NodeSound' /\ NoneCut /\ Calm
  <2>1. End(s) /\ UNCHANGED <<app, own, listening, code, told, timers, answer>>
    BY <1>5 DEF SlowClientEnds
  <2>2. app.name = "payload" => Payload!EchoIsIncoming'
    BY <2>1 DEF NodeSound, ServiceSound, Payload!EchoIsIncoming
  <2>. QED
    BY <2>1, <2>2, EndStep
<1>. QED
  BY <1>1, <1>2, <1>3, <1>4, <1>5

-----------------------------------------------------------------------------
(* The services, one by one *)

LEMMA QueuesStep ==
  ASSUME NodeSound, app.name = "queues", Accounts!QueuesNext
  PROVE  NodeSound' /\ NoneCut /\ Calm
<1>1. CASE Accounts!Sigterm({"deadline"}, TRUE)
  <2>1. Sigterm({"deadline"}, TRUE)
    BY <1>1 DEF Accounts!Sigterm, Sigterm, Accounts!Exit, Exit, Accounts!Alive, Alive, Accounts!Idle,
                Idle
  <2>. QED
    BY <2>1, SigtermStep
<1>2. ASSUME NEW s \in Slot, Accounts!QueueRequest(s) PROVE NodeSound' /\ NoneCut /\ Calm
  <2>1. /\ listening /\ UNCHANGED <<app, own, listening, code, told, timers, answer>>
        /\ \E q : Begin(s, "queue", q, 1)
    BY <1>2 DEF Accounts!QueueRequest, Accounts!Begin, Begin, Accounts!Alive, Alive,
                Accounts!Idle, Idle
  <2>. QED
    BY <2>1, BeginStep
<1>3. ASSUME NEW s \in Slot, Accounts!QueueSettles(s) PROVE NodeSound' /\ NoneCut /\ Calm
  <2>1. End(s) /\ UNCHANGED <<app, own, listening, code, told, timers>>
    BY <1>3 DEF Accounts!QueueSettles, Accounts!Reply, Accounts!End, End, Accounts!Idle, Idle
  <2>. QED
    BY <2>1, EndStep
<1>. QED
  BY <1>1, <1>2, <1>3 DEF Accounts!QueuesNext

LEMMA RoutesStep ==
  ASSUME NodeSound, app.name = "routes", Routes!RoutesNext
  PROVE  NodeSound' /\ NoneCut /\ Calm
<1>1. CASE Routes!Sigterm({}, TRUE)
  <2>1. Sigterm({}, TRUE)
    BY <1>1 DEF Routes!Sigterm, Sigterm, Routes!Exit, Exit, Routes!Alive, Alive, Routes!Idle, Idle
  <2>. QED
    BY <2>1, SigtermStep
<1>2. ASSUME NEW s \in Slot, Routes!TriggerArrives(s) PROVE NodeSound' /\ NoneCut /\ Calm
  <2>1. /\ listening /\ UNCHANGED <<app, own, listening, code, told, timers, answer>>
        /\ \E q, n : Begin(s, "outbound", q, n)
    BY <1>2 DEF Routes!TriggerArrives, Routes!Begin, Begin, Routes!Alive, Alive, Routes!Idle, Idle
  <2>. QED
    BY <2>1, BeginStep
<1>3. ASSUME NEW s \in Slot, Routes!FetchSettles(s) PROVE NodeSound' /\ NoneCut /\ Calm
  <2>1. job[s].does = "outbound" /\ UNCHANGED <<app, own, listening, code, told, timers>>
    BY <1>3 DEF Routes!FetchSettles
  <2>2. CASE job[s].left > 1
    <3>1. PICK no : /\ job' = [job EXCEPT ![s].left = @ - 1, ![s].refused = @ + no]
                    /\ UNCHANGED answer
      BY <1>3, <2>2 DEF Routes!FetchSettles
    <3>2. CountsRefusal(s, job[s].left - 1, job[s].refused + no)
      BY <3>1 DEF CountsRefusal
    <3>3. job[s] # Idle /\ job[s].does # "register"
      BY <2>1 DEF Idle
    <3>. QED
      BY <2>1, <3>1, <3>2, <3>3, CountStep
  <2>3. CASE ~(job[s].left > 1)
    <3>1. End(s)
      BY <1>3, <2>3 DEF Routes!FetchSettles, Routes!End, End, Routes!Idle, Idle
    <3>. QED
      BY <2>1, <3>1, EndStep
  <2>. QED
    BY <2>2, <2>3
<1>. QED
  BY <1>1, <1>2, <1>3 DEF Routes!RoutesNext

LEMMA HttpServerStep ==
  ASSUME NodeSound, app.name = "httpserver", Timers!HttpServerNext
  PROVE  NodeSound' /\ NoneCut /\ Calm
<1>1. Sigterm({"deadline"}, TRUE)
  BY DEF Timers!HttpServerNext, Timers!Sigterm, Sigterm, Timers!Exit, Exit, Timers!Alive, Alive,
         Timers!Idle, Idle
<1>. QED
  BY <1>1, SigtermStep

\* What nodejs/httppayload keeps of a body.
Kept(kind, body) ==
  CASE kind = "json" -> TRUE
    [] kind = "form" -> \A k \in DOMAIN body : body[k] = Payload!Two \/ body[k].type = "string"
    [] kind = "multipart" -> \A k \in DOMAIN body : body[k].type = "string"
    [] OTHER -> body # Payload!Absent

\* The echo returns a body as it is if and only if it can be kept.
LEMMA EchoKeeps ==
  ASSUME NEW kind \in Payload!Kinds, NEW body \in Payload!Bodies(kind)
  PROVE  (Payload!Echo(kind, body) = body) <=> Kept(kind, body)
<1>1. CASE kind = "json"
  <2>1. Kept(kind, body)
    BY <1>1, Zenon DEF Kept
  <2>2. Payload!Echo(kind, body) = body
    BY <1>1, Zenon DEF Payload!Echo, Payload!Texts
  <2>. QED
    BY <2>1, <2>2
<1>2. CASE kind = "form"
  <2>1. Kept(kind, body) <=>
          \A k \in DOMAIN body : body[k] = Payload!Two \/ body[k].type = "string"
    BY <1>2, Zenon DEF Kept
  <2>2. Payload!Echo(kind, body) = Payload!FormEcho(body)
    BY <1>2, Zenon DEF Payload!Echo, Payload!Texts
  <2>3. body \in [{"a"} -> {Payload!Str("x"), Payload!Two, Payload!One, Payload!Val("object", "o")}]
                 \union [{} -> {Payload!Str("x")}]
    BY <1>2, Zenon DEF Payload!Bodies, Payload!Texts
  <2>4. ASSUME NEW k \in DOMAIN body
        PROVE  Payload!FormEcho(body)[k] = body[k]
                 <=> (body[k] = Payload!Two \/ body[k].type = "string")
    <3>1. body[k] \in {Payload!Str("x"), Payload!Two, Payload!One, Payload!Val("object", "o")}
      BY <2>3
    <3>. QED
      BY <3>1 DEF Payload!FormEcho, Payload!Str, Payload!Two, Payload!One, Payload!Val
  <2>5. body = [k \in DOMAIN body |-> body[k]]
    BY <2>3
  <2>6. Payload!FormEcho(body) = [k \in DOMAIN body |-> Payload!FormEcho(body)[k]]
    BY DEF Payload!FormEcho
  <2>. QED
    BY <2>1, <2>2, <2>4, <2>5, <2>6
<1>3. CASE kind = "multipart"
  <2>1. Kept(kind, body) <=> \A k \in DOMAIN body : body[k].type = "string"
    BY <1>3, Zenon DEF Kept
  <2>2. Payload!Echo(kind, body) = Payload!PartEcho(body)
    BY <1>3, Zenon DEF Payload!Echo, Payload!Texts
  <2>3. body \in [{"a"} -> {Payload!Str("x"), Payload!Two, Payload!One}]
                 \union [{"a", "file"} -> {Payload!Str("x"), Payload!Val("bytes", "b")}]
    BY <1>3, Zenon DEF Payload!Bodies, Payload!Texts
  <2>4. ASSUME NEW k \in DOMAIN body
        PROVE  Payload!PartEcho(body)[k] = body[k] <=> body[k].type = "string"
    <3>1. body[k] \in {Payload!Str("x"), Payload!Two, Payload!One, Payload!Val("bytes", "b")}
      BY <2>3
    <3>. QED
      BY <3>1 DEF Payload!PartEcho, Payload!Str, Payload!Two, Payload!One, Payload!Val
  <2>5. body = [k \in DOMAIN body |-> body[k]]
    BY <2>3
  <2>6. Payload!PartEcho(body) = [k \in DOMAIN body |-> Payload!PartEcho(body)[k]]
    BY DEF Payload!PartEcho
  <2>. QED
    BY <2>1, <2>2, <2>4, <2>5, <2>6
<1>4. CASE kind = "binary" \/ kind \in Payload!Texts
  <2>1. kind # "json" /\ kind # "form" /\ kind # "multipart"
    BY <1>4 DEF Payload!Texts
  <2>2. Kept(kind, body) <=> body # Payload!Absent
    BY <2>1, Zenon DEF Kept
  <2>3. body \in {Payload!Str("text"), Payload!Str("empty"), Payload!Val("bytes", "b"), Payload!Absent}
    BY <1>4, Zenon DEF Payload!Bodies, Payload!Texts
  <2>4. CASE body = Payload!Absent
    <3>1. body.type = "object"
      BY <2>4 DEF Payload!Absent, Payload!Val
    <3>2. PICK type : type = IF kind = "binary" THEN "bytes" ELSE "string"
      OBVIOUS
    <3>3. Payload!Echo(kind, body) = Payload!Val(type, "{}")
      BY <1>4, <2>1, <3>1, <3>2, Zenon DEF Payload!Echo
    <3>4. type # "object" /\ Payload!Val(type, "{}").type = type
      BY <3>2 DEF Payload!Val
    <3>. QED
      BY <2>2, <2>4, <3>1, <3>3, <3>4
  <2>5. CASE body # Payload!Absent
    <3>1. body.type # "object"
      BY <2>3, <2>5 DEF Payload!Str, Payload!Val
    <3>2. Payload!Echo(kind, body) = body
      BY <2>1, <3>1, Zenon DEF Payload!Echo, Payload!Texts
    <3>. QED
      BY <2>2, <2>5, <3>2
  <2>. QED
    BY <2>4, <2>5
<1>. QED
  BY <1>1, <1>2, <1>3, <1>4 DEF Payload!Kinds, Payload!Texts

LEMMA PayloadStep ==
  ASSUME NodeSound, app.name = "payload", Payload!PayloadNext
  PROVE  NodeSound' /\ NoneCut /\ Calm
<1>1. CASE Payload!Sigterm({"deadline"}, TRUE)
  <2>1. Sigterm({"deadline"}, TRUE)
    BY <1>1 DEF Payload!Sigterm, Sigterm, Payload!Exit, Exit, Payload!Alive, Alive, Payload!Idle, Idle
  <2>. QED
    BY <2>1, SigtermStep
<1>2. ASSUME NEW s \in Slot, Payload!PayloadArrives(s) PROVE NodeSound' /\ NoneCut /\ Calm
  <2>1. /\ listening /\ UNCHANGED <<app, own, listening, code, told, timers, answer>>
        /\ \E q : Begin(s, "payload", q, 1)
    BY <1>2 DEF Payload!PayloadArrives, Payload!Begin, Begin, Payload!Alive, Alive,
                Payload!Idle, Idle
  <2>. QED
    BY <2>1, BeginStep
<1>3. ASSUME NEW s \in Slot, Payload!EchoSettles(s) PROVE NodeSound' /\ NoneCut /\ Calm
  <2>1. End(s) /\ UNCHANGED <<app, own, listening, code, told, timers>>
    BY <1>3 DEF Payload!EchoSettles, Payload!End, End, Payload!Idle, Idle
  <2>2. PICK q : q = job[s].req
    OBVIOUS
  <2>3. /\ answer'.req = q
        /\ answer'.says = <<"200", Payload!Echo(q[1], q[2])>> \/ answer'.says = <<"502">>
    BY <1>3, <2>2 DEF Payload!EchoSettles
  <2>4. ASSUME answer'.req \in Payload!Requests, answer'.says[1] = "200"
        PROVE  (answer'.says[2] = answer'.req[2]) <=> Kept(answer'.req[1], answer'.req[2])
    <3>1. answer'.says[2] = Payload!Echo(q[1], q[2])
      BY <2>3, <2>4
    <3>2. q[1] \in Payload!Kinds /\ q[2] \in Payload!Bodies(q[1])
      BY <2>3, <2>4 DEF Payload!Requests
    <3>. QED
      BY <2>3, <3>1, <3>2, EchoKeeps
  <2>5. Payload!EchoIsIncoming'
    BY <2>4, Zenon DEF Payload!EchoIsIncoming, Kept
  <2>. QED
    BY <2>1, <2>5, EndStep
<1>. QED
  BY <1>1, <1>2, <1>3 DEF Payload!PayloadNext

LEMMA SamplingStep ==
  ASSUME NodeSound, app.name = "sampling", Sampling!SamplingNext
  PROVE  NodeSound' /\ NoneCut /\ Calm
<1>1. CASE Sampling!GrowsUp
  <2>1. UNCHANGED <<app, listening, code, told, timers, job, answer>>
    BY <1>1 DEF Sampling!GrowsUp
  <2>2. NodeTyped'
    BY <2>1 DEF NodeSound, NodeTyped, JobTyped
  <2>3. ServiceSound'
    BY <2>1 DEF NodeSound, ServiceSound
  <2>4. NoneCut /\ Calm
    BY <2>1 DEF NoneCut, Alive, Calm, Fires, Idle
  <2>. QED
    BY <2>2, <2>3, <2>4 DEF NodeSound
<1>2. CASE Sampling!Sigterm({"deadline"}, TRUE)
  <2>1. Sigterm({"deadline"}, TRUE)
    BY <1>2 DEF Sampling!Sigterm, Sigterm, Sampling!Exit, Exit, Sampling!Alive, Alive, Sampling!Idle,
                Idle
  <2>. QED
    BY <2>1, SigtermStep
<1>3. ASSUME NEW s \in Slot, Sampling!SamplingTick(s) PROVE NodeSound' /\ NoneCut /\ Calm
  <2>1. /\ "loop" \in timers
        /\ UNCHANGED <<app, own, listening, code, told, timers, answer>>
        /\ \E n : Becomes(s, "fire", <<>>, n, 0)
    BY <1>3 DEF Sampling!SamplingTick, Sampling!Begin, Becomes
  <2>2. ~told
    BY <2>1 DEF NodeSound, ServiceSound
  <2>3. app.name = "payload" => Payload!EchoIsIncoming'
    OBVIOUS
  <2>. QED
    BY <2>1, <2>2, <2>3, SlotStep DEF ServedKinds
<1>4. ASSUME NEW s \in Slot, Sampling!SamplingCall(s) PROVE NodeSound' /\ NoneCut /\ Calm
  <2>1. job[s].does = "fire" /\ UNCHANGED <<app, own, listening, code, told, timers, answer>>
    BY <1>4 DEF Sampling!SamplingCall
  <2>2. CASE job[s].left > 1
    <3>1. CountsTo(s, job[s].left - 1)
      BY <1>4, <2>2 DEF Sampling!SamplingCall, CountsTo
    <3>2. job[s] # Idle /\ job[s].does # "register"
      BY <2>1 DEF Idle
    <3>. QED
      BY <2>1, <3>1, <3>2, CountStep
  <2>3. CASE ~(job[s].left > 1)
    <3>1. End(s)
      BY <1>4, <2>3 DEF Sampling!SamplingCall, Sampling!End, End, Sampling!Idle, Idle
    <3>. QED
      BY <2>1, <3>1, EndStep
  <2>. QED
    BY <2>2, <2>3
<1>. QED
  BY <1>1, <1>2, <1>3, <1>4 DEF Sampling!SamplingNext

LEMMA TimersStep ==
  ASSUME NodeSound, app.name \in OnlyTimers, Timers!TimersNext
  PROVE  NodeSound' /\ NoneCut /\ Calm
<1>1. app.name # "workload" /\ app.name \in OnlyTimers =>
        (app' = app => ServiceSound')
  BY DEF ServiceSound, OnlyTimers
<1>2. ASSUME NEW o, Timers!ReactOn(o), UNCHANGED <<app, told, answer>>,
             app.name # "workload"
      PROVE  NodeSound' /\ NoneCut /\ Calm
  <2>1. \/ UNCHANGED <<code, listening, job>>
        \/ Exit("1")
    <3>1. \/ UNCHANGED <<code, listening, job>>
          \/ Timers!Exit("1")
      BY <1>2, Zenon DEF Timers!ReactOn
    <3>. QED
      BY <3>1 DEF Timers!Exit, Exit, Timers!Idle, Idle
  <2>2. CASE UNCHANGED <<code, listening, job>>
    BY <1>1, <1>2, <2>2, OwnStep DEF NodeSound, NodeTyped
  <2>3. CASE Exit("1")
    <3>1. NodeTyped' /\ Calm
      BY <1>2, <2>3 DEF NodeSound, NodeTyped, JobTyped, Exit, Idle, Calm, Fires
    <3>. QED
      BY <1>1, <1>2, <2>3, <3>1, ExitCuts DEF NodeSound
  <2>. QED
    BY <2>1, <2>2, <2>3
<1>3. CASE Timers!TimersUp
  <2>1. CASE app.name = "agent" /\ Timers!AgentUp
    <3>1. UNCHANGED <<app, told, answer>>
      BY <2>1 DEF Timers!AgentUp
    <3>2. CASE app.scenario \in Timers!CrashScenarios /\ ~own.distro
      BY <1>1, <2>1, <3>1, <3>2, OwnStep DEF Timers!AgentUp, NodeSound, NodeTyped
    <3>3. CASE ~(app.scenario \in Timers!CrashScenarios /\ ~own.distro)
      <4>1. \E o : Timers!ReactOn(o)
        BY <2>1, <3>3 DEF Timers!AgentUp
      <4>. QED
        BY <1>2, <2>1, <3>1, <4>1
    <3>. QED
      BY <3>2, <3>3
  <2>2. CASE app.name = "health" /\ Timers!HealthUp
    BY <1>1, <2>2, OwnStep DEF Timers!HealthUp, NodeSound, NodeTyped
  <2>3. CASE app.name = "workload" /\ Timers!WorkloadUp
    <3>1. UNCHANGED <<app, listening, code, told, job, answer>>
      BY <2>3 DEF Timers!WorkloadUp
    <3>2. ("crash" \in timers' => app.scenario = "cron") /\ "watch" \notin timers'
      BY <2>3 DEF Timers!WorkloadUp
    <3>3. ServiceSound'
      BY <2>3, <3>1, <3>2 DEF NodeSound, ServiceSound, WorkloadSound, Quiet, Served
    <3>. QED
      BY <3>1, <3>3, OwnStep DEF NodeSound, NodeTyped
  <2>. QED
    BY <1>3, <2>1, <2>2, <2>3 DEF Timers!TimersUp
<1>4. CASE Timers!Watch
  <2>1. (\E o : Timers!ReactOn(o)) /\ UNCHANGED <<app, told, answer>>
    BY <1>4 DEF Timers!Watch
  <2>2. app.name # "workload"
    BY <1>4 DEF Timers!Watch, NodeSound, ServiceSound, WorkloadSound
  <2>. QED
    BY <1>2, <2>1, <2>2
<1>5. CASE Timers!LateDistro
  BY <1>1, <1>5, OwnStep DEF Timers!LateDistro, NodeSound, NodeTyped
<1>6. CASE Timers!TimerExits
  <2>1. \E c \in {"0", "1", "42"} : Timers!Exit(c) /\ (c = "0" => app.name = "workload")
    <3>1. CASE app.name = "agent"
      <4>1. Timers!Exit("1")
        BY <1>6, <3>1, Zenon DEF Timers!TimerExits
      <4>. QED
        BY <4>1
    <3>2. CASE app.name = "health"
      <4>1. Timers!Exit("42")
        BY <1>6, <3>2, Zenon DEF Timers!TimerExits
      <4>. QED
        BY <4>1
    <3>3. CASE app.name = "workload"
      <4>1. Timers!Exit("0")
        BY <1>6, <3>3, Zenon DEF Timers!TimerExits
      <4>. QED
        BY <3>3, <4>1
    <3>. QED
      BY <3>1, <3>2, <3>3 DEF OnlyTimers
  <2>2. PICK c \in {"0", "1", "42"} : Exit(c) /\ (c = "0" => app.name = "workload")
    BY <2>1 DEF Timers!Exit, Exit, Timers!Idle, Idle
  <2>3. c # "none" /\ "crash" \in timers /\ UNCHANGED <<app, own, answer>>
    BY <1>6 DEF Timers!TimerExits
  <2>4. NoneCut
    <3>1. CASE c = "0"
      <4>1. Quiet
        BY <2>2, <2>3, <3>1 DEF NodeSound, ServiceSound, WorkloadSound
      <4>. QED
        BY <4>1 DEF Quiet, NoneCut
    <3>. QED
      BY <2>2, <3>1, ExitCuts
  <2>. QED
    BY <2>2, <2>3, <2>4, ExitStep
<1>7. CASE Timers!TimersSigterm
  <2>1. Killed \/ Sigterm({}, TRUE)
    BY <1>7 DEF Timers!TimersSigterm, Timers!Killed, Killed, Timers!Sigterm, Sigterm, Timers!Exit,
                Exit, Timers!Alive, Alive, Timers!Idle, Idle
  <2>2. app.name # "grpc"
    BY DEF OnlyTimers
  <2>. QED
    BY <2>1, <2>2, KilledStep, SigtermStep
<1>. QED
  BY <1>3, <1>4, <1>5, <1>6, <1>7 DEF Timers!TimersNext

\* nodejs/kafka: the steps of its own variables.
LEMMA KafkaOwnStep ==
  ASSUME KafkaSound,
         \/ own' = own
         \/ own' = Kafka!KafkaStart
         \/ own' = [own EXCEPT !.stage = "delay", !.consumer = "joining"]
         \/ \E next \in {"running", "rejoining", "crashed"} : own' = [own EXCEPT !.consumer = next]
         \/ own' = [own EXCEPT !.consumer = "failed", !.lastError = "consumer"]
         \/ own' = [own EXCEPT !.stage = "first"]
         \/ \E up \in BOOLEAN :
              own' = [own EXCEPT !.lastError = IF up THEN "none" ELSE "send",
                                 !.masked = @ \/ (up /\ own.consumer = "failed"),
                                 !.stage = "running", !.ready = TRUE]
  PROVE  KafkaSound'
<1>1. own \in KafkaOwn /\ (own.consumer = "failed" /\ own.lastError = "none" => own.masked)
  BY DEF KafkaSound
<1>2. CASE own' = own
  BY <1>2 DEF KafkaSound
<1>3. CASE own' = Kafka!KafkaStart
  BY <1>3 DEF KafkaSound, KafkaOwn, Kafka!KafkaStart
<1>4. CASE own' = [own EXCEPT !.stage = "delay", !.consumer = "joining"]
  BY <1>1, <1>4 DEF KafkaSound, KafkaOwn
<1>5. CASE \E next \in {"running", "rejoining", "crashed"} : own' = [own EXCEPT !.consumer = next]
  BY <1>1, <1>5 DEF KafkaSound, KafkaOwn
<1>6. CASE own' = [own EXCEPT !.consumer = "failed", !.lastError = "consumer"]
  BY <1>1, <1>6 DEF KafkaSound, KafkaOwn
<1>7. CASE own' = [own EXCEPT !.stage = "first"]
  BY <1>1, <1>7 DEF KafkaSound, KafkaOwn
<1>8. ASSUME NEW up \in BOOLEAN,
             own' = [own EXCEPT !.lastError = IF up THEN "none" ELSE "send",
                                !.masked = @ \/ (up /\ own.consumer = "failed"),
                                !.stage = "running", !.ready = TRUE]
      PROVE  KafkaSound'
  <2>1. PICK m \in BOOLEAN : m <=> own.masked \/ (up /\ own.consumer = "failed")
    OBVIOUS
  <2>2. PICK r \in BOOLEAN : r = TRUE
    OBVIOUS
  <2>3. PICK e \in {"none", "send"} : e = IF up THEN "none" ELSE "send"
    OBVIOUS
  <2>4. own' = [own EXCEPT !.lastError = e, !.masked = m, !.stage = "running", !.ready = r]
    BY <1>8, <2>1, <2>2, <2>3, Zenon
  <2>5. own' \in KafkaOwn /\ own'.consumer = own.consumer /\ own'.lastError = e /\ (own'.masked <=> m)
    BY <1>1, <2>4 DEF KafkaOwn
  <2>. QED
    BY <1>1, <2>1, <2>3, <2>5 DEF KafkaSound
<1>. QED
  BY <1>2, <1>3, <1>4, <1>5, <1>6, <1>7, <1>8

LEMMA KafkaStep ==
  ASSUME NodeSound, app.name = "kafka", Kafka!KafkaNext
  PROVE  NodeSound' /\ NoneCut /\ Calm
<1>1. KafkaSound
  BY DEF NodeSound, ServiceSound
<1>2. UNCHANGED app /\ KafkaSound' => ServiceSound'
  BY DEF ServiceSound
<1>3. CASE Kafka!Connect
  <2>1. CASE UNCHANGED <<code, listening, timers, job>>
    <3>1. UNCHANGED app /\ (own' = own \/ own' = [own EXCEPT !.stage = "delay", !.consumer = "joining"])
      BY <1>3, <2>1 DEF Kafka!Connect
    <3>. QED
      BY <1>1, <1>2, <2>1, <3>1, KafkaOwnStep, OwnStep DEF NodeSound, NodeTyped
  <2>2. CASE Exit("1") /\ UNCHANGED own
    <3>1. UNCHANGED <<app, own, answer>>
      BY <1>3, <2>2 DEF Kafka!Connect
    <3>. QED
      BY <2>2, <3>1, ExitStep, ExitCuts
  <2>3. UNCHANGED <<code, listening, timers, job>> \/ (Exit("1") /\ UNCHANGED own)
    BY <1>3 DEF Kafka!Connect, Kafka!Exit, Exit, Kafka!Idle, Idle
  <2>. QED
    BY <2>1, <2>2, <2>3
<1>4. CASE Kafka!ConsumerJoins \/ Kafka!ConsumerFails \/ Kafka!ConsumerCrashes
  <2>1. /\ UNCHANGED <<app, listening, code, told, timers, job, answer>>
        /\ \/ \E next \in {"running", "rejoining", "crashed"} : own' = [own EXCEPT !.consumer = next]
           \/ own' = [own EXCEPT !.consumer = "failed", !.lastError = "consumer"]
    BY <1>4 DEF Kafka!ConsumerJoins, Kafka!ConsumerFails, Kafka!ConsumerCrashes
  <2>. QED
    BY <1>1, <1>2, <2>1, KafkaOwnStep, OwnStep DEF NodeSound, NodeTyped
<1>5. CASE Kafka!Restarted
  <2>1. /\ UNCHANGED <<app, told, timers, job, answer>>
        /\ own' = Kafka!KafkaStart /\ listening' = TRUE /\ code' = "none"
    BY <1>5 DEF Kafka!Restarted
  <2>2. KafkaSound'
    BY <1>1, <2>1, KafkaOwnStep
  <2>3. NodeTyped'
    BY <2>1 DEF NodeSound, NodeTyped, JobTyped
  <2>4. NoneCut /\ Calm
    BY <2>1 DEF NoneCut, Calm, Fires, Idle
  <2>. QED
    BY <1>2, <2>1, <2>2, <2>3, <2>4 DEF NodeSound
<1>6. CASE Kafka!ProbeKills
  <2>1. Exit("killed") /\ UNCHANGED <<app, own, answer>>
    BY <1>6 DEF Kafka!ProbeKills, Kafka!Exit, Exit, Kafka!Idle, Idle
  <2>. QED
    BY <2>1, ExitStep, ExitCuts
<1>7. CASE Kafka!Killed
  <2>1. Killed
    BY <1>7 DEF Kafka!Killed, Killed, Kafka!Exit, Exit, Kafka!Alive, Alive, Kafka!Idle, Idle
  <2>. QED
    BY <2>1, KilledStep
<1>8. ASSUME NEW s \in Slot, Kafka!KafkaSend(s) PROVE NodeSound' /\ NoneCut /\ Calm
  <2>1. /\ UNCHANGED <<app, listening, code>>
        /\ own' = own \/ own' = [own EXCEPT !.stage = "first"]
        /\ Becomes(s, "send", <<>>, 1, 0)
    BY <1>8 DEF Kafka!KafkaSend, Kafka!Begin, Becomes
  <2>2. KafkaSound'
    BY <1>1, <2>1, KafkaOwnStep
  <2>3. NodeTyped' /\ NoneCut /\ Calm
    <3>1. NodeTyped /\ listening' \in BOOLEAN
      BY <2>1 DEF NodeSound, NodeTyped
    <3>. QED
      BY <2>1, <3>1, SlotFrame
  <2>. QED
    BY <1>2, <2>1, <2>2, <2>3 DEF NodeSound
<1>9. ASSUME NEW s \in Slot, Kafka!SendSettles(s) PROVE NodeSound' /\ NoneCut /\ Calm
  <2>1. UNCHANGED <<app, listening, code>> /\ Becomes(s, "nothing", <<>>, 0, 0)
    BY <1>9 DEF Kafka!SendSettles, Kafka!End, Kafka!Idle, Becomes
  <2>2. PICK up \in BOOLEAN : up <=> peer
    OBVIOUS
  <2>3. own' = [own EXCEPT !.lastError = IF up THEN "none" ELSE "send",
                           !.masked = @ \/ (up /\ own.consumer = "failed"),
                           !.stage = "running", !.ready = TRUE]
    BY <1>9, <2>2, Zenon DEF Kafka!SendSettles
  <2>4. KafkaSound'
    BY <1>1, <2>3, KafkaOwnStep
  <2>5. NodeTyped' /\ NoneCut /\ Calm
    <3>1. NodeTyped /\ listening' \in BOOLEAN
      BY <2>1 DEF NodeSound, NodeTyped
    <3>. QED
      BY <2>1, <3>1, SlotFrame
  <2>. QED
    BY <1>2, <2>1, <2>4, <2>5 DEF NodeSound
<1>. QED
  BY <1>3, <1>4, <1>5, <1>6, <1>7, <1>8, <1>9 DEF Kafka!KafkaNext, Kafka!KafkaRuns

\* nodejs/db-permissions-leak: the steps that leave the slots alone.
LEMMA AccountsOwnStep ==
  ASSUME AccountsSound, UNCHANGED job,
         \/ own' = own
         \/ \E stage \in {"wait", "seed", "up"} : own' = [own EXCEPT !.stage = stage]
         \/ own' = [own EXCEPT !.seeded = own.seeded + 1]
  PROVE  AccountsSound'
<1>1. own' \in AccountsOwn /\ own'.rows = own.rows /\ own'.raced = own.raced
  BY DEF AccountsSound, AccountsOwn
<1>2. Inserting' = Inserting
  BY DEF Inserting
<1>. QED
  BY <1>1, <1>2 DEF AccountsSound

\* Whoever finds nothing joins those who are about to insert, and is counted unless it
\* is the only one.
LEMMA FindsNothing ==
  ASSUME NodeSound, app.name = "accounts", NEW s \in Slot, CountsTo(s, 1),
         job[s].does = "register", job[s].left = 2, own.rows = 0,
         own' = IF \E o \in Slot : job[o].does = "register" /\ job[o].left = 1
                THEN [own EXCEPT !.raced = own.raced + 1] ELSE own,
         UNCHANGED <<app, listening, code>>
  PROVE  NodeSound' /\ NoneCut /\ Calm
<1>1. NodeTyped /\ listening' \in BOOLEAN /\ AccountsSound
  BY DEF NodeSound, NodeTyped, ServiceSound
<1>2. PICK q, k, r : job[s] = [does |-> "register", req |-> q, left |-> k, refused |-> r]
  BY <1>1 DEF NodeTyped, JobTyped
<1>3. Becomes(s, "register", q, 1, r)
  <2>1. [job[s] EXCEPT !.left = 1] = [does |-> "register", req |-> q, left |-> 1, refused |-> r]
    BY <1>2
  <2>. QED
    BY <2>1 DEF Becomes, CountsTo
<1>4. /\ NodeTyped' /\ NoneCut /\ Calm
      /\ job'[s] = [does |-> "register", req |-> q, left |-> 1, refused |-> r]
      /\ \A t \in Slot \ {s} : job'[t] = job[t]
  BY <1>1, <1>3, SlotFrame
<1>5. job'[s].does = "register" /\ job'[s].left = 1
  BY <1>4
<1>6. Inserting' = Inserting \union {s} /\ s \notin Inserting
  BY <1>4, <1>5 DEF Inserting
<1>7. IsFiniteSet(Inserting) /\ Cardinality(Inserting) \in Nat
  BY <1>1, FS_CardinalityType DEF AccountsSound
<1>8. IsFiniteSet(Inserting') /\ Cardinality(Inserting') = Cardinality(Inserting) + 1
  BY <1>6, <1>7, FS_AddElement
<1>9. own \in AccountsOwn /\ own.raced \in Nat
  BY <1>1 DEF AccountsSound, AccountsOwn
<1>10. own' \in AccountsOwn /\ own'.rows + Cardinality(Inserting') <= 1 + own'.raced
  <2>1. CASE Inserting = {}
    <3>1. own' = own /\ Cardinality(Inserting) = 0
      BY <2>1, FS_EmptySet DEF Inserting
    <3>. QED
      BY <1>8, <1>9, <3>1
  <2>2. CASE Inserting # {}
    <3>1. own' = [own EXCEPT !.raced = own.raced + 1]
      BY <2>2 DEF Inserting
    <3>2. own' \in AccountsOwn /\ own'.rows = own.rows /\ own'.raced = own.raced + 1
      BY <1>9, <3>1 DEF AccountsOwn
    <3>. QED
      BY <1>1, <1>7, <1>8, <1>9, <3>2 DEF AccountsSound
  <2>. QED
    BY <2>1, <2>2
<1>11. AccountsSound'
  BY <1>1, <1>4, <1>5, <1>8, <1>10 DEF AccountsSound
<1>. QED
  BY <1>4, <1>11 DEF NodeSound, ServiceSound

LEMMA Inserts ==
  ASSUME NodeSound, app.name = "accounts", NEW s \in Slot, End(s),
         job[s].does = "register", job[s].left = 1,
         own' = [own EXCEPT !.rows = own.rows + 1],
         UNCHANGED <<app, listening, code>>
  PROVE  NodeSound' /\ NoneCut /\ Calm
<1>1. NodeTyped /\ listening' \in BOOLEAN /\ AccountsSound
  BY DEF NodeSound, NodeTyped, ServiceSound
<1>2. Becomes(s, "nothing", <<>>, 0, 0)
  BY DEF End, Idle, Becomes
<1>3. /\ NodeTyped' /\ NoneCut /\ Calm
      /\ job'[s] = [does |-> "nothing", req |-> <<>>, left |-> 0, refused |-> 0]
      /\ \A t \in Slot \ {s} : job'[t] = job[t]
  BY <1>1, <1>2, SlotFrame
<1>4. job'[s].does = "nothing"
  BY <1>3
<1>5. Inserting' = Inserting \ {s} /\ s \in Inserting
  BY <1>3, <1>4 DEF Inserting
<1>6. IsFiniteSet(Inserting) /\ Cardinality(Inserting) \in Nat
  BY <1>1, FS_CardinalityType DEF AccountsSound
<1>7. IsFiniteSet(Inserting') /\ Cardinality(Inserting') = Cardinality(Inserting) - 1
  BY <1>5, <1>6, FS_RemoveElement
<1>8. own \in AccountsOwn /\ own.rows \in Nat /\ own.raced \in Nat
  BY <1>1 DEF AccountsSound, AccountsOwn
<1>9. own' \in AccountsOwn /\ own'.rows = own.rows + 1 /\ own'.raced = own.raced
  BY <1>8 DEF AccountsOwn
<1>10. own'.rows + Cardinality(Inserting') <= 1 + own'.raced
  BY <1>1, <1>6, <1>7, <1>8, <1>9 DEF AccountsSound
<1>11. AccountsSound'
  BY <1>1, <1>3, <1>4, <1>7, <1>9, <1>10 DEF AccountsSound
<1>. QED
  BY <1>3, <1>11 DEF NodeSound, ServiceSound

LEMMA AccountsStep ==
  ASSUME NodeSound, app.name = "accounts", Accounts!AccountsNext
  PROVE  NodeSound' /\ NoneCut /\ Calm
<1>1. AccountsSound
  BY DEF NodeSound, ServiceSound
<1>2. UNCHANGED app /\ AccountsSound' => ServiceSound'
  BY DEF ServiceSound
<1>3. CASE Accounts!WaitForPostgres \/ Accounts!InitDb
  <2>1. UNCHANGED <<app, answer>>
    BY <1>3 DEF Accounts!WaitForPostgres, Accounts!InitDb
  <2>2. CASE peer
    <3>1. CASE Accounts!WaitForPostgres
      <4>1. own' = [own EXCEPT !.stage = "seed"] /\ UNCHANGED <<code, listening, job>>
        BY <2>2, <3>1 DEF Accounts!WaitForPostgres
      <4>. QED
        BY <1>1, <1>2, <2>1, <4>1, AccountsOwnStep, OwnStep DEF NodeSound, NodeTyped
    <3>2. CASE Accounts!InitDb
      <4>1. /\ \/ own' = [own EXCEPT !.seeded = own.seeded + 1]
               \/ own' = [own EXCEPT !.stage = "up"]
            /\ UNCHANGED <<code, job>>
        BY <2>2, <3>2 DEF Accounts!InitDb
      <4>2. listening' \in BOOLEAN
        BY <2>2, <3>2, Zenon DEF Accounts!InitDb
      <4>. QED
        BY <1>1, <1>2, <2>1, <4>1, <4>2, AccountsOwnStep, OwnStep
    <3>. QED
      BY <1>3, <3>1, <3>2
  <2>3. CASE ~peer
    <3>1. Exit("1") /\ UNCHANGED own
      BY <1>3, <2>3 DEF Accounts!WaitForPostgres, Accounts!InitDb, Accounts!Exit, Exit,
                        Accounts!Idle, Idle
    <3>. QED
      BY <2>1, <3>1, ExitStep, ExitCuts
  <2>. QED
    BY <2>2, <2>3
<1>4. CASE Accounts!StartsAgain
  <2>1. /\ UNCHANGED <<app, listening, job>> /\ code' = "none"
        /\ own' = [own EXCEPT !.stage = "wait"]
    BY <1>4 DEF Accounts!StartsAgain
  <2>2. AccountsSound'
    BY <1>1, <2>1, AccountsOwnStep
  <2>3. NodeTyped'
    BY <2>1 DEF NodeSound, NodeTyped, JobTyped
  <2>4. NoneCut /\ Calm
    BY <2>1 DEF NoneCut, Calm, Fires, Idle
  <2>. QED
    BY <1>2, <2>1, <2>2, <2>3, <2>4 DEF NodeSound
<1>5. CASE Accounts!Killed
  <2>1. Killed
    BY <1>5 DEF Accounts!Killed, Killed, Accounts!Exit, Exit, Accounts!Alive, Alive, Accounts!Idle,
                Idle
  <2>. QED
    BY <2>1, KilledStep
<1>6. ASSUME NEW s \in Slot, Accounts!AccountRequest(s) PROVE NodeSound' /\ NoneCut /\ Calm
  <2>1. /\ listening /\ UNCHANGED <<app, own, listening, code, told, timers, answer>>
        /\ Begin(s, "register", <<"register">>, 3) \/ Begin(s, "login", <<"login">>, 2)
    BY <1>6 DEF Accounts!AccountRequest, Accounts!Begin, Begin, Accounts!Alive, Alive,
                Accounts!Idle, Idle
  <2>. QED
    BY <2>1, BeginStep
<1>7. ASSUME NEW s \in Slot, Accounts!Register(s) PROVE NodeSound' /\ NoneCut /\ Calm
  <2>1. /\ job[s].does = "register" /\ job[s].left \in 1 .. 3
        /\ UNCHANGED <<app, listening, code, told, timers>>
    BY <1>1, <1>7 DEF Accounts!Register, AccountsSound
  <2>2. own \in AccountsOwn /\ own.rows \in Nat
    BY <1>1 DEF AccountsSound, AccountsOwn
  <2>3. ASSUME Accounts!End(s), UNCHANGED own PROVE NodeSound' /\ NoneCut /\ Calm
    <3>1. End(s)
      BY <2>3 DEF Accounts!End, End, Accounts!Idle, Idle
    <3>. QED
      BY <2>1, <2>3, <3>1, EndStep
  <2>4. CASE ~peer
    BY <1>7, <2>3, <2>4, Zenon DEF Accounts!Register, Accounts!Reply
  <2>5. CASE peer /\ job[s].left = 3
    <3>1. job[s].left # 2 /\ job[s].left # 1
      BY <2>5
    <3>2. job' = [job EXCEPT ![s].left = 2] /\ UNCHANGED <<own, answer>>
      BY <1>7, <2>5, <3>1, Zenon DEF Accounts!Register
    <3>3. CountsTo(s, 2) /\ job[s] # Idle
      BY <2>1, <3>2 DEF CountsTo, Idle
    <3>. QED
      BY <2>1, <3>2, <3>3, CountStep
  <2>6. CASE peer /\ job[s].left = 2 /\ own.rows > 0
    <3>1. job[s].left # 3 /\ job[s].left # 1 /\ own.rows # 0
      BY <2>2, <2>6
    <3>. QED
      BY <1>7, <2>3, <2>6, <3>1, Zenon DEF Accounts!Register, Accounts!Reply
  <2>7. CASE peer /\ job[s].left = 2 /\ own.rows = 0
    <3>1. job[s].left # 3 /\ job[s].left # 1 /\ ~(own.rows > 0)
      BY <2>2, <2>7
    <3>2. /\ job' = [job EXCEPT ![s].left = 1]
          /\ own' = IF \E o \in Slot : job[o].does = "register" /\ job[o].left = 1
                    THEN [own EXCEPT !.raced = own.raced + 1] ELSE own
      BY <1>7, <2>7, <3>1, Zenon DEF Accounts!Register
    <3>3. CountsTo(s, 1)
      BY <3>2 DEF CountsTo
    <3>. QED
      BY <2>1, <2>7, <3>2, <3>3, FindsNothing
  <2>8. CASE peer /\ job[s].left = 1
    <3>1. job[s].left # 2 /\ job[s].left # 3
      BY <2>8
    <3>2. Accounts!End(s) /\ own' = [own EXCEPT !.rows = own.rows + 1]
      BY <1>7, <2>8, <3>1, Zenon DEF Accounts!Register, Accounts!Reply
    <3>3. End(s)
      BY <3>2 DEF Accounts!End, End, Accounts!Idle, Idle
    <3>. QED
      BY <2>1, <2>8, <3>2, <3>3, Inserts
  <2>. QED
    BY <2>1, <2>2, <2>4, <2>5, <2>6, <2>7, <2>8
<1>8. ASSUME NEW s \in Slot, Accounts!Login(s) PROVE NodeSound' /\ NoneCut /\ Calm
  <2>1. job[s].does = "login" /\ UNCHANGED <<app, own, told>>
    BY <1>8 DEF Accounts!Login
  <2>2. CASE ~peer
    <3>1. Exit("1") /\ UNCHANGED answer
      BY <1>8, <2>2 DEF Accounts!Login, Accounts!Exit, Exit, Accounts!Idle, Idle
    <3>. QED
      BY <2>1, <3>1, ExitStep, ExitCuts
  <2>3. CASE peer /\ job[s].left = 2
    <3>1. job' = [job EXCEPT ![s].left = 1] /\ UNCHANGED <<answer, code, listening, timers>>
      BY <1>8, <2>3 DEF Accounts!Login
    <3>2. CountsTo(s, 1) /\ job[s] # Idle
      BY <2>1, <3>1 DEF CountsTo, Idle
    <3>. QED
      BY <2>1, <3>1, <3>2, CountStep
  <2>4. CASE peer /\ job[s].left # 2
    <3>1. End(s) /\ UNCHANGED <<code, listening, timers>>
      BY <1>8, <2>4 DEF Accounts!Login, Accounts!Reply, Accounts!End, End, Accounts!Idle, Idle
    <3>. QED
      BY <2>1, <3>1, EndStep
  <2>. QED
    BY <2>2, <2>3, <2>4
<1>9. CASE Accounts!IdleClientLost
  <2>1. Exit("1") /\ UNCHANGED <<app, own, answer>>
    BY <1>9 DEF Accounts!IdleClientLost, Accounts!Exit, Exit, Accounts!Idle, Idle
  <2>. QED
    BY <2>1, ExitStep, ExitCuts
<1>. QED
  BY <1>3, <1>4, <1>5, <1>6, <1>7, <1>8, <1>9 DEF Accounts!AccountsNext, Accounts!AccountsRuns

LEMMA GrpcStep ==
  ASSUME NodeSound, app.name = "grpc", Grpc!GrpcNext
  PROVE  NodeSound' /\ NoneCut /\ Calm
<1>1. NodeTyped /\ GrpcSound
  BY DEF NodeSound, ServiceSound
<1>2. UNCHANGED app /\ GrpcSound' => ServiceSound'
  BY DEF ServiceSound
<1>3. PICK a, b, c, d, e : own = [stage |-> a, ready |-> b, lastClientError |-> c, fired |-> d, late |-> e]
  BY <1>1 DEF GrpcSound, GrpcTyped
<1>4. own.stage = a /\ own.ready = b /\ own.fired = d /\ own.late = e
  BY <1>3
<1>5. a \in {"bind", "delay", "running"}
  BY <1>1, <1>4 DEF GrpcSound
<1>6. CASE Grpc!Bind
  <2>1. /\ Alive /\ ~told /\ a = "bind" /\ own' = [own EXCEPT !.stage = "delay"]
        /\ listening' = TRUE /\ UNCHANGED <<app, code, told, timers, job, answer>>
    BY <1>4, <1>6 DEF Grpc!Bind, Grpc!Alive, Alive
  <2>2. own' = [stage |-> "delay", ready |-> b, lastClientError |-> c, fired |-> d, late |-> e]
    BY <1>3, <2>1
  <2>3. own'.stage = "delay" /\ own'.ready = b /\ own'.fired = d /\ own'.late = e /\ GrpcTyped'
    BY <2>2 DEF GrpcTyped
  <2>4. GrpcSound'
    BY <1>1, <1>4, <2>1, <2>3 DEF GrpcSound, Alive
  <2>. QED
    BY <1>2, <2>1, <2>4, OwnStep
<1>7. CASE Grpc!StartupOver
  <2>1. /\ a = "delay" /\ own' = [own EXCEPT !.stage = "running", !.ready = TRUE, !.late = told]
        /\ timers' = IF app.client THEN timers \union {"first", "loop"} ELSE timers
        /\ UNCHANGED <<app, listening, code, told, job, answer>>
    BY <1>4, <1>7 DEF Grpc!StartupOver
  <2>2. PICK r, l : r = TRUE /\ (l = told)
    OBVIOUS
  <2>3. own' = [own EXCEPT !.stage = "running", !.ready = r, !.late = l]
    BY <2>1, <2>2, Zenon
  <2>4. own' = [stage |-> "running", ready |-> r, lastClientError |-> c, fired |-> d, late |-> l]
    BY <1>3, <2>3
  <2>5. own'.stage = "running" /\ own'.fired = d /\ own'.late = l /\ GrpcTyped'
    BY <2>4 DEF GrpcTyped
  <2>6. own'.late = told
    BY <2>2, <2>5
  <2>7. GrpcSound'
    BY <1>1, <1>4, <2>1, <2>5, <2>6 DEF GrpcSound, Alive, Quiet, Served
  <2>. QED
    BY <1>1, <1>2, <2>1, <2>7, OwnStep DEF NodeTyped
<1>8. CASE Grpc!BindFails
  <2>1. Exit("1") /\ UNCHANGED <<app, own, answer>>
    BY <1>8 DEF Grpc!BindFails, Grpc!Exit, Exit, Grpc!Idle, Idle
  <2>. QED
    BY <2>1, ExitStep, ExitCuts
<1>9. CASE Grpc!GrpcSigterm
  <2>1. PICK closes \in BOOLEAN : closes <=> app.server
    OBVIOUS
  <2>2. Sigterm({"deadline"}, closes)
    BY <1>9, <2>1 DEF Grpc!GrpcSigterm, Grpc!Sigterm, Sigterm, Grpc!Exit, Exit, Grpc!Alive, Alive,
                      Grpc!Idle, Idle
  <2>3. ~closes => Quiet
    BY <1>1, <2>1 DEF GrpcSound
  <2>. QED
    BY <2>1, <2>2, <2>3, SigtermStep
<1>10. ASSUME NEW s \in Slot, Grpc!GrpcTick(s) PROVE NodeSound' /\ NoneCut /\ Calm
  <2>1. /\ Alive /\ Becomes(s, "fire", <<>>, 4, 0)
        /\ own' = [own EXCEPT !.fired = TRUE] /\ UNCHANGED <<app, listening, code, told, answer>>
        /\ \/ "first" \in timers /\ timers' = timers \ {"first"}
           \/ "first" \notin timers /\ "loop" \in timers /\ timers' = timers
    BY <1>10 DEF Grpc!GrpcTick, Grpc!Begin, Becomes, Grpc!Alive, Alive
  <2>2. PICK f : f = TRUE
    OBVIOUS
  <2>3. own' = [own EXCEPT !.fired = f]
    BY <2>1, <2>2, Zenon
  <2>4. own' = [stage |-> a, ready |-> b, lastClientError |-> c, fired |-> f, late |-> e]
    BY <1>3, <2>3
  <2>5. own'.stage = a /\ own'.ready = b /\ own'.late = e /\ GrpcTyped'
    BY <2>4 DEF GrpcTyped
  <2>6. /\ job' = [t \in Slot |-> job'[t]] /\ \A t \in Slot : JobTyped(t)'
        /\ job'[s] = [does |-> "fire", req |-> <<>>, left |-> 4, refused |-> 0]
        /\ \A t \in Slot \ {s} : job'[t] = job[t]
    BY <1>1, <2>1, SlotChanges
  <2>7. NodeTyped'
    BY <1>1, <2>1, <2>6 DEF NodeTyped
  <2>8. Quiet => Quiet'
    <3>1. job'[s].does = "fire"
      BY <2>6
    <3>. QED
      BY <2>1, <2>6, <3>1 DEF Quiet, Served
  <2>9. a = "running" /\ "first" \notin timers' /\ ("loop" \in timers' <=> "loop" \in timers)
    BY <1>1, <1>4, <1>5, <2>1 DEF GrpcSound
  <2>10. timers' \subseteq timers
    BY <2>1
  <2>11. GrpcSound'
    BY <1>1, <1>4, <2>1, <2>5, <2>8, <2>9, <2>10 DEF GrpcSound, Alive
  <2>12. told => app.server /\ (~own.fired \/ own.late)
    BY <1>1, <2>1 DEF GrpcSound
  <2>13. NoneCut /\ Calm
    BY <2>1, <2>12 DEF NoneCut, Alive, Calm
  <2>. QED
    BY <1>2, <2>1, <2>7, <2>11, <2>13 DEF NodeSound
<1>11. ASSUME NEW s \in Slot, Grpc!GrpcCall(s) PROVE NodeSound' /\ NoneCut /\ Calm
  <2>1. job[s].does = "fire" /\ UNCHANGED <<app, listening, code, told, timers, answer>>
    BY <1>11 DEF Grpc!GrpcCall
  <2>2. \/ job' = [job EXCEPT ![s].left = @ - 1] /\ UNCHANGED own
        \/ End(s) /\ \E f \in BOOLEAN : own' = [own EXCEPT !.lastClientError = f]
    <3>1. PICK ok : IF ok /\ job[s].left > 1
                    THEN job' = [job EXCEPT ![s].left = @ - 1] /\ UNCHANGED own
                    ELSE End(s) /\ own' = [own EXCEPT !.lastClientError = ~ok]
      BY <1>11 DEF Grpc!GrpcCall, Grpc!End, End, Grpc!Idle, Idle
    <3>2. PICK f \in BOOLEAN : f = ~ok
      BY Zenon
    <3>. QED
      BY <3>1, <3>2, Zenon
  <2>3. CASE job' = [job EXCEPT ![s].left = @ - 1] /\ UNCHANGED own
    <3>1. CountsTo(s, job[s].left - 1) /\ job[s] # Idle /\ job[s].does # "register"
      BY <2>1, <2>3 DEF CountsTo, Idle
    <3>. QED
      BY <2>1, <2>3, <3>1, CountStep
  <2>4. CASE End(s) /\ \E f \in BOOLEAN : own' = [own EXCEPT !.lastClientError = f]
    <3>1. PICK f : own' = [own EXCEPT !.lastClientError = f]
      BY <2>4
    <3>2. own' = [stage |-> a, ready |-> b, lastClientError |-> f, fired |-> d, late |-> e]
      BY <1>3, <3>1
    <3>3. own'.stage = a /\ own'.ready = b /\ own'.fired = d /\ own'.late = e /\ GrpcTyped'
      BY <3>2 DEF GrpcTyped
    <3>4. Becomes(s, "nothing", <<>>, 0, 0) /\ listening' \in BOOLEAN
      BY <1>1, <2>1, <2>4 DEF End, Idle, Becomes, NodeTyped
    <3>5. /\ NodeTyped' /\ NoneCut /\ Calm
          /\ job'[s] = [does |-> "nothing", req |-> <<>>, left |-> 0, refused |-> 0]
          /\ \A t \in Slot \ {s} : job'[t] = job[t]
      BY <1>1, <2>1, <3>4, SlotFrame
    <3>6. Quiet => Quiet'
      <4>1. job'[s].does = "nothing"
        BY <3>5
      <4>. QED
        BY <2>1, <3>5, <4>1 DEF Quiet, Served
    <3>7. GrpcSound'
      BY <1>1, <1>4, <2>1, <3>3, <3>6 DEF GrpcSound, Alive
    <3>. QED
      BY <1>2, <2>1, <3>5, <3>7 DEF NodeSound
  <2>. QED
    BY <2>2, <2>3, <2>4
<1>12. ASSUME NEW s \in Slot, Grpc!GrpcRequest(s) PROVE NodeSound' /\ NoneCut /\ Calm
  <2>1. /\ listening /\ UNCHANGED <<app, own, listening, code, told, timers, answer>>
        /\ \/ Begin(s, "relay", <<"Relay">>, 1)
           \/ Begin(s, "stream", <<"StreamNumbers">>, 2)
    BY <1>12 DEF Grpc!GrpcRequest, Grpc!Begin, Begin, Grpc!Alive, Alive, Grpc!Idle, Idle
  <2>. QED
    BY <2>1, BeginStep
<1>13. ASSUME NEW s \in Slot, Grpc!RelayReplies(s) PROVE NodeSound' /\ NoneCut /\ Calm
  <2>1. End(s) /\ UNCHANGED <<app, own, listening, code, told, timers>>
    BY <1>13 DEF Grpc!RelayReplies, Grpc!End, End, Grpc!Idle, Idle
  <2>. QED
    BY <2>1, EndStep
<1>14. ASSUME NEW s \in Slot, Grpc!StreamTick(s) PROVE NodeSound' /\ NoneCut /\ Calm
  <2>1. job[s].does = "stream" /\ UNCHANGED <<app, own, listening, code, told, timers, answer>>
    BY <1>14 DEF Grpc!StreamTick
  <2>2. CountsTo(s, job[s].left - 1) \/ End(s)
    BY <1>14 DEF Grpc!StreamTick, CountsTo, Grpc!End, End, Grpc!Idle, Idle
  <2>3. job[s] # Idle /\ job[s].does # "register"
    BY <2>1 DEF Idle
  <2>. QED
    BY <2>1, <2>2, <2>3, CountStep, EndStep
<1>. QED
  BY <1>6, <1>7, <1>8, <1>9, <1>10, <1>11, <1>12, <1>13, <1>14
     DEF Grpc!GrpcNext, Grpc!GrpcRuns, Grpc!GrpcSettles

-----------------------------------------------------------------------------
(* The whole *)

LEMMA NodeStep ==
  ASSUME NodeSound, Next
  PROVE  NodeSound' /\ NoneCut /\ Calm
BY GrpcStep, KafkaStep, SamplingStep, RoutesStep, PayloadStep, AccountsStep, QueuesStep,
   HttpServerStep, TimersStep, EnvironmentStep DEF Next

LEMMA NodeStutters ==
  ASSUME NodeSound, UNCHANGED vars
  PROVE  NodeSound'
BY FrameStep DEF vars

LEMMA NodeStarts == Init => NodeSound
<1>. SUFFICES ASSUME Init PROVE NodeSound
  OBVIOUS
<1>1. /\ app \in Deployments /\ listening \in BOOLEAN
      /\ job = [s \in Slot |-> Idle] /\ told = FALSE /\ answer = NoReply /\ code = "none"
  BY Zenon DEF Init
<1>2. ASSUME app.name \notin OnlyTimers
      PROVE  /\ app.name = "grpc" => own = Grpc!GrpcStart(app)
             /\ app.name = "kafka" => own = Kafka!KafkaStart
             /\ app.name = "accounts" => own = Accounts!AccountsStart
  BY <1>2, Zenon DEF Init
<1>3. \A s \in Slot : job[s] = Idle /\ job[s].does = "nothing" /\ JobTyped(s)
  BY <1>1 DEF Idle, JobTyped
<1>4. NodeTyped
  BY <1>1, <1>3 DEF NodeTyped
<1>5. app.name # "sampling" => timers = {}
  BY DEF Init
<1>6. app.name = "grpc" => GrpcSound
  <2>1. SUFFICES ASSUME app.name = "grpc" PROVE GrpcSound
    OBVIOUS
  <2>2. own = Grpc!GrpcStart(app)
    BY <1>2, <2>1 DEF OnlyTimers
  <2>3. listening = FALSE
    BY <2>1 DEF Init
  <2>. QED
    BY <1>1, <1>3, <1>5, <2>1, <2>2, <2>3 DEF GrpcSound, GrpcTyped, Grpc!GrpcStart, Quiet, Served
<1>7. app.name = "kafka" => KafkaSound
  <2>1. SUFFICES ASSUME app.name = "kafka" PROVE KafkaSound
    OBVIOUS
  <2>2. own = Kafka!KafkaStart
    BY <1>2, <2>1 DEF OnlyTimers
  <2>. QED
    BY <2>2 DEF KafkaSound, KafkaOwn, Kafka!KafkaStart
<1>8. app.name = "workload" => WorkloadSound
  BY <1>3, <1>5 DEF Init, WorkloadSound, Quiet, Served
<1>9. app.name = "accounts" => AccountsSound
  <2>1. SUFFICES ASSUME app.name = "accounts" PROVE AccountsSound
    OBVIOUS
  <2>2. own = Accounts!AccountsStart
    BY <1>2, <2>1 DEF OnlyTimers
  <2>3. Inserting = {} /\ \A s \in Slot : job[s].does # "register"
    BY <1>3 DEF Inserting
  <2>4. IsFiniteSet(Inserting) /\ Cardinality(Inserting) = 0
    BY <2>3, FS_EmptySet
  <2>. QED
    BY <2>2, <2>3, <2>4 DEF AccountsSound, AccountsOwn, Accounts!AccountsStart
<1>10. Payload!EchoIsIncoming
  BY <1>1 DEF Payload!EchoIsIncoming, NoReply, Payload!Requests
<1>. QED
  BY <1>1, <1>4, <1>6, <1>7, <1>8, <1>9, <1>10 DEF NodeSound, ServiceSound

-----------------------------------------------------------------------------
(* Why a process ends *)

\* agent-stability: the distro that is there at start-up is the one the process reacts
\* to; health and workload: who arms the exit.
AgentSound ==
  /\ own = [up |-> own.up, distro |-> own.distro, instrumentationHandled |-> own.instrumentationHandled]
  /\ ~own.up => own.distro = app.distro
  /\ "crash" \in timers => app.scenario \in Timers!CrashScenarios /\ app.distro

EndSound ==
  /\ faults \in Nat
  /\ ~peer => faults > 0
  /\ "deadline" \in timers => told
  /\ app.name = "kafka" => (own.stage = "connect" => ~own.ready)
  /\ app.name = "agent" => AgentSound
  /\ app.name = "health" => /\ "watch" \notin timers
                            /\ "crash" \in timers => app.scenario = "crash-exit"

\* What OrderlyShutdown says of the end.
EndExplained == (Alive /\ ~Alive') => Explained'

\* A fault, or the return of the peer.
Tallies ==
  \/ UNCHANGED <<peer, faults>>
  \/ Fault /\ peer' \in {peer, FALSE}
  \/ peer' = TRUE /\ UNCHANGED faults

LEMMA TallyStep ==
  ASSUME EndSound, Tallies
  PROVE  faults' \in Nat /\ (~peer' => faults' > 0)
<1>1. faults \in Nat /\ (~peer => faults > 0)
  BY DEF EndSound
<1>2. CASE UNCHANGED <<peer, faults>>
  BY <1>1, <1>2
<1>3. CASE Fault /\ peer' \in {peer, FALSE}
  BY <1>1, <1>3 DEF Fault
<1>4. CASE peer' = TRUE /\ UNCHANGED faults
  BY <1>1, <1>4
<1>. QED
  BY <1>2, <1>3, <1>4 DEF Tallies

\* Steps that end nothing and arm nothing.
LEMMA EndFrame ==
  ASSUME EndSound, UNCHANGED <<app, own, code>>, timers' \subseteq timers, told => told', Tallies
  PROVE  EndSound' /\ EndExplained
<1>1. faults' \in Nat /\ (~peer' => faults' > 0)
  BY TallyStep
<1>2. EndSound'
  BY <1>1 DEF EndSound, AgentSound
<1>. QED
  BY <1>2 DEF EndExplained, Alive

LEMMA EndExit ==
  ASSUME EndSound, NEW c, Exit(c), UNCHANGED <<app, own>>, Tallies, Explained'
  PROVE  EndSound' /\ EndExplained
<1>1. faults' \in Nat /\ (~peer' => faults' > 0)
  BY TallyStep
<1>2. timers' = {}
  BY DEF Exit
<1>3. EndSound'
  BY <1>1, <1>2 DEF EndSound, AgentSound
<1>. QED
  BY <1>3 DEF EndExplained

LEMMA EndSigterm ==
  ASSUME EndSound, NEW deadline \in SUBSET {"deadline"}, NEW closes, Sigterm(deadline, closes)
  PROVE  EndSound' /\ EndExplained
<1>1. told' = TRUE /\ UNCHANGED <<app, own, peer, faults>>
  BY DEF Sigterm
<1>2. EndExplained
  BY <1>1 DEF EndExplained, Explained, Due
<1>3. timers' = {} \/ timers' \subseteq timers \union {"deadline"}
  BY DEF Sigterm, Exit
<1>4. EndSound'
  BY <1>1, <1>3 DEF EndSound, AgentSound
<1>. QED
  BY <1>2, <1>4

LEMMA EndKilled ==
  ASSUME EndSound, Killed
  PROVE  EndSound' /\ EndExplained
<1>1. Exit("killed") /\ UNCHANGED <<app, own, peer, faults>>
  BY DEF Killed
<1>2. Explained' /\ Tallies
  BY <1>1 DEF Exit, Explained, Tallies
<1>. QED
  BY <1>1, <1>2, EndExit

LEMMA EndGrpc ==
  ASSUME NodeSound, EndSound, app.name = "grpc", Grpc!GrpcNext
  PROVE  EndSound' /\ EndExplained
<1>1. GrpcSound
  BY DEF NodeSound, ServiceSound
<1>2. CASE Grpc!BindFails
  <2>1. /\ Exit("1") /\ UNCHANGED <<app, own>> /\ Fault /\ peer' = peer /\ own.stage = "bind"
    BY <1>2 DEF Grpc!BindFails, Grpc!Exit, Exit, Grpc!Idle, Idle, Grpc!Fault, Fault
  <2>2. Explained' /\ Tallies
    BY <1>1, <2>1 DEF GrpcSound, Explained, Tallies
  <2>. QED
    BY <2>1, <2>2, EndExit
<1>3. CASE Grpc!GrpcSigterm
  <2>1. Sigterm({"deadline"}, app.server)
    BY <1>3 DEF Grpc!GrpcSigterm, Grpc!Sigterm, Sigterm, Grpc!Exit, Exit, Grpc!Alive, Alive,
                Grpc!Idle, Idle
  <2>. QED
    BY <2>1, EndSigterm
<1>4. ASSUME \/ Grpc!Bind \/ Grpc!StartupOver
             \/ \E s \in Slot : Grpc!GrpcTick(s) \/ Grpc!GrpcRequest(s) \/ Grpc!GrpcSettles(s)
      PROVE  EndSound' /\ EndExplained
  <2>1. /\ UNCHANGED <<app, code, told, peer, faults>>
        /\ timers' \subseteq timers \union {"first", "loop"}
    BY <1>4 DEF Grpc!Bind, Grpc!StartupOver, Grpc!GrpcTick, Grpc!GrpcRequest, Grpc!GrpcSettles,
                Grpc!GrpcCall, Grpc!RelayReplies, Grpc!StreamTick
  <2>. QED
    BY <2>1 DEF EndSound, EndExplained, Alive
<1>. QED
  BY <1>2, <1>3, <1>4 DEF Grpc!GrpcNext, Grpc!GrpcRuns

LEMMA EndKafka ==
  ASSUME NodeSound, EndSound, app.name = "kafka", Kafka!KafkaNext
  PROVE  EndSound' /\ EndExplained
<1>1. own \in KafkaOwn
  BY DEF NodeSound, ServiceSound, KafkaSound
<1>2. CASE Kafka!Connect
  <2>1. CASE peer
    <3>1. /\ UNCHANGED <<app, code, timers, told, peer, faults>>
          /\ own' = [own EXCEPT !.stage = "delay", !.consumer = "joining"]
      BY <1>2, <2>1 DEF Kafka!Connect
    <3>2. own'.stage = "delay"
      BY <1>1, <3>1 DEF KafkaOwn
    <3>. QED
      BY <3>1, <3>2 DEF EndSound, EndExplained, Alive
  <2>2. CASE ~peer
    <3>1. Exit("1") /\ own.stage = "connect" /\ UNCHANGED <<app, own, peer, faults>>
      BY <1>2, <2>2 DEF Kafka!Connect, Kafka!Exit, Exit, Kafka!Idle, Idle
    <3>2. Explained' /\ Tallies
      BY <3>1 DEF EndSound, Explained, Tallies
    <3>. QED
      BY <3>1, <3>2, EndExit
  <2>. QED
    BY <2>1, <2>2
<1>3. CASE Kafka!ConsumerJoins \/ Kafka!ConsumerFails \/ Kafka!ConsumerCrashes
  <2>1. /\ UNCHANGED <<app, code, timers, told>> /\ Tallies
        /\ \/ \E next \in {"running", "rejoining", "crashed"} : own' = [own EXCEPT !.consumer = next]
           \/ own' = [own EXCEPT !.consumer = "failed", !.lastError = "consumer"]
    BY <1>3 DEF Kafka!ConsumerJoins, Kafka!ConsumerFails, Kafka!ConsumerCrashes, Kafka!Fault, Fault, Tallies
  <2>2. own'.stage = own.stage /\ own'.ready = own.ready
    BY <1>1, <2>1 DEF KafkaOwn
  <2>3. faults' \in Nat /\ (~peer' => faults' > 0)
    BY <2>1, TallyStep
  <2>. QED
    BY <2>1, <2>2, <2>3 DEF EndSound, EndExplained, Alive
<1>4. CASE Kafka!Restarted
  <2>1. /\ UNCHANGED <<app, timers, told, peer, faults>> /\ ~Kafka!Alive
        /\ own' = Kafka!KafkaStart
    BY <1>4 DEF Kafka!Restarted
  <2>2. ~own'.ready
    BY <2>1 DEF Kafka!KafkaStart
  <2>. QED
    BY <2>1, <2>2 DEF EndSound, EndExplained, Alive, Kafka!Alive
<1>5. CASE Kafka!ProbeKills
  <2>1. Exit("killed") /\ UNCHANGED <<app, own, peer, faults>>
    BY <1>5 DEF Kafka!ProbeKills, Kafka!Exit, Exit, Kafka!Idle, Idle
  <2>2. Explained' /\ Tallies
    BY <2>1 DEF Exit, Explained, Tallies
  <2>. QED
    BY <2>1, <2>2, EndExit
<1>6. CASE Kafka!Killed
  <2>1. Killed
    BY <1>6 DEF Kafka!Killed, Killed, Kafka!Exit, Exit, Kafka!Alive, Alive, Kafka!Idle, Idle
  <2>. QED
    BY <2>1, EndKilled
<1>7. ASSUME NEW s \in Slot, Kafka!KafkaSend(s) PROVE EndSound' /\ EndExplained
  <2>1. /\ UNCHANGED <<app, code, timers, told, peer, faults>>
        /\ own' = own \/ own' = [own EXCEPT !.stage = "first"]
    BY <1>7 DEF Kafka!KafkaSend
  <2>2. own'.stage = "connect" => own.stage = "connect" /\ own'.ready = own.ready
    BY <1>1, <2>1 DEF KafkaOwn
  <2>. QED
    BY <2>1, <2>2 DEF EndSound, EndExplained, Alive
<1>8. ASSUME NEW s \in Slot, Kafka!SendSettles(s) PROVE EndSound' /\ EndExplained
  <2>1. /\ UNCHANGED <<app, code, told, peer, faults>> /\ timers' = {"loop"}
    BY <1>8 DEF Kafka!SendSettles
  <2>2. PICK e, m, r : own' = [own EXCEPT !.lastError = e, !.masked = m, !.stage = "running", !.ready = r]
    BY <1>8, Zenon DEF Kafka!SendSettles
  <2>3. own'.stage = "running"
    BY <1>1, <2>2 DEF KafkaOwn
  <2>. QED
    BY <2>1, <2>3 DEF EndSound, EndExplained, Alive
<1>. QED
  BY <1>2, <1>3, <1>4, <1>5, <1>6, <1>7, <1>8 DEF Kafka!KafkaNext, Kafka!KafkaRuns

LEMMA EndAccounts ==
  ASSUME NodeSound, EndSound, app.name = "accounts", Accounts!AccountsNext
  PROVE  EndSound' /\ EndExplained
<1>1. CASE Accounts!Killed
  <2>1. Killed
    BY <1>1 DEF Accounts!Killed, Killed, Accounts!Exit, Exit, Accounts!Alive, Alive, Accounts!Idle,
                Idle
  <2>. QED
    BY <2>1, EndKilled
<1>2. ASSUME \/ Accounts!AccountsRuns \/ Accounts!IdleClientLost
             \/ \E s \in Slot : Accounts!AccountRequest(s) \/ Accounts!Register(s) \/ Accounts!Login(s)
      PROVE  EndSound' /\ EndExplained
  <2>1. /\ UNCHANGED <<app, told, peer, faults>>
        /\ timers' = timers \/ timers' = {}
        /\ code' = code \/ ~Alive \/ ~peer
    BY <1>2 DEF Accounts!AccountsRuns, Accounts!IdleClientLost, Accounts!WaitForPostgres,
       Accounts!InitDb,
       Accounts!StartsAgain, Accounts!AccountRequest, Accounts!Register, Accounts!Login,
       Accounts!Exit, Accounts!Alive, Alive
  <2>2. EndSound'
    BY <2>1 DEF EndSound
  <2>3. EndExplained
    BY <2>1 DEF EndExplained, Alive, Explained, EndSound
  <2>. QED
    BY <2>2, <2>3
<1>. QED
  BY <1>1, <1>2 DEF Accounts!AccountsNext

\* The services that end by SIGTERM alone.
LEMMA EndSimple ==
  ASSUME EndSound,
         \/ Sampling!SamplingNext /\ app.name = "sampling"
         \/ Routes!RoutesNext \/ Payload!PayloadNext \/ Accounts!QueuesNext \/ Timers!HttpServerNext
  PROVE  EndSound' /\ EndExplained
<1>1. \/ Sigterm({"deadline"}, TRUE) \/ Sigterm({}, TRUE)
      \/ /\ UNCHANGED <<app, code, told, timers, peer, faults>>
         /\ own' = own \/ app.name = "sampling"
  BY DEF Sampling!SamplingNext, Sampling!GrowsUp, Sampling!SamplingTick, Sampling!SamplingCall,
     Routes!RoutesNext, Routes!TriggerArrives, Routes!FetchSettles, Payload!PayloadNext,
     Payload!PayloadArrives, Payload!EchoSettles, Accounts!QueuesNext, Accounts!QueueRequest,
     Accounts!QueueSettles, Timers!HttpServerNext, Sigterm, Alive, Exit, Idle,
     Sampling!Sigterm, Sampling!Alive, Sampling!Exit, Sampling!Idle,
     Routes!Sigterm, Routes!Alive, Routes!Exit, Routes!Idle,
     Payload!Sigterm, Payload!Alive, Payload!Exit, Payload!Idle,
     Accounts!Sigterm, Accounts!Alive, Accounts!Exit, Accounts!Idle,
     Timers!Sigterm, Timers!Alive, Timers!Exit, Timers!Idle
<1>2. CASE Sigterm({"deadline"}, TRUE) \/ Sigterm({}, TRUE)
  BY <1>2, EndSigterm
<1>3. CASE /\ UNCHANGED <<app, code, told, timers, peer, faults>>
           /\ own' = own \/ app.name = "sampling"
  BY <1>3 DEF EndSound, AgentSound, EndExplained, Alive
<1>. QED
  BY <1>1, <1>2, <1>3

\* The reaction of agent-stability to the distro that is there at start-up.
LEMMA EndReaction ==
  ASSUME EndSound, app.name = "agent", NEW o, Timers!ReactOn(o), UNCHANGED <<app, told, peer, faults>>,
         o = [up |-> o.up, distro |-> o.distro, instrumentationHandled |-> o.instrumentationHandled],
         o.up, o.distro = app.distro
  PROVE  EndSound' /\ EndExplained
<1>1. AgentSound
  BY DEF EndSound
<1>2. CASE ~o.distro \/ o.instrumentationHandled
  <2>1. own' = o /\ UNCHANGED <<code, timers>>
    BY <1>2 DEF Timers!ReactOn
  <2>2. AgentSound'
    BY <1>1, <2>1 DEF AgentSound
  <2>. QED
    BY <2>1, <2>2 DEF EndSound, EndExplained, Alive
<1>3. CASE ~(~o.distro \/ o.instrumentationHandled)
  <2>1. PICK t : t = TRUE
    OBVIOUS
  <2>2. own' = [o EXCEPT !.instrumentationHandled = t]
    BY <1>3, <2>1, Zenon DEF Timers!ReactOn
  <2>3. /\ own' = [up |-> own'.up, distro |-> own'.distro,
                  instrumentationHandled |-> own'.instrumentationHandled]
        /\ own'.up
    BY <2>2
  <2>4. \/ app.scenario \in Timers!CrashScenarios /\ Timers!Exit("1")
        \/ app.scenario \in Timers!CrashScenarios /\ timers' = timers \union {"crash"} /\ UNCHANGED code
        \/ UNCHANGED <<code, timers>>
    <3>1. CASE app.scenario = "crash-on-odigos-immediate"
      BY <1>3, <3>1, Zenon DEF Timers!ReactOn, Timers!CrashScenarios
    <3>2. CASE app.scenario = "crash-on-odigos-delayed"
      BY <1>3, <3>2, Zenon DEF Timers!ReactOn, Timers!CrashScenarios
    <3>3. CASE app.scenario # "crash-on-odigos-immediate" /\ app.scenario # "crash-on-odigos-delayed"
      BY <1>3, <3>3, Zenon DEF Timers!ReactOn
    <3>. QED
      BY <3>1, <3>2, <3>3
  <2>5. timers' = {} \/ "crash" \notin timers' \/ "crash" \in timers \/ app.scenario \in Timers!CrashScenarios
    BY <2>4 DEF Timers!Exit
  <2>6. AgentSound'
    BY <1>1, <1>3, <2>3, <2>5 DEF AgentSound
  <2>7. "deadline" \in timers' => "deadline" \in timers
    BY <2>4 DEF Timers!Exit
  <2>8. EndExplained
    BY <1>3, <2>4 DEF EndExplained, Alive, Explained, Due
  <2>. QED
    BY <2>6, <2>7, <2>8 DEF EndSound
<1>. QED
  BY <1>2, <1>3

LEMMA EndTimers ==
  ASSUME NodeSound, EndSound, app.name \in OnlyTimers, Timers!TimersNext
  PROVE  EndSound' /\ EndExplained
<1>1. CASE Timers!TimersSigterm
  <2>1. Killed \/ Sigterm({}, TRUE)
    BY <1>1 DEF Timers!TimersSigterm, Timers!Killed, Killed, Timers!Sigterm, Sigterm, Timers!Exit,
                Exit, Timers!Alive, Alive, Timers!Idle, Idle
  <2>. QED
    BY <2>1, EndKilled, EndSigterm
<1>2. CASE Timers!TimerExits
  <2>1. /\ "crash" \in timers /\ UNCHANGED <<app, own, told, peer, faults>>
        /\ \E c : Timers!Exit(c)
    BY <1>2 DEF Timers!TimerExits
  <2>2. PICK c : Exit(c)
    BY <2>1 DEF Timers!Exit, Exit, Timers!Idle, Idle
  <2>3. Due
    BY <2>1 DEF Due, OnlyTimers, EndSound, AgentSound, NodeSound, ServiceSound, WorkloadSound
  <2>4. Explained' /\ Tallies
    BY <2>1, <2>3 DEF Explained, Due, Tallies
  <2>. QED
    BY <2>1, <2>2, <2>4, EndExit
<1>3. CASE Timers!HealthUp /\ app.name = "health"
  BY <1>3 DEF Timers!HealthUp, EndSound, EndExplained, Alive
<1>4. CASE Timers!WorkloadUp /\ app.name = "workload"
  BY <1>4 DEF Timers!WorkloadUp, EndSound, EndExplained, Alive
<1>5. CASE Timers!LateDistro
  <2>1. /\ app.name = "agent" /\ own.up /\ UNCHANGED <<app, code, told, timers, peer, faults>>
        /\ own' = [own EXCEPT !.distro = TRUE]
    BY <1>5 DEF Timers!LateDistro
  <2>2. AgentSound
    BY <2>1 DEF EndSound
  <2>3. PICK t : own' = [own EXCEPT !.distro = t]
    BY <2>1
  <2>4. AgentSound'
    BY <2>1, <2>2, <2>3 DEF AgentSound
  <2>. QED
    BY <2>1, <2>4 DEF EndSound, EndExplained, Alive
<1>6. CASE Timers!AgentUp /\ app.name = "agent"
  <2>1. AgentSound /\ UNCHANGED <<app, told, peer, faults>> /\ ~own.up
    BY <1>6 DEF Timers!AgentUp, EndSound
  <2>2. PICK t : t = TRUE
    OBVIOUS
  <2>3. PICK o : o = [own EXCEPT !.up = t]
    OBVIOUS
  <2>4. /\ o = [up |-> o.up, distro |-> o.distro, instrumentationHandled |-> o.instrumentationHandled]
        /\ o.up = TRUE /\ o.distro = app.distro
    BY <2>1, <2>2, <2>3 DEF AgentSound
  <2>5. CASE own' = o /\ UNCHANGED code /\ timers' \subseteq timers \union {"watch"}
    BY <1>6, <2>1, <2>4, <2>5 DEF EndSound, AgentSound, EndExplained, Alive
  <2>6. CASE Timers!ReactOn(o)
    BY <1>6, <2>1, <2>4, <2>6, EndReaction
  <2>. QED
    BY <1>6, <2>2, <2>3, <2>5, <2>6, Zenon DEF Timers!AgentUp
<1>7. CASE Timers!Watch
  <2>1. UNCHANGED <<app, told, peer, faults>>
    BY <1>7 DEF Timers!Watch
  <2>2. PICK t, o : t = TRUE /\ o = [own EXCEPT !.instrumentationHandled = t]
    OBVIOUS
  <2>3. Timers!ReactOn(o)
    BY <1>7, <2>2, Zenon DEF Timers!Watch
  <2>4. ASSUME app.name = "agent" PROVE o.instrumentationHandled
    BY <2>2, <2>4 DEF EndSound, AgentSound
  <2>5. CASE app.name = "agent"
    <3>1. own' = o /\ UNCHANGED <<code, timers>>
      BY <2>3, <2>4, <2>5 DEF Timers!ReactOn
    <3>2. AgentSound
      BY <2>5 DEF EndSound
    <3>3. AgentSound'
      BY <2>1, <2>2, <3>1, <3>2 DEF AgentSound
    <3>. QED
      BY <2>1, <2>5, <3>1, <3>3 DEF EndSound, EndExplained, Alive
  <2>6. app.name = "agent"
    BY <1>7 DEF Timers!Watch, OnlyTimers, EndSound, NodeSound, ServiceSound, WorkloadSound
  <2>. QED
    BY <2>5, <2>6
<1>. QED
  BY <1>1, <1>2, <1>3, <1>4, <1>5, <1>6, <1>7 DEF Timers!TimersNext, Timers!TimersUp

LEMMA EndingStarts == Init => EndSound
<1>. SUFFICES ASSUME Init PROVE EndSound
  OBVIOUS
<1>1. peer = TRUE /\ faults = 0 /\ app \in Deployments
  BY Zenon DEF Init
<1>2. app.name # "sampling" => timers = {}
  BY DEF Init
<1>3. "deadline" \notin timers
  BY DEF Init
<1>4. app.name = "kafka" => ~own.ready
  <2>1. SUFFICES ASSUME app.name = "kafka" PROVE ~own.ready
    OBVIOUS
  <2>2. app.name \notin OnlyTimers
    BY <2>1 DEF OnlyTimers
  <2>3. own = Kafka!KafkaStart
    BY <2>1, <2>2, Zenon DEF Init
  <2>. QED
    BY <2>3 DEF Kafka!KafkaStart
<1>5. app.name = "agent" => AgentSound
  <2>1. SUFFICES ASSUME app.name = "agent" PROVE AgentSound
    OBVIOUS
  <2>2. app.name \in OnlyTimers
    BY <2>1 DEF OnlyTimers
  <2>3. own = Timers!TimersStart(app)
    BY <2>1, <2>2, Zenon DEF Init
  <2>. QED
    BY <1>2, <2>1, <2>3 DEF AgentSound, Timers!TimersStart
<1>. QED
  BY <1>1, <1>2, <1>3, <1>4, <1>5 DEF EndSound

LEMMA EndingStep ==
  ASSUME NodeSound, EndSound, Next
  PROVE  EndSound' /\ EndExplained
<1>1. CASE HasPeer /\ (PeerFails \/ PeerReturns)
  <2>1. UNCHANGED <<app, own, code, timers, told>> /\ Tallies
    BY <1>1 DEF PeerFails, PeerReturns, Tallies
  <2>. QED
    BY <2>1, EndFrame
<1>2. CASE \E s \in Slot : Closes /\ (SlowClient(s) \/ SlowClientEnds(s))
  <2>1. UNCHANGED <<app, own, code, timers, told>> /\ Tallies
    BY <1>2 DEF SlowClient, SlowClientEnds, Tallies
  <2>. QED
    BY <2>1, EndFrame
<1>3. CASE (Closes /\ Closed) \/ Deadline
  <2>1. (\E c : Exit(c)) /\ UNCHANGED <<app, own, told, peer, faults>> /\ told
    BY <1>3 DEF Closed, Deadline, EndSound
  <2>2. Explained' /\ Tallies
    BY <2>1 DEF Explained, Due, Tallies
  <2>. QED
    BY <2>1, <2>2, EndExit
<1>. QED
  BY <1>1, <1>2, <1>3, EndGrpc, EndKafka, EndAccounts, EndSimple, EndTimers DEF Next

-----------------------------------------------------------------------------
(* What the services promise *)

\* The invariant: whatever a container of any of the services does, and whatever happens
\* to its peer, its state is of the services' types and sound.
THEOREM NodeServicesSound == Spec => []NodeSound
<1>1. NodeSound /\ [Next]_vars => NodeSound'
  BY NodeStep, NodeStutters
<1>. QED
  BY <1>1, NodeStarts, PTL DEF Spec

\* The second invariant: what is known of whoever arms the end of a process.
THEOREM NodeEndsSound == Spec => []EndSound
<1>1. NodeSound /\ EndSound /\ [Next]_vars => EndSound'
  <2>1. ASSUME NodeSound, EndSound, UNCHANGED vars PROVE EndSound'
    BY <2>1, EndFrame DEF vars, Tallies
  <2>. QED
    BY <2>1, EndingStep
<1>. QED
  BY <1>1, NodeServicesSound, EndingStarts, PTL DEF Spec

\* SIGTERM, server.close and process.exit: a process ends only for a reason; one that exits
\* with 0 cuts off no request it has accepted; and none begins a round of outbound calls
\* after SIGTERM but the nodejs/grpc that is server and client, in its first round or in a
\* loop armed late.
THEOREM NodeServicesShutDownOrderly == Spec => OrderlyShutdown
<1>1. NodeSound /\ EndSound /\ [Next]_vars =>
        [ /\ (Alive /\ ~Alive') => Explained'
          /\ (Alive /\ code' = "0") => \A s \in Slot : ~Served(s)
          /\ (told /\ \E s \in Slot : job[s] = Idle /\ job'[s].does = "fire") =>
               /\ app.name = "grpc" /\ app.server
               /\ ~own.fired \/ own.late ]_vars
  BY NodeStep, EndingStep DEF NoneCut, Calm, Fires, EndExplained
<1>. QED
  BY <1>1, NodeServicesSound, NodeEndsSound, PTL DEF Spec, OrderlyShutdown

\* GET /graphql of head-sampling: a probe named by its operation or by the one query it
\* has gets the status of the REST probe, and what names none gets 200.
LEMMA ProbesAlwaysAgree == Sampling!ProbesAgree
<1>. SUFFICES ASSUME NEW q \in Sampling!Queries
     PROVE  /\ q.operationName \in Sampling!Probes =>
                 Sampling!GraphqlProbe(q) = Sampling!RestProbe(q.operationName)
            /\ (q.operationName \notin Sampling!Probes /\ Len(q.queries) = 1
                  /\ q.queries[1] \in Sampling!Probes) =>
                 Sampling!GraphqlProbe(q) = Sampling!RestProbe(q.queries[1])
            /\ (q.operationName \notin Sampling!Probes /\ Len(q.queries) # 1) =>
                 Sampling!GraphqlProbe(q) = "200"
  BY Zenon DEF Sampling!ProbesAgree
<1>1. ASSUME NEW p \in Sampling!Probes, Sampling!ProbeType(q) = p
      PROVE  Sampling!GraphqlProbe(q) = Sampling!RestProbe(p)
  BY <1>1 DEF Sampling!GraphqlProbe, Sampling!RestProbe, Sampling!Probes
<1>2. ASSUME Sampling!ProbeType(q) \in {"none", "live"}
      PROVE  Sampling!GraphqlProbe(q) = "200"
  BY <1>2 DEF Sampling!GraphqlProbe
<1>3. q.operationName \in Sampling!Probes => Sampling!ProbeType(q) = q.operationName
  BY DEF Sampling!ProbeType
<1>4. (q.operationName \notin Sampling!Probes /\ Len(q.queries) = 1
         /\ q.queries[1] \in Sampling!Probes) => Sampling!ProbeType(q) = q.queries[1]
  BY DEF Sampling!ProbeType
<1>5. (q.operationName \notin Sampling!Probes /\ Len(q.queries) # 1) =>
        Sampling!ProbeType(q) \in {"none", "live"}
  BY DEF Sampling!ProbeType
<1>. QED
  BY <1>1, <1>2, <1>3, <1>4, <1>5

\* GET /healthz, POST /payload, POST /auth/register: a nodejs/kafka that answers 200 has a
\* consumer that has not failed, unless a send has hidden it; a nodejs/grpc that does
\* serves, and its loop runs; the two kinds of probes of head-sampling agree; a payload
\* comes back as it came in where the echo can keep it; and an address has one account,
\* and one more for every registration that looked while another was about to insert.
THEOREM NodeAnswersTrue == Spec => []AnswersTrue
<1>1. ASSUME NodeSound, app.name = "accounts" PROVE Accounts!OneAccount
  <2>1. /\ own \in AccountsOwn /\ IsFiniteSet(Inserting)
        /\ own.rows + Cardinality(Inserting) <= 1 + own.raced
    BY <1>1 DEF NodeSound, ServiceSound, AccountsSound
  <2>2. Cardinality(Inserting) \in Nat /\ own.rows \in Nat /\ own.raced \in Nat
    BY <2>1, FS_CardinalityType DEF AccountsOwn
  <2>. QED
    BY <2>1, <2>2 DEF Accounts!OneAccount
<1>2. NodeSound => /\ (app.name = "kafka" /\ Kafka!Healthy) => (own.consumer = "failed" => own.masked)
                   /\ (app.name = "grpc" /\ Grpc!GrpcHealthy) => Grpc!GrpcUp
                   /\ app.name = "sampling" => Sampling!ProbesAgree
                   /\ app.name = "payload" => Payload!EchoIsIncoming
  BY ProbesAlwaysAgree DEF NodeSound, ServiceSound, KafkaSound, Kafka!Healthy, GrpcSound,
     Grpc!GrpcHealthy, Grpc!GrpcUp, Grpc!Alive, Alive
<1>3. NodeSound => AnswersTrue
  BY <1>1, <1>2 DEF AnswersTrue
<1>. QED
  BY <1>3, NodeServicesSound, PTL

-----------------------------------------------------------------------------
(* head-sampling: the routes of the rules. *)

\* Every request of the http-client deployment is a route of the http-server's.
LEMMA OutboundRouted ==
  ASSUME NEW r \in Sampling!Outbound
  PROVE  \E route \in Sampling!MatchRoutes : Sampling!Fits(route, r)
<1>1. CASE r \in {<<"GET", "http-match", "exact", "target">>,
   <<"POST", "http-match", "exact", "post-target">>,
   <<"GET", "http-match", "prefix", "segment">>,
   <<"GET", "http-match", "prefix", "segment", "nested">>}
  BY <1>1 DEF Sampling!MatchRoutes, Sampling!Fits
<1>2. CASE r = <<"GET", "http-match", "texact", "out-peer-res">>
  <2>1. Sampling!Fits(<<"GET", "http-match", "texact", ":">>, r)
    BY <1>2 DEF Sampling!Fits
  <2>. QED
    BY <2>1 DEF Sampling!MatchRoutes
<1>3. CASE r = <<"GET", "http-match", "tprefix", "out-peer-tenant", "items">>
  <2>1. Sampling!Fits(<<"GET", "http-match", "tprefix", ":", "items">>, r)
    BY <1>3 DEF Sampling!Fits
  <2>. QED
    BY <2>1 DEF Sampling!MatchRoutes
<1>4. CASE r = <<"GET", "http-match", "tprefix", "out-peer-tenant", "items", "out-peer-item">>
  <2>1. Sampling!Fits(<<"GET", "http-match", "tprefix", ":", "items", ":">>, r)
    BY <1>4 DEF Sampling!Fits
  <2>. QED
    BY <2>1 DEF Sampling!MatchRoutes
<1>. QED
  BY <1>1, <1>2, <1>3, <1>4 DEF Sampling!Outbound

\* The routes the http-server deployment serves.
ServedRoutes == Sampling!MatchRoutes \union Sampling!SamplingRoutes

\* The routes of the rules have literal first segments, and parameters only after them.
LEMMA RouteParts ==
  ASSUME NEW a \in ServedRoutes
  PROVE /\ Len(a) \in 4 .. 7 /\ DOMAIN a = 1 .. Len(a)
        /\ a[1] # ":" /\ a[2] # ":" /\ a[3] # ":"
        /\ a[2] = "sampling" => a[4] # ":"
BY DEF Sampling!MatchRoutes, Sampling!SamplingRoutes, ServedRoutes

\* The route of a length with these literal segments.
MatchRoute(n, method, kind) ==
  IF kind = "control" THEN <<"GET", "http-match", "control", "no-rule">>
  ELSE IF kind = "exact" THEN IF method = "GET" THEN <<"GET", "http-match", "exact", "target">>
                              ELSE <<"POST", "http-match", "exact", "post-target">>
  ELSE IF kind = "prefix" THEN IF n = 4 THEN <<"GET", "http-match", "prefix", "segment">>
                               ELSE <<"GET", "http-match", "prefix", "segment", "nested">>
  ELSE IF kind = "texact" THEN <<"GET", "http-match", "texact", ":">>
  ELSE IF n = 5 THEN <<"GET", "http-match", "tprefix", ":", "items">>
                ELSE <<"GET", "http-match", "tprefix", ":", "items", ":">>

SamplingRoute(n, kind, name) ==
  IF kind = "percentage" THEN <<"GET", "sampling", "percentage", name>>
  ELSE IF name = "prefix"
       THEN IF n = 4 THEN <<"GET", "sampling", "route", "prefix">>
            ELSE IF n = 5 THEN <<"GET", "sampling", "route", "prefix", "part-one">>
                 ELSE <<"GET", "sampling", "route", "prefix", "part-one", "part-two">>
       ELSE IF n = 5 THEN <<"GET", "sampling", "route", "exact", ":">>
            ELSE <<"GET", "sampling", "route", "exact", ":", "details", ":">>

\* Two routes of one length differ in a literal segment.
LEMMA RoutesApart ==
  ASSUME NEW a \in ServedRoutes, NEW b \in ServedRoutes, Len(a) = Len(b),
         a[1] = b[1], a[2] = b[2], a[3] = b[3], a[2] = "sampling" => a[4] = b[4]
  PROVE  a = b
<1>1. \A r \in Sampling!MatchRoutes : r[2] = "http-match" /\ r = MatchRoute(Len(r), r[1], r[3])
  BY DEF Sampling!MatchRoutes, MatchRoute
<1>2. \A r \in Sampling!SamplingRoutes : r[2] = "sampling" /\ r = SamplingRoute(Len(r), r[3], r[4])
  BY DEF Sampling!SamplingRoutes, SamplingRoute
<1>. QED
  BY <1>1, <1>2, Zenon DEF ServedRoutes

\* No request is two routes.
LEMMA OneOnly ==
  ASSUME NEW a \in ServedRoutes, NEW b \in ServedRoutes, a # b,
         NEW r \in Sampling!Outbound \union ServedRoutes,
         Sampling!Fits(a, r), Sampling!Fits(b, r)
  PROVE FALSE
<1>1. Len(r) \in 4 .. 7 /\ DOMAIN r = 1 .. Len(r)
  <2>1. CASE r \in Sampling!Outbound
    BY <2>1 DEF Sampling!Outbound
  <2>. QED
    BY <2>1, RouteParts
<1>2. /\ Len(a) = Len(r) /\ a[1] = r[1] /\ a[2] = r[2] /\ a[3] = r[3]
      /\ a[2] = "sampling" => a[4] = r[4]
  BY <1>1, RouteParts DEF Sampling!Fits
<1>3. /\ Len(b) = Len(r) /\ b[1] = r[1] /\ b[2] = r[2] /\ b[3] = r[3]
      /\ b[2] = "sampling" => b[4] = r[4]
  BY <1>1, RouteParts DEF Sampling!Fits
<1>. QED
  BY <1>2, <1>3, RoutesApart

\* NodeSampling: every request of the client is one route, and no request is two.
LEMMA SamplingRouted == Sampling!OneRoute
<1>1. ASSUME NEW a \in ServedRoutes, NEW b \in ServedRoutes, a # b,
             NEW r \in Sampling!Outbound \union ServedRoutes
      PROVE  ~ (Sampling!Fits(a, r) /\ Sampling!Fits(b, r))
  BY <1>1, OneOnly
<1>. QED
  BY <1>1, OutboundRouted, Zenon DEF Sampling!OneRoute, ServedRoutes

-----------------------------------------------------------------------------
(* url-templatization: the pathname that plain-http resolves.  Its recursive function  *)
(* is reasoned about by a least counterexample.                                       *)

\* Every set of naturals that is not empty has a least element.
LEMMA LeastElement ==
  ASSUME NEW T, T \subseteq Nat, T # {}
  PROVE \E x \in T : \A y \in T : x <= y
<1>. DEFINE R == {ss \in Nat \X Nat : ss[1] < ss[2]}
<1>1. IsWellFoundedOn(R, Nat)
  BY NatLessThanWellFounded DEF OpToRel
<1>2. \E x \in T : \A y \in T : ~ (<<y, x>> \in R)
  <2>. HIDE DEF R
  <2>. QED BY <1>1, WFMin
<1>3. PICK x \in T : \A y \in T : ~ (<<y, x>> \in R)
  <2>. HIDE DEF R
  <2>. QED BY <1>2
<1>4. ASSUME NEW y \in T PROVE x <= y
  <2>1. ~ (y < x)
    <3>1. y < x => <<y, x>> \in R
      BY <1>4
    <3>. HIDE DEF R
    <3>. QED BY <1>3, <1>4, <3>1
  <2>2. x \in Nat /\ y \in Nat
    BY <1>4
  <2>. QED
    BY <2>1, <2>2
<1>. QED
  BY <1>4

\* g resolves the first n segments.
Resolves(g, segs, n) ==
  g = [i \in 0 .. n |-> IF i = 0 THEN <<>> ELSE Routes!Resolve(g[i - 1], segs[i])]

\* Resolving goes one segment further.
LEMMA Unresolved ==
  ASSUME NEW segs, NEW n \in Nat, NEW g, Resolves(g, segs, n)
  PROVE  \E f : Resolves(f, segs, n + 1)
<1>. DEFINE f == [i \in 0 .. n + 1 |->
                    IF i = n + 1 THEN Routes!Resolve(g[n], segs[n + 1]) ELSE g[i]]
<1>1. \A i \in 0 .. n : g[i] = IF i = 0 THEN <<>> ELSE Routes!Resolve(g[i - 1], segs[i])
  BY DEF Resolves
<1>2. \A i \in 0 .. n + 1 : f[i] = IF i = 0 THEN <<>> ELSE Routes!Resolve(f[i - 1], segs[i])
  <2>. SUFFICES ASSUME NEW i \in 0 .. n + 1
                PROVE  f[i] = IF i = 0 THEN <<>> ELSE Routes!Resolve(f[i - 1], segs[i])
    OBVIOUS
  <2>1. CASE i = n + 1
    <3>1. f[i] = Routes!Resolve(g[n], segs[n + 1])
      BY <2>1
    <3>2. f[i - 1] = g[n] /\ i # 0
      BY <2>1
    <3>. QED
      BY <2>1, <3>1, <3>2
  <2>2. CASE i # n + 1
    <3>1. i \in 0 .. n /\ f[i] = g[i] /\ (i # 0 => f[i - 1] = g[i - 1])
      BY <2>2
    <3>. QED
      BY <1>1, <3>1
  <2>. QED
    BY <2>1, <2>2
<1>3. f = [i \in 0 .. n + 1 |-> f[i]]
  OBVIOUS
<1>. HIDE DEF f
<1>4. Resolves(f, segs, n + 1)
  BY <1>2, <1>3 DEF Resolves
<1>. QED
  BY <1>4

\* Every path can be resolved: there is no least length at which it cannot.
LEMMA ResolvedExists ==
  ASSUME NEW segs, NEW n \in Nat
  PROVE  \E f : Resolves(f, segs, n)
<1>. DEFINE T == {k \in Nat : ~ \E f : Resolves(f, segs, k)}
<1>1. CASE T = {}
  BY <1>1
<1>2. CASE T # {}
  <2>1. PICK k \in T : \A y \in T : k <= y
    <3>. HIDE DEF T
    <3>1. T \subseteq Nat
      BY DEF T
    <3>. QED
      BY <1>2, <3>1, LeastElement
  <2>2. k # 0
    <3>. DEFINE f == [i \in 0 .. 0 |-> <<>>]
    <3>1. f = [i \in 0 .. 0 |-> IF i = 0 THEN <<>> ELSE Routes!Resolve(f[i - 1], segs[i])]
      OBVIOUS
    <3>2. Resolves(f, segs, 0)
      BY <3>1 DEF Resolves
    <3>. QED
      BY <3>2
  <2>3. k - 1 \in Nat /\ k - 1 \notin T
    BY <2>1, <2>2
  <2>4. PICK g : Resolves(g, segs, k - 1)
    BY <2>3
  <2>5. \E f : Resolves(f, segs, (k - 1) + 1)
    BY <2>3, <2>4, Unresolved
  <2>6. (k - 1) + 1 = k
    BY <2>3
  <2>. QED
    BY <2>5, <2>6
<1>. QED
  BY <1>1, <1>2

\* Pathname is the end of such a resolution.
LEMMA PathnameSteps ==
  ASSUME NEW segs, Len(segs) \in Nat
  PROVE  \E f : Resolves(f, segs, Len(segs)) /\ Routes!Pathname(segs) = f[Len(segs)]
<1>. DEFINE f == CHOOSE f : Resolves(f, segs, Len(segs))
<1>1. Resolves(f, segs, Len(segs))
  BY ResolvedExists
<1>2. Routes!Pathname(segs) = f[Len(segs)]
  BY DEF Routes!Pathname, Resolves
<1>. QED
  BY <1>1, <1>2

\* A prefix and the next segment are the next prefix.
LEMMA SubSeqGrows ==
  ASSUME NEW S, NEW segs \in Seq(S), NEW k \in 1 .. Len(segs)
  PROVE  Append(SubSeq(segs, 1, k - 1), segs[k]) = SubSeq(segs, 1, k)
<1>. DEFINE a == Append(SubSeq(segs, 1, k - 1), segs[k])
            b == SubSeq(segs, 1, k)
            c == SubSeq(segs, 1, k - 1)
<1>1. /\ c \in Seq(S) /\ Len(c) = k - 1 /\ \A i \in 1 .. k - 1 : c[i] = segs[i]
  OBVIOUS
<1>2. /\ b \in Seq(S) /\ Len(b) = k /\ \A i \in 1 .. k : b[i] = segs[i]
  OBVIOUS
<1>3. segs[k] \in S
  OBVIOUS
<1>4. /\ a \in Seq(S) /\ Len(a) = k /\ \A i \in 1 .. k : a[i] = segs[i]
  <2>. HIDE DEF c
  <2>. QED
  BY <1>1, <1>3 DEF c
<1>. HIDE DEF a, b
<1>5. a = b
  BY <1>2, <1>4
<1>. QED
  BY <1>5 DEF a, b

\* A path without dots is its own pathname.
LEMMA PathnameSame ==
  ASSUME NEW S, NEW segs \in Seq(S), \A i \in DOMAIN segs : segs[i] \notin Routes!Dots
  PROVE  Routes!Pathname(segs) = segs
<1>. DEFINE n == Len(segs)
<1>1. n \in Nat /\ DOMAIN segs = 1 .. n
  OBVIOUS
<1>2. PICK f : Resolves(f, segs, n) /\ Routes!Pathname(segs) = f[n]
  BY <1>1, PathnameSteps
<1>3. \A i \in 0 .. n : f[i] = IF i = 0 THEN <<>> ELSE Routes!Resolve(f[i - 1], segs[i])
  BY <1>2 DEF Resolves
<1>. DEFINE T == {k \in 0 .. n : f[k] # SubSeq(segs, 1, k)}
<1>4. CASE T = {}
  <2>1. f[n] = SubSeq(segs, 1, n)
    BY <1>1, <1>4
  <2>2. SubSeq(segs, 1, n) = segs
    OBVIOUS
  <2>. QED
    BY <1>2, <2>1, <2>2
<1>5. CASE T # {}
  <2>1. PICK k \in T : \A y \in T : k <= y
    <3>. HIDE DEF T
    <3>1. T \subseteq Nat
      BY DEF T
    <3>. QED
      BY <1>5, <3>1, LeastElement
  <2>2. k # 0
    <3>1. SubSeq(segs, 1, 0) = <<>>
      OBVIOUS
    <3>. QED
      BY <1>1, <1>3, <3>1
  <2>3. k - 1 \in 0 .. n /\ k \in 1 .. n /\ f[k - 1] = SubSeq(segs, 1, k - 1)
    BY <1>1, <2>1, <2>2
  <2>4. f[k] = Append(SubSeq(segs, 1, k - 1), segs[k])
    <3>1. k \in 0 .. n /\ k # 0
      BY <1>1, <2>3
    <3>. HIDE DEF T
    <3>2. f[k] = Routes!Resolve(f[k - 1], segs[k])
      BY <1>3, <3>1
    <3>3. segs[k] \notin Routes!Dots
      BY <1>1, <2>3
    <3>. QED
      BY <2>3, <3>2, <3>3 DEF Routes!Resolve
  <2>5. Append(SubSeq(segs, 1, k - 1), segs[k]) = SubSeq(segs, 1, k)
    BY <2>3, SubSeqGrows
  <2>. QED
    BY <2>4, <2>5
<1>. QED
  BY <1>4, <1>5

\* Sequences with the same elements are equal.
LEMMA SameElements ==
  ASSUME NEW S, NEW s \in Seq(S), NEW t \in Seq(S), Len(s) = Len(t),
         \A i \in 1 .. Len(s) : s[i] = t[i]
  PROVE  s = t
OBVIOUS

\* The elements of a prefix.
LEMMA PrefixIs ==
  ASSUME NEW S, NEW s \in Seq(S), NEW k \in 0 .. Len(s)
  PROVE  /\ SubSeq(s, 1, k) \in Seq(S) /\ Len(SubSeq(s, 1, k)) = k
         /\ \A i \in 1 .. k : SubSeq(s, 1, k)[i] = s[i]
OBVIOUS

Longer(S, s, n, t, x) ==
  /\ t \in Seq(S) /\ Len(t) = n + 1 /\ t[n + 1] = x
  /\ \A i \in 1 .. n : t[i] = s[i]

Shorter(S, s, n, t) ==
  t \in Seq(S) /\ Len(t) = n - 1 /\ \A i \in 1 .. n - 1 : t[i] = s[i]

\* A name is appended; two dots take the last name away, and one leaves the path.
LEMMA Pushed ==
  ASSUME NEW S, NEW s \in Seq(S), NEW x \in S, x \notin Routes!Dots
  PROVE  Longer(S, s, Len(s), Routes!Resolve(s, x), x)
<1>1. Routes!Resolve(s, x) = Append(s, x)
  BY DEF Routes!Resolve
<1>2. Longer(S, s, Len(s), Append(s, x), x)
  BY DEF Longer
<1>. QED
  BY <1>1, <1>2

LEMMA Popped ==
  ASSUME NEW S, NEW s \in Seq(S), Len(s) > 0
  PROVE  Shorter(S, s, Len(s), Routes!Resolve(s, ".."))
<1>1. s # <<>> /\ Len(s) - 1 \in 0 .. Len(s)
  OBVIOUS
<1>2. Routes!Resolve(s, "..") = SubSeq(s, 1, Len(s) - 1)
  BY <1>1 DEF Routes!Resolve, Routes!Front, Routes!Dots
<1>. QED
  BY <1>1, <1>2, PrefixIs DEF Shorter

LEMMA Dropped ==
  ASSUME NEW s
  PROVE  Routes!Resolve(s, ".") = s
BY DEF Routes!Resolve, Routes!Dots

\* An element of a sequence over a set is in it.
LEMMA ElementOf ==
  ASSUME NEW S, NEW s \in Seq(S), NEW i \in 1 .. Len(s)
  PROVE  s[i] \in S
OBVIOUS

\* Four names, dots and a name resolve to three names and the last one.
LEMMA Dotted ==
  ASSUME NEW S, NEW w \in S, w \notin Routes!Dots, NEW d \in S, d \notin Routes!Dots,
         NEW s \in S, s \notin Routes!Dots, NEW x \in S, x \notin Routes!Dots,
         NEW a \in S, a \notin Routes!Dots,
         NEW f0, NEW f1, NEW f2, NEW f3, NEW f4, NEW f5, NEW f6,
         f0 = <<>>, f1 = Routes!Resolve(f0, w), f2 = Routes!Resolve(f1, d),
         f3 = Routes!Resolve(f2, s), f4 = Routes!Resolve(f3, x),
         f5 = Routes!Resolve(f4, ".."), f6 = Routes!Resolve(f5, a)
  PROVE  f6 \in Seq(S) /\ Len(f6) = 4 /\ f6[1] = w /\ f6[2] = d /\ f6[3] = s /\ f6[4] = a
<1>0. f0 \in Seq(S) /\ Len(f0) = 0
  OBVIOUS
<1>1. f1 \in Seq(S) /\ Len(f1) = 1 /\ f1[1] = w
  <2>1. Longer(S, f0, 0, f1, w)
    BY <1>0, Pushed
  <2>. QED
    BY <1>0, <2>1 DEF Longer
<1>2. f2 \in Seq(S) /\ Len(f2) = 2 /\ f2[1] = w /\ f2[2] = d
  <2>1. Longer(S, f1, 1, f2, d)
    BY <1>1, Pushed
  <2>. QED
    BY <1>1, <2>1 DEF Longer
<1>3. f3 \in Seq(S) /\ Len(f3) = 3 /\ f3[1] = w /\ f3[2] = d /\ f3[3] = s
  <2>1. Longer(S, f2, 2, f3, s)
    BY <1>2, Pushed
  <2>. QED
    BY <1>2, <2>1 DEF Longer
<1>4. f4 \in Seq(S) /\ Len(f4) = 4 /\ f4[1] = w /\ f4[2] = d /\ f4[3] = s
  <2>1. Longer(S, f3, 3, f4, x)
    BY <1>3, Pushed
  <2>. QED
    BY <1>3, <2>1 DEF Longer
<1>5. f5 \in Seq(S) /\ Len(f5) = 3 /\ f5[1] = w /\ f5[2] = d /\ f5[3] = s
  <2>1. Shorter(S, f4, 4, f5)
    <3>1. Len(f4) > 0
      BY <1>4
    <3>. QED
      BY <1>4, <3>1, Popped
  <2>. QED
    BY <1>4, <2>1 DEF Shorter
<1>6. Longer(S, f5, 3, f6, a)
  BY <1>5, Pushed
<1>. QED
  BY <1>5, <1>6 DEF Longer

\* The same of a path of six segments.
LEMMA PathnameDots ==
  ASSUME NEW S, NEW w \in S, w \notin Routes!Dots, NEW segs \in Seq(S),
         Len(segs) = 6, segs[1] = w, segs[2] \notin Routes!Dots, segs[3] \notin Routes!Dots,
         segs[4] \notin Routes!Dots, segs[5] = "..", segs[6] \notin Routes!Dots
  PROVE  LET p == Routes!Pathname(segs)
         IN  /\ p \in Seq(S) /\ Len(p) = 4 /\ p[1] = w
             /\ p[2] = segs[2] /\ p[3] = segs[3] /\ p[4] = segs[6]
<1>1. PICK f : Resolves(f, segs, 6) /\ Routes!Pathname(segs) = f[6]
  <2>1. Len(segs) \in Nat
    OBVIOUS
  <2>2. \E f : Resolves(f, segs, Len(segs)) /\ Routes!Pathname(segs) = f[Len(segs)]
    BY <2>1, PathnameSteps
  <2>. QED
    BY <2>2
<1>2. \A i \in 0 .. 6 : f[i] = IF i = 0 THEN <<>> ELSE Routes!Resolve(f[i - 1], segs[i])
  BY <1>1 DEF Resolves
<1>3. f[0] = <<>> /\ f[1] = Routes!Resolve(f[0], w) /\ f[2] = Routes!Resolve(f[1], segs[2])
  BY <1>2
<1>4. f[3] = Routes!Resolve(f[2], segs[3]) /\ f[4] = Routes!Resolve(f[3], segs[4])
  BY <1>2
<1>5. f[5] = Routes!Resolve(f[4], "..") /\ f[6] = Routes!Resolve(f[5], segs[6])
  BY <1>2
<1>6. segs[2] \in S /\ segs[3] \in S /\ segs[4] \in S /\ segs[6] \in S
  <2>1. 2 \in 1 .. Len(segs) /\ 3 \in 1 .. Len(segs) /\ 4 \in 1 .. Len(segs) /\ 6 \in 1 .. Len(segs)
    OBVIOUS
  <2>. QED
    BY <2>1, ElementOf
<1>7. f[6] \in Seq(S) /\ Len(f[6]) = 4 /\ f[6][1] = w /\ f[6][2] = segs[2]
      /\ f[6][3] = segs[3] /\ f[6][4] = segs[6]
  BY <1>3, <1>4, <1>5, <1>6, Dotted
<1>. QED
  BY <1>1, <1>7

\* Three names, a dot and a name resolve to the names.
LEMMA DottedOnce ==
  ASSUME NEW S, NEW w \in S, w \notin Routes!Dots, NEW d \in S, d \notin Routes!Dots,
         NEW s \in S, s \notin Routes!Dots, NEW a \in S, a \notin Routes!Dots,
         NEW f0, NEW f1, NEW f2, NEW f3, NEW f4, NEW f5,
         f0 = <<>>, f1 = Routes!Resolve(f0, w), f2 = Routes!Resolve(f1, d),
         f3 = Routes!Resolve(f2, s), f4 = Routes!Resolve(f3, "."), f5 = Routes!Resolve(f4, a)
  PROVE  f5 \in Seq(S) /\ Len(f5) = 4 /\ f5[1] = w /\ f5[2] = d /\ f5[3] = s /\ f5[4] = a
<1>0. f0 \in Seq(S) /\ Len(f0) = 0
  OBVIOUS
<1>1. f1 \in Seq(S) /\ Len(f1) = 1 /\ f1[1] = w
  <2>1. Longer(S, f0, 0, f1, w)
    BY <1>0, Pushed
  <2>. QED
    BY <1>0, <2>1 DEF Longer
<1>2. f2 \in Seq(S) /\ Len(f2) = 2 /\ f2[1] = w /\ f2[2] = d
  <2>1. Longer(S, f1, 1, f2, d)
    BY <1>1, Pushed
  <2>. QED
    BY <1>1, <2>1 DEF Longer
<1>3. f3 \in Seq(S) /\ Len(f3) = 3 /\ f3[1] = w /\ f3[2] = d /\ f3[3] = s
  <2>1. Longer(S, f2, 2, f3, s)
    BY <1>2, Pushed
  <2>. QED
    BY <1>2, <2>1 DEF Longer
<1>4. f4 = f3
  BY Dropped
<1>5. Longer(S, f3, 3, f5, a)
  BY <1>3, <1>4, Pushed
<1>. QED
  BY <1>3, <1>5 DEF Longer

\* The same of a path of five segments.
LEMMA PathnameDot ==
  ASSUME NEW S, NEW w \in S, w \notin Routes!Dots, NEW segs \in Seq(S),
         Len(segs) = 5, segs[1] = w, segs[2] \notin Routes!Dots, segs[3] \notin Routes!Dots,
         segs[4] = ".", segs[5] \notin Routes!Dots
  PROVE  LET p == Routes!Pathname(segs)
         IN  /\ p \in Seq(S) /\ Len(p) = 4 /\ p[1] = w
             /\ p[2] = segs[2] /\ p[3] = segs[3] /\ p[4] = segs[5]
<1>1. PICK f : Resolves(f, segs, 5) /\ Routes!Pathname(segs) = f[5]
  <2>1. Len(segs) \in Nat
    OBVIOUS
  <2>2. \E f : Resolves(f, segs, Len(segs)) /\ Routes!Pathname(segs) = f[Len(segs)]
    BY <2>1, PathnameSteps
  <2>. QED
    BY <2>2
<1>2. \A i \in 0 .. 5 : f[i] = IF i = 0 THEN <<>> ELSE Routes!Resolve(f[i - 1], segs[i])
  BY <1>1 DEF Resolves
<1>3. f[0] = <<>> /\ f[1] = Routes!Resolve(f[0], w) /\ f[2] = Routes!Resolve(f[1], segs[2])
  BY <1>2
<1>4. f[3] = Routes!Resolve(f[2], segs[3]) /\ f[4] = Routes!Resolve(f[3], ".")
  BY <1>2
<1>5. f[5] = Routes!Resolve(f[4], segs[5])
  BY <1>2
<1>6. segs[2] \in S /\ segs[3] \in S /\ segs[5] \in S
  <2>1. 2 \in 1 .. Len(segs) /\ 3 \in 1 .. Len(segs) /\ 5 \in 1 .. Len(segs)
    OBVIOUS
  <2>. QED
    BY <2>1, ElementOf
<1>7. f[5] \in Seq(S) /\ Len(f[5]) = 4 /\ f[5][1] = w /\ f[5][2] = segs[2]
      /\ f[5][3] = segs[3] /\ f[5][4] = segs[5]
  BY <1>3, <1>4, <1>5, <1>6, DottedOnce
<1>. QED
  BY <1>1, <1>7

-----------------------------------------------------------------------------
(* What each prefix leads to. *)

\* No segment is "." or "..".
NoDots(segs) == \A i \in DOMAIN segs : segs[i] \notin Routes!Dots

\* Every segment is as Express reads it: none is a route word with capitals.
AsRead(segs) == \A i \in DOMAIN segs : segs[i] \notin DOMAIN Spelling

\* Such a path is the one Express compares.
LEMMA LowerSame ==
  ASSUME NEW S, NEW segs \in Seq(S), AsRead(segs)
  PROVE  Routes!Lower(segs) = segs
<1>1. segs = [i \in DOMAIN segs |-> segs[i]]
  OBVIOUS
<1>. QED
  BY <1>1 DEF Routes!Lower, AsRead

\* The words of the routes are as Express reads them.
LEMMA WordsAreRead ==
  /\ \A word \in Routes!RouteWords : word \notin DOMAIN Spelling /\ word \notin Routes!Dots
  /\ Routes!Plain \in Routes!RouteWords /\ Routes!Framework \in Routes!RouteWords
<1>1. \A word \in Routes!RouteWords : word \notin Routes!Dots
  BY DEF Routes!RouteWords, Routes!Dots, Routes!Plain, Routes!Framework
<1>2. \A word \in Routes!RouteWords : word \notin DOMAIN Spelling
  BY SpellingAssumption
<1>. QED
  BY <1>1, <1>2 DEF Routes!RouteWords

\* A path under a prefix.
LEMMA Prefixed ==
  ASSUME NEW S, NEW w \in S, NEW sub \in Seq(S)
  PROVE  LET p == <<w>> \o sub
         IN  /\ p \in Seq(S) /\ p # <<>> /\ Len(p) = Len(sub) + 1
             /\ p[1] = w /\ \A i \in 1 .. Len(sub) : p[i + 1] = sub[i]
             /\ Tail(p) = sub
OBVIOUS

\* Under a prefix too, a path without dots is its own pathname.
LEMMA PrefixedSame ==
  ASSUME NEW S, NEW w \in S, w \notin Routes!Dots, NEW sub \in Seq(S), NoDots(sub)
  PROVE  /\ Routes!Pathname(<<w>> \o sub) = <<w>> \o sub
         /\ Routes!Last(<<w>> \o sub) \notin Routes!Dots
<1>. DEFINE p == <<w>> \o sub
<1>1. p \in Seq(S) /\ Len(p) = Len(sub) + 1 /\ Len(sub) \in Nat
  BY Prefixed
<1>2. p[1] = w /\ \A i \in 1 .. Len(sub) : p[i + 1] = sub[i]
  BY Prefixed
<1>. HIDE DEF p
<1>3. \A i \in DOMAIN p : p[i] \notin Routes!Dots
  <2>. SUFFICES ASSUME NEW i \in 1 .. Len(p) PROVE p[i] \notin Routes!Dots
    BY <1>1
  <2>1. CASE i = 1
    BY <1>2, <2>1
  <2>2. CASE i # 1
    <3>1. i - 1 \in 1 .. Len(sub) /\ (i - 1) + 1 = i
      BY <1>1, <2>2
    <3>. QED
      <4>1. p[i] = sub[i - 1]
        BY <1>2, <3>1
      <4>2. i - 1 \in DOMAIN sub
        BY <3>1
      <4>. QED
        BY <4>1, <4>2 DEF NoDots
  <2>. QED
    BY <2>1, <2>2
<1>4. Routes!Pathname(p) = p
  BY <1>1, <1>3, PathnameSame
<1>5. Routes!Last(p) \notin Routes!Dots
  <2>1. Len(p) \in DOMAIN p
    BY <1>1
  <2>. QED
    BY <1>3, <2>1 DEF Routes!Last
<1>. QED
  BY <1>4, <1>5 DEF p

\* So is a path under a prefix what Express compares.
LEMMA PrefixedRead ==
  ASSUME NEW S, NEW w \in S, w \notin DOMAIN Spelling, NEW sub \in Seq(S)
  PROVE  /\ Routes!Lower(<<w>> \o sub)[1] = w
         /\ AsRead(sub) => Routes!Lower(<<w>> \o sub) = <<w>> \o sub
<1>. DEFINE p == <<w>> \o sub
<1>1. p \in Seq(S) /\ Len(p) = Len(sub) + 1 /\ Len(sub) \in Nat
  BY Prefixed
<1>2. p[1] = w /\ \A i \in 1 .. Len(sub) : p[i + 1] = sub[i]
  BY Prefixed
<1>. HIDE DEF p
<1>3. Routes!Lower(p)[1] = w
  <2>1. 1 \in DOMAIN p
    BY <1>1
  <2>. QED
    BY <1>2, <2>1 DEF Routes!Lower
<1>4. ASSUME AsRead(sub) PROVE Routes!Lower(p) = p
  <2>1. ASSUME NEW i \in 1 .. Len(p) PROVE p[i] \notin DOMAIN Spelling
    <3>1. CASE i = 1
      BY <1>2, <3>1
    <3>2. CASE i # 1
      <4>1. i - 1 \in 1 .. Len(sub) /\ (i - 1) + 1 = i
        BY <1>1, <3>2
      <4>2. p[i] = sub[i - 1] /\ i - 1 \in DOMAIN sub
        BY <1>2, <4>1
      <4>. QED
        BY <1>4, <4>2 DEF AsRead
    <3>. QED
      BY <3>1, <3>2
  <2>2. AsRead(p)
    BY <1>1, <2>1 DEF AsRead
  <2>. QED
    BY <1>1, <2>2, LowerSame
<1>. QED
  BY <1>3, <1>4 DEF p

\* A path without dots goes to the handler its prefix names.
LEMMA DispatchPlain ==
  ASSUME NEW S, Routes!Plain \in S,
         NEW sub \in Seq(S), NoDots(sub), NEW method, NEW slash \in BOOLEAN
  PROVE  Routes!Dispatch([method |-> method, segs |-> <<Routes!Plain>> \o sub,
                          slash |-> slash])
           = Routes!PlainAnswer(method, sub, slash)
<1>. DEFINE r == [method |-> method, segs |-> <<Routes!Plain>> \o sub, slash |-> slash]
<1>1. /\ r.segs # <<>> /\ r.method = method /\ r.slash = slash
      /\ Routes!Pathname(r.segs) = <<Routes!Plain>> \o sub
      /\ (<<Routes!Plain>> \o sub)[1] = Routes!Plain /\ Tail(<<Routes!Plain>> \o sub) = sub
      /\ <<Routes!Plain>> \o sub # <<>> /\ Routes!Last(r.segs) \notin Routes!Dots
  <2>1. Routes!Plain \notin Routes!Dots
    BY WordsAreRead
  <2>2. /\ <<Routes!Plain>> \o sub # <<>> /\ (<<Routes!Plain>> \o sub)[1] = Routes!Plain
        /\ Tail(<<Routes!Plain>> \o sub) = sub
    BY <2>1, Prefixed
  <2>3. Routes!Pathname(<<Routes!Plain>> \o sub) = <<Routes!Plain>> \o sub
        /\ Routes!Last(<<Routes!Plain>> \o sub) \notin Routes!Dots
    BY <2>1, PrefixedSame
  <2>. QED
    BY <2>2, <2>3
<1>. HIDE DEF r
<1>2. Routes!Dispatch(r)
        = Routes!PlainAnswer(r.method, sub,
                             r.slash \/ Routes!Last(r.segs) \in Routes!Dots)
  BY <1>1, Zenon DEF Routes!Dispatch
<1>3. (r.slash \/ Routes!Last(r.segs) \in Routes!Dots) = slash
  BY <1>1
<1>. QED
  BY <1>1, <1>2, <1>3 DEF r

\* A path that starts otherwise is not /healthz.
LEMMA StartsOtherwise ==
  ASSUME NEW low, low[1] # "healthz"
  PROVE  low # <<"healthz">>
OBVIOUS

\* http-framework answers what the path is in lower case.
LEMMA DispatchLower ==
  ASSUME NEW S, Routes!Framework \in S,
         NEW sub \in Seq(S), NoDots(sub), NEW method, NEW slash
  PROVE  Routes!Dispatch([method |-> method, segs |-> <<Routes!Framework>> \o sub,
                          slash |-> slash])
           = Routes!FrameworkAnswer(method, Tail(Routes!Lower(<<Routes!Framework>> \o sub)))
<1>. DEFINE r == [method |-> method, segs |-> <<Routes!Framework>> \o sub, slash |-> slash]
<1>1. /\ r.segs # <<>> /\ r.method = method /\ r.segs = <<Routes!Framework>> \o sub
      /\ Routes!Pathname(r.segs) = <<Routes!Framework>> \o sub
      /\ r.segs[1] = Routes!Framework /\ Routes!Lower(r.segs)[1] = Routes!Framework
  <2>1. Routes!Framework \notin Routes!Dots /\ Routes!Framework \notin DOMAIN Spelling
    BY WordsAreRead
  <2>2. /\ <<Routes!Framework>> \o sub # <<>>
        /\ (<<Routes!Framework>> \o sub)[1] = Routes!Framework
        /\ Routes!Lower(<<Routes!Framework>> \o sub)[1] = Routes!Framework
    BY <2>1, Prefixed, PrefixedRead
  <2>3. Routes!Pathname(<<Routes!Framework>> \o sub) = <<Routes!Framework>> \o sub
    BY <2>1, PrefixedSame
  <2>. QED
    BY <2>2, <2>3
<1>2. Routes!Framework # Routes!Plain /\ Routes!Framework # "healthz"
  BY DEF Routes!Framework, Routes!Plain
<1>. HIDE DEF r
<1>3. Routes!Lower(r.segs) # <<"healthz">>
  BY <1>1, <1>2, StartsOtherwise
<1>4. Routes!Dispatch(r) = Routes!FrameworkAnswer(r.method, Tail(Routes!Lower(r.segs)))
  BY <1>1, <1>2, <1>3, Zenon DEF Routes!Dispatch
<1>. QED
  BY <1>1, <1>4 DEF r

\* Which is the path itself, if it has no route word with capitals.
LEMMA DispatchFramework ==
  ASSUME NEW S, Routes!Framework \in S,
         NEW sub \in Seq(S), NoDots(sub), AsRead(sub), NEW method, NEW slash
  PROVE  Routes!Dispatch([method |-> method, segs |-> <<Routes!Framework>> \o sub,
                          slash |-> slash])
           = Routes!FrameworkAnswer(method, sub)
<1>1. Routes!Lower(<<Routes!Framework>> \o sub) = <<Routes!Framework>> \o sub
  BY WordsAreRead, PrefixedRead
<1>2. Tail(<<Routes!Framework>> \o sub) = sub
  BY Prefixed
<1>. QED
  BY <1>1, <1>2, DispatchLower

-----------------------------------------------------------------------------
(* The kinds of paths, and what the handlers answer to each. *)

Outbounds == {Routes!D \o <<"outbound", k>> : k \in {"static", "templated", "all"}}

Templated(sub) == \E p \in Routes!TemplatedRoutes : Routes!Matches(p, sub)

Shortcut(sub) ==
  /\ Len(sub) = 4 /\ sub[1] = "default" /\ sub[2] = "outbound"
  /\ sub[3] \in {"static", "templated"}

\* The lengths and the first segments of the routes.
LEMMA RouteShapes ==
  /\ \A p \in Outbounds : Len(p) = 3 /\ p[1] = "default" /\ p[2] = "outbound"
  /\ \A p \in Routes!ErrorRoutes : Len(p) = 3 /\ p[1] = "default" /\ p[2] = "errors"
  /\ \A p \in Routes!MethodRoutes : Len(p) \in {5, 6} /\ p[1] = "default" /\ p[2] = "method"
  /\ \A p \in Routes!StaticRoutes : Len(p) \in {3, 4, 5} /\ p[1] = "default" /\ p[2] = "static"
  /\ \A p \in Routes!TemplatedRoutes :
       Len(p) \in {4, 5, 6} /\ p[1] = "default" /\ p[2] = "templated" /\ p[3] \in {"1", "2", "3"}
<1>1. \A p \in Outbounds : Len(p) = 3 /\ p[1] = "default" /\ p[2] = "outbound"
  BY DEF Outbounds, Routes!D
<1>2. \A p \in Routes!ErrorRoutes : Len(p) = 3 /\ p[1] = "default" /\ p[2] = "errors"
  BY DEF Routes!ErrorRoutes, Routes!D
<1>3. \A p \in Routes!MethodRoutes : Len(p) \in {5, 6} /\ p[1] = "default" /\ p[2] = "method"
  <2>. SUFFICES ASSUME NEW p \in Routes!MethodRoutes
                PROVE  Len(p) \in {5, 6} /\ p[1] = "default" /\ p[2] = "method"
    OBVIOUS
  <2>1. CASE p = Routes!D \o <<"method", "custom-rule", "items", "widget">>
    BY <2>1 DEF Routes!D
  <2>2. CASE p = Routes!D \o <<"method", "default-heuristic", "orders", "1234567">>
    BY <2>2 DEF Routes!D
  <2>3. CASE p = Routes!D \o <<"method", "unchanged", "catalog", "widgets", "tools">>
    BY <2>3 DEF Routes!D
  <2>. QED
    BY <2>1, <2>2, <2>3 DEF Routes!MethodRoutes
<1>4. \A p \in Routes!StaticRoutes : Len(p) \in {3, 4, 5} /\ p[1] = "default" /\ p[2] = "static"
  BY DEF Routes!StaticRoutes, Routes!D
<1>5. \A p \in Routes!TemplatedRoutes :
        Len(p) \in {4, 5, 6} /\ p[1] = "default" /\ p[2] = "templated" /\ p[3] \in {"1", "2", "3"}
  BY DEF Routes!TemplatedRoutes, Routes!D
<1>. QED
  BY <1>1, <1>2, <1>3, <1>4, <1>5

\* A pattern without parameters is one path.
LEMMA LiteralPattern ==
  ASSUME NEW S, NEW T, NEW p \in Seq(T), NEW sub \in Seq(S), \A i \in DOMAIN p : p[i] # ":"
  PROVE  Routes!Matches(p, sub) <=> sub = p
<1>1. ASSUME Routes!Matches(p, sub) PROVE sub = p
  <2>1. Len(sub) = Len(p) /\ \A i \in 1 .. Len(p) : sub[i] = p[i]
    BY <1>1 DEF Routes!Matches
  <2>2. p \in Seq(S \union T) /\ sub \in Seq(S \union T)
    OBVIOUS
  <2>. QED
    BY <2>1, <2>2, SameElements
<1>2. Routes!Matches(p, p)
  BY DEF Routes!Matches
<1>. QED
  BY <1>1, <1>2

\* The same of the sets of routes without parameters, and of the shortcuts.
LEMMA LiteralRoutes ==
  ASSUME NEW S, NEW sub \in Seq(S),
         NEW R \in {{Routes!D}, Outbounds, Routes!ErrorRoutes, Routes!StaticRoutes}
  PROVE  (\E p \in R : Routes!Matches(p, sub)) <=> sub \in R
<1>1. \A p \in R : (\E T : p \in Seq(T)) /\ \A i \in DOMAIN p : p[i] # ":"
  <2>. SUFFICES ASSUME NEW p \in R
                PROVE  (\E T : p \in Seq(T)) /\ \A i \in DOMAIN p : p[i] # ":"
    OBVIOUS
  <2>1. CASE R = {Routes!D}
    <3>1. p = <<"default">>
      BY <2>1 DEF Routes!D
    <3>2. <<"default">> \in Seq({"default"}) /\ DOMAIN <<"default">> = 1 .. 1
      OBVIOUS
    <3>3. p \in Seq({"default"}) /\ DOMAIN p = 1 .. 1 /\ p[1] = "default"
      BY <3>1, <3>2
    <3>. QED
      BY <3>3
  <2>2. CASE R = Outbounds
    <3>1. PICK k \in {"static", "templated", "all"} : p = Routes!D \o <<"outbound", k>>
      BY <2>2 DEF Outbounds
    <3>2. /\ p \in Seq({"default", "outbound", k}) /\ DOMAIN p = 1 .. 3
          /\ p[1] = "default" /\ p[2] = "outbound" /\ p[3] = k
      BY <3>1 DEF Routes!D
    <3>. QED
      BY <3>2
  <2>3. CASE R = Routes!ErrorRoutes
    <3>1. PICK c \in {"400", "401", "404", "500"} : p = Routes!D \o <<"errors", c>>
      BY <2>3 DEF Routes!ErrorRoutes
    <3>2. /\ p \in Seq({"default", "errors", c}) /\ DOMAIN p = 1 .. 3
          /\ p[1] = "default" /\ p[2] = "errors" /\ p[3] = c
      BY <3>1 DEF Routes!D
    <3>. QED
      BY <3>2
  <2>4. CASE R = Routes!StaticRoutes
    <3>1. CASE p = Routes!D \o <<"static", "a">>
      <4>1. /\ p \in Seq({"default", "static", "a"}) /\ DOMAIN p = 1 .. 3
            /\ p[1] = "default" /\ p[2] = "static" /\ p[3] = "a"
        BY <3>1 DEF Routes!D
      <4>. QED
        BY <4>1
    <3>2. CASE p = Routes!D \o <<"static", "a", "b">>
      <4>1. /\ p \in Seq({"default", "static", "a", "b"}) /\ DOMAIN p = 1 .. 4
            /\ p[1] = "default" /\ p[2] = "static" /\ p[3] = "a" /\ p[4] = "b"
        BY <3>2 DEF Routes!D
      <4>. QED
        BY <4>1
    <3>3. CASE p = Routes!D \o <<"static", "a", "b", "c">>
      <4>1. /\ p \in Seq({"default", "static", "a", "b", "c"}) /\ DOMAIN p = 1 .. 5
            /\ p[1] = "default" /\ p[2] = "static" /\ p[3] = "a" /\ p[4] = "b" /\ p[5] = "c"
        BY <3>3 DEF Routes!D
      <4>. QED
        BY <4>1
    <3>. QED
      BY <2>4, <3>1, <3>2, <3>3 DEF Routes!StaticRoutes
  <2>. QED
    BY <2>1, <2>2, <2>3, <2>4
<1>. QED
  BY <1>1, LiteralPattern

LEMMA ShortcutRoutes ==
  ASSUME NEW S, NEW sub \in Seq(S)
  PROVE  (\E p \in {Routes!D \o <<"outbound", k, ":">> : k \in {"static", "templated"}} :
            Routes!Matches(p, sub)) <=> Shortcut(sub)
<1>1. ASSUME NEW k \in {"static", "templated"}
      PROVE  LET p == Routes!D \o <<"outbound", k, ":">>
             IN  /\ p[1] = "default" /\ p[2] = "outbound" /\ p[3] = k /\ p[4] = ":"
                 /\ DOMAIN p = 1 .. 4 /\ Len(p) = 4
  BY DEF Routes!D
<1>2. ASSUME NEW k \in {"static", "templated"}
      PROVE  Routes!Matches(Routes!D \o <<"outbound", k, ":">>, sub)
               <=> Len(sub) = 4 /\ sub[1] = "default" /\ sub[2] = "outbound" /\ sub[3] = k
  <2>. DEFINE p == Routes!D \o <<"outbound", k, ":">>
  <2>1. /\ p[1] = "default" /\ p[2] = "outbound" /\ p[3] = k /\ p[4] = ":"
        /\ DOMAIN p = 1 .. 4 /\ Len(p) = 4
    BY <1>1
  <2>. HIDE DEF p
  <2>2. Routes!Matches(p, sub)
               <=> Len(sub) = 4 /\ sub[1] = "default" /\ sub[2] = "outbound" /\ sub[3] = k
    BY <2>1 DEF Routes!Matches
  <2>. QED
    BY <2>2 DEF p
<1>. QED
  BY <1>2 DEF Shortcut

\* The shapes tell the kinds of paths apart.
LEMMA Kinds ==
  ASSUME NEW S, NEW sub \in Seq(S)
  PROVE  /\ sub = <<>> => Len(sub) = 0
         /\ sub = Routes!D => Len(sub) = 1
         /\ sub \in Routes!MethodRoutes => Len(sub) \in {5, 6} /\ sub[2] = "method"
         /\ sub \in Outbounds => Len(sub) = 3 /\ sub[2] = "outbound"
         /\ sub \in Routes!ErrorRoutes => Len(sub) = 3 /\ sub[2] = "errors"
         /\ sub \in Routes!StaticRoutes => Len(sub) \in {3, 4, 5} /\ sub[2] = "static"
         /\ Templated(sub) => Len(sub) \in {4, 5, 6} /\ sub[2] = "templated"
         /\ Shortcut(sub) => Len(sub) = 4 /\ sub[2] = "outbound"
<1>1. sub = Routes!D => Len(sub) = 1
  BY DEF Routes!D
<1>2. ASSUME NEW p \in Routes!TemplatedRoutes, Routes!Matches(p, sub)
      PROVE  Len(sub) \in {4, 5, 6} /\ sub[2] = "templated"
  <2>1. Len(p) \in {4, 5, 6} /\ p[2] = "templated" /\ DOMAIN p = 1 .. Len(p)
    BY RouteShapes DEF Routes!TemplatedRoutes, Routes!D
  <2>. QED
    BY <1>2, <2>1 DEF Routes!Matches
<1>. QED
  BY <1>1, <1>2, RouteShapes DEF Templated, Shortcut

\* What both handlers make of a kind of path.
Plain200(a) == a.status = "200" /\ a.fetches = {}

\* No path is of two kinds.
LEMMA OneKind ==
  ASSUME NEW S, NEW sub \in Seq(S)
  PROVE  /\ sub = <<>> =>
              ~ (sub \in Routes!MethodRoutes \/ sub = Routes!D \/ sub \in Outbounds
                 \/ sub \in Routes!ErrorRoutes \/ sub \in Routes!StaticRoutes
                 \/ Templated(sub) \/ Shortcut(sub))
         /\ sub \in Routes!MethodRoutes =>
              ~ (sub = Routes!D \/ sub \in Outbounds \/ sub \in Routes!ErrorRoutes
                 \/ sub \in Routes!StaticRoutes \/ Templated(sub) \/ Shortcut(sub))
         /\ sub = Routes!D =>
              ~ (sub \in Outbounds \/ sub \in Routes!ErrorRoutes
                 \/ sub \in Routes!StaticRoutes \/ Templated(sub) \/ Shortcut(sub))
         /\ sub \in Outbounds =>
              ~ (sub \in Routes!ErrorRoutes \/ sub \in Routes!StaticRoutes \/ Templated(sub)
                 \/ Shortcut(sub))
         /\ sub \in Routes!ErrorRoutes =>
              ~ (sub \in Routes!StaticRoutes \/ Templated(sub) \/ Shortcut(sub))
         /\ sub \in Routes!StaticRoutes =>
              ~ (Templated(sub) \/ Shortcut(sub))
         /\ Templated(sub) =>
              ~ (Shortcut(sub))
<1>. DEFINE n == Len(sub)
            w == sub[2]
<1>0. /\ sub = <<>> => n = 0
      /\ sub = Routes!D => n = 1
      /\ sub \in Routes!MethodRoutes => n \in {5, 6} /\ w = "method"
      /\ sub \in Outbounds => n = 3 /\ w = "outbound"
      /\ sub \in Routes!ErrorRoutes => n = 3 /\ w = "errors"
      /\ sub \in Routes!StaticRoutes => n \in {3, 4, 5} /\ w = "static"
      /\ Templated(sub) => n \in {4, 5, 6} /\ w = "templated"
      /\ Shortcut(sub) => n = 4 /\ w = "outbound"
  BY Kinds
<1>. HIDE DEF n, w
<1>1. sub = <<>> =>
        ~ (sub \in Routes!MethodRoutes \/ sub = Routes!D \/ sub \in Outbounds
           \/ sub \in Routes!ErrorRoutes \/ sub \in Routes!StaticRoutes \/ Templated(sub)
           \/ Shortcut(sub))
  BY <1>0
<1>2. sub \in Routes!MethodRoutes =>
        ~ (sub = Routes!D \/ sub \in Outbounds \/ sub \in Routes!ErrorRoutes
           \/ sub \in Routes!StaticRoutes \/ Templated(sub) \/ Shortcut(sub))
  BY <1>0
<1>3. sub = Routes!D =>
        ~ (sub \in Outbounds \/ sub \in Routes!ErrorRoutes \/ sub \in Routes!StaticRoutes
           \/ Templated(sub) \/ Shortcut(sub))
  BY <1>0
<1>4. sub \in Outbounds =>
        ~ (sub \in Routes!ErrorRoutes \/ sub \in Routes!StaticRoutes \/ Templated(sub)
           \/ Shortcut(sub))
  BY <1>0
<1>5. sub \in Routes!ErrorRoutes =>
        ~ (sub \in Routes!StaticRoutes \/ Templated(sub) \/ Shortcut(sub))
  BY <1>0
<1>6. sub \in Routes!StaticRoutes =>
        ~ (Templated(sub) \/ Shortcut(sub))
  BY <1>0
<1>7. Templated(sub) =>
        ~ (Shortcut(sub))
  BY <1>0
<1>. QED
  BY <1>1, <1>2, <1>3, <1>4, <1>5, <1>6, <1>7

\* What plain-http answers to a path of each kind.
LEMMA PlainAnswers ==
  ASSUME NEW S, NEW sub \in Seq(S), NEW method \in {"GET", "HEAD"}
  PROVE  LET a == Routes!PlainAnswer(method, sub, FALSE)
         IN  /\ sub = <<>> => Plain200(a)
             /\ sub \in Routes!MethodRoutes => Plain200(a)
             /\ sub = Routes!D => Plain200(a)
             /\ sub \in Outbounds =>
                  a = Routes!Trigger(Routes!Plain,
                                     Routes!OutboundPaths(Routes!Plain, Routes!Last(sub)))
             /\ sub \in Routes!ErrorRoutes => a.status = Routes!Last(sub) /\ a.fetches = {}
             /\ sub \in Routes!StaticRoutes => Plain200(a)
             /\ Templated(sub) => Plain200(a)
             /\ \/ sub = <<>> \/ sub \in Routes!MethodRoutes \/ sub = Routes!D \/ sub \in Outbounds
                \/ sub \in Routes!ErrorRoutes \/ sub \in Routes!StaticRoutes \/ Templated(sub)
                \/ a.status = "404" /\ a.fetches = {}
<1>. DEFINE a == Routes!PlainAnswer(method, sub, FALSE)
<1>1. a = CASE sub = <<>> -> Routes!Says(Routes!Plain, "200", "index")
       [] sub \in Routes!MethodRoutes -> Routes!Says(Routes!Plain, "200", "method_test")
       [] sub = Routes!D -> Routes!Says(Routes!Plain, "200", "default_index")
       [] sub \in Outbounds ->
            Routes!Trigger(Routes!Plain, Routes!OutboundPaths(Routes!Plain, Routes!Last(sub)))
       [] sub \in Routes!ErrorRoutes -> Routes!Says(Routes!Plain, Routes!Last(sub), "http_error")
       [] sub \in Routes!StaticRoutes -> Routes!Says(Routes!Plain, "200", "static_exact")
       [] Templated(sub) -> Routes!Says(Routes!Plain, "200", "templated")
       [] OTHER -> Routes!Says(Routes!Plain, "404", "not_found")
  BY DEF Routes!PlainAnswer, Outbounds, Templated
<1>. HIDE DEF a
<1>2. sub = <<>> => a = Routes!Says(Routes!Plain, "200", "index")
  BY <1>1, OneKind, Zenon
<1>3. sub \in Routes!MethodRoutes => a = Routes!Says(Routes!Plain, "200", "method_test")
  BY <1>1, OneKind, Zenon
<1>4. sub = Routes!D => a = Routes!Says(Routes!Plain, "200", "default_index")
  BY <1>1, OneKind, Zenon
<1>5. sub \in Outbounds => a = Routes!Trigger(Routes!Plain,
                           Routes!OutboundPaths(Routes!Plain, Routes!Last(sub)))
  BY <1>1, OneKind, Zenon
<1>6. sub \in Routes!ErrorRoutes => a = Routes!Says(Routes!Plain, Routes!Last(sub), "http_error")
  BY <1>1, OneKind, Zenon
<1>7. sub \in Routes!StaticRoutes => a = Routes!Says(Routes!Plain, "200", "static_exact")
  BY <1>1, OneKind, Zenon
<1>8. Templated(sub) => a = Routes!Says(Routes!Plain, "200", "templated")
  BY <1>1, OneKind, Zenon
<1>9. \/ sub = <<>> \/ sub \in Routes!MethodRoutes \/ sub = Routes!D \/ sub \in Outbounds
      \/ sub \in Routes!ErrorRoutes \/ sub \in Routes!StaticRoutes \/ Templated(sub)
      \/ a = Routes!Says(Routes!Plain, "404", "not_found")
  BY <1>1, Zenon
<1>10. \A b, st, c : Plain200(Routes!Says(b, "200", c)) /\ Routes!Says(b, st, c).status = st
                       /\ Routes!Says(b, st, c).fetches = {}
  BY DEF Routes!Says, Plain200
<1>. HIDE DEF a
<1>11. /\ sub = <<>> => Plain200(a)
       /\ sub \in Routes!MethodRoutes => Plain200(a)
       /\ sub = Routes!D => Plain200(a)
       /\ sub \in Routes!StaticRoutes => Plain200(a)
       /\ Templated(sub) => Plain200(a)
  BY <1>2, <1>3, <1>4, <1>7, <1>8, <1>10
<1>12. sub \in Routes!ErrorRoutes => a.status = Routes!Last(sub) /\ a.fetches = {}
  BY <1>6, <1>10
<1>13. \/ sub = <<>> \/ sub \in Routes!MethodRoutes \/ sub = Routes!D \/ sub \in Outbounds
       \/ sub \in Routes!ErrorRoutes \/ sub \in Routes!StaticRoutes \/ Templated(sub)
       \/ a.status = "404" /\ a.fetches = {}
  BY <1>9, <1>10
<1>. QED
  BY <1>5, <1>11, <1>12, <1>13 DEF a

\* What http-framework answers to a path of each kind.
LEMMA FrameworkAnswers ==
  ASSUME NEW S, NEW sub \in Seq(S), NEW method \in {"GET", "HEAD"}
  PROVE  LET a == Routes!FrameworkAnswer(method, sub)
         IN  /\ sub = Routes!D => Plain200(a)
             /\ sub \in Outbounds =>
                  a = Routes!Trigger(Routes!Framework,
                                     Routes!OutboundPaths(Routes!Framework, Routes!Last(sub)))
             /\ sub \in Routes!ErrorRoutes => a.status = Routes!Last(sub) /\ a.fetches = {}
             /\ sub \in Routes!StaticRoutes => Plain200(a)
             /\ Templated(sub) => Plain200(a)
             /\ Shortcut(sub) =>
                  IF Routes!Last(sub) \in {"1", "2", "3"}
                  THEN /\ a.status = "200"
                       /\ a.fetches \subseteq Routes!OutboundPaths(Routes!Framework, sub[3])
                  ELSE a.status = "404" /\ a.fetches = {}
             /\ \/ sub = Routes!D \/ sub \in Outbounds \/ sub \in Routes!ErrorRoutes
                \/ sub \in Routes!StaticRoutes \/ Templated(sub) \/ Shortcut(sub)
                \/ a.status = "404" /\ a.fetches = {}
<1>. DEFINE a == Routes!FrameworkAnswer(method, sub)
            Routed(R) == \E p \in R : Routes!Matches(p, sub)
            Shortcuts == {Routes!D \o <<"outbound", k, ":">> : k \in {"static", "templated"}}
            ByDepth ==
              IF Routes!Last(sub) \in {"1", "2", "3"}
              THEN Routes!Trigger(Routes!Framework,
                     {p \in Routes!OutboundPaths(Routes!Framework, sub[3]) :
                        IF sub[3] = "static" THEN <<"1", "2", "3">>[Len(p) - 3] = Routes!Last(sub)
                        ELSE p[4] = Routes!Last(sub)})
              ELSE Routes!Says(Routes!Framework, "404", "unknown_depth")
<1>0. a = CASE Routed({Routes!D}) -> Routes!Says(Routes!Framework, "200", "default_index")
       [] Routed(Routes!StaticRoutes) -> Routes!Says(Routes!Framework, "200", "static_exact")
       [] Routed(Routes!TemplatedRoutes) -> Routes!Says(Routes!Framework, "200", "templated")
       [] Routed(Outbounds) ->
            Routes!Trigger(Routes!Framework,
                           Routes!OutboundPaths(Routes!Framework, Routes!Last(sub)))
       [] Routed(Shortcuts) -> ByDepth
       [] Routed(Routes!ErrorRoutes) ->
            Routes!Says(Routes!Framework, Routes!Last(sub), "http_error")
       [] OTHER -> Routes!Says("express", "404", "not_found")
  BY Zenon DEF Routes!FrameworkAnswer, Outbounds
<1>1. /\ Routed({Routes!D}) <=> sub = Routes!D
      /\ Routed(Routes!StaticRoutes) <=> sub \in Routes!StaticRoutes
      /\ Routed(Outbounds) <=> sub \in Outbounds
      /\ Routed(Shortcuts) <=> Shortcut(sub)
      /\ Routed(Routes!ErrorRoutes) <=> sub \in Routes!ErrorRoutes
      /\ Routed(Routes!TemplatedRoutes) <=> Templated(sub)
  <2>1. /\ Routed({Routes!D}) <=> sub \in {Routes!D}
        /\ Routed(Routes!StaticRoutes) <=> sub \in Routes!StaticRoutes
        /\ Routed(Outbounds) <=> sub \in Outbounds
        /\ Routed(Routes!ErrorRoutes) <=> sub \in Routes!ErrorRoutes
    BY LiteralRoutes, Zenon
  <2>2. Routed(Shortcuts) <=> Shortcut(sub)
    BY ShortcutRoutes
  <2>3. Routed(Routes!TemplatedRoutes) <=> Templated(sub)
    BY DEF Templated
  <2>. QED
    BY <2>1, <2>2, <2>3
<1>. HIDE DEF a, Routed, Shortcuts, ByDepth
<1>2. sub = Routes!D => a = Routes!Says(Routes!Framework, "200", "default_index")
  BY <1>0, <1>1, OneKind, Zenon
<1>3. sub \in Routes!StaticRoutes => a = Routes!Says(Routes!Framework, "200", "static_exact")
  BY <1>0, <1>1, OneKind, Zenon
<1>4. Templated(sub) => a = Routes!Says(Routes!Framework, "200", "templated")
  BY <1>0, <1>1, OneKind, Zenon
<1>5. sub \in Outbounds => a = Routes!Trigger(Routes!Framework,
                           Routes!OutboundPaths(Routes!Framework, Routes!Last(sub)))
  BY <1>0, <1>1, OneKind, Zenon
<1>6. Shortcut(sub) => a = ByDepth
  BY <1>0, <1>1, OneKind, Zenon
<1>7. sub \in Routes!ErrorRoutes =>
        a = Routes!Says(Routes!Framework, Routes!Last(sub), "http_error")
  BY <1>0, <1>1, OneKind, Zenon
<1>8. \/ sub = Routes!D \/ sub \in Outbounds \/ sub \in Routes!ErrorRoutes
      \/ sub \in Routes!StaticRoutes \/ Templated(sub) \/ Shortcut(sub)
      \/ a = Routes!Says("express", "404", "not_found")
  BY <1>0, <1>1, Zenon
<1>10. \A b, st, c : Plain200(Routes!Says(b, "200", c)) /\ Routes!Says(b, st, c).status = st
                       /\ Routes!Says(b, st, c).fetches = {}
  BY DEF Routes!Says, Plain200
<1>11. /\ sub = Routes!D => Plain200(a)
       /\ sub \in Routes!StaticRoutes => Plain200(a)
       /\ Templated(sub) => Plain200(a)
  BY <1>2, <1>3, <1>4, <1>10
<1>12. sub \in Routes!ErrorRoutes => a.status = Routes!Last(sub) /\ a.fetches = {}
  BY <1>7, <1>10
<1>13. \/ sub = Routes!D \/ sub \in Outbounds \/ sub \in Routes!ErrorRoutes
       \/ sub \in Routes!StaticRoutes \/ Templated(sub) \/ Shortcut(sub)
       \/ a.status = "404" /\ a.fetches = {}
  BY <1>8, <1>10
<1>14. Shortcut(sub) =>
         IF Routes!Last(sub) \in {"1", "2", "3"}
         THEN a.status = "200" /\ a.fetches \subseteq Routes!OutboundPaths(Routes!Framework, sub[3])
         ELSE a.status = "404" /\ a.fetches = {}
  <2>1. CASE Routes!Last(sub) \in {"1", "2", "3"}
    BY <1>6, <2>1 DEF ByDepth, Routes!Trigger
  <2>2. CASE Routes!Last(sub) \notin {"1", "2", "3"}
    BY <1>6, <1>10, <2>2 DEF ByDepth
  <2>. QED
    BY <2>1, <2>2
<1>. QED
  BY <1>5, <1>11, <1>12, <1>13, <1>14 DEF a

-----------------------------------------------------------------------------
(* What the triggers fetch. *)

Words == {"default", "static", "templated", "1", "2", "3", "a", "b", "c", "foo", "bar", "baz"}

\* What a trigger fetches, without the prefix.
SubPaths(kind) ==
  (IF kind = "templated" THEN {} ELSE Routes!StaticRoutes)
  \union
  {Routes!Example(p) : p \in (IF kind = "static" THEN {} ELSE Routes!TemplatedRoutes)}

\* The paths a trigger fetches are made of these words and are answered.
LEMMA StaticPath ==
  ASSUME NEW q \in Routes!StaticRoutes
  PROVE  q \in Seq(Words)
<1>1. CASE q = Routes!D \o <<"static", "a">>
  <2>1. /\ q \in Seq({"default", "static", "a"}) /\ DOMAIN q = 1 .. 3
        /\ q[1] = "default" /\ q[2] = "static" /\ q[3] = "a"
    BY <1>1 DEF Routes!D
  <2>. QED
    BY <2>1 DEF Words
<1>2. CASE q = Routes!D \o <<"static", "a", "b">>
  <2>1. /\ q \in Seq({"default", "static", "a", "b"}) /\ DOMAIN q = 1 .. 4
        /\ q[1] = "default" /\ q[2] = "static" /\ q[3] = "a" /\ q[4] = "b"
    BY <1>2 DEF Routes!D
  <2>. QED
    BY <2>1 DEF Words
<1>3. CASE q = Routes!D \o <<"static", "a", "b", "c">>
  <2>1. /\ q \in Seq({"default", "static", "a", "b", "c"}) /\ DOMAIN q = 1 .. 5
        /\ q[1] = "default" /\ q[2] = "static" /\ q[3] = "a" /\ q[4] = "b" /\ q[5] = "c"
    BY <1>3 DEF Routes!D
  <2>. QED
    BY <2>1 DEF Words
<1>. QED
  BY <1>1, <1>2, <1>3 DEF Routes!StaticRoutes

\* The segments of a templated route.
LEMMA Template ==
  ASSUME NEW p \in Routes!TemplatedRoutes
  PROVE  /\ DOMAIN p = 1 .. Len(p) /\ Len(p) \in {4, 5, 6}
         /\ \A i \in 1 .. Len(p) :
              IF i >= 4 THEN p[i] = ":" ELSE p[i] \in Words /\ p[i] # ":"
<1>1. CASE p = Routes!D \o <<"templated", "1", ":">>
  <2>1. /\ Len(p) = 4 /\ DOMAIN p = 1 .. 4
        /\ p[1] = "default" /\ p[2] = "templated" /\ p[3] = "1" /\ p[4] = ":"
    BY <1>1 DEF Routes!D
  <2>. QED
    BY <2>1 DEF Words
<1>2. CASE p = Routes!D \o <<"templated", "2", ":", ":">>
  <2>1. /\ Len(p) = 5 /\ DOMAIN p = 1 .. 5
        /\ p[1] = "default" /\ p[2] = "templated" /\ p[3] = "2" /\ p[4] = ":" /\ p[5] = ":"
    BY <1>2 DEF Routes!D
  <2>. QED
    BY <2>1 DEF Words
<1>3. CASE p = Routes!D \o <<"templated", "3", ":", ":", ":">>
  <2>1. /\ Len(p) = 6 /\ DOMAIN p = 1 .. 6
        /\ p[1] = "default" /\ p[2] = "templated" /\ p[3] = "3"
        /\ p[4] = ":" /\ p[5] = ":" /\ p[6] = ":"
    BY <1>3 DEF Routes!D
  <2>. QED
    BY <2>1 DEF Words
<1>. QED
  BY <1>1, <1>2, <1>3 DEF Routes!TemplatedRoutes

LEMMA ExamplePath ==
  ASSUME NEW p \in Routes!TemplatedRoutes
  PROVE  LET q == Routes!Example(p) IN q \in Seq(Words) /\ Templated(q)
<1>. DEFINE q == Routes!Example(p)
            n == Len(p)
<1>1. /\ DOMAIN p = 1 .. n /\ n \in {4, 5, 6}
      /\ \A i \in 1 .. n :
           IF i >= 4 THEN p[i] = ":" ELSE p[i] \in Words /\ p[i] # ":"
  BY Template
<1>. HIDE DEF n
<1>2. \A j \in 1 .. 3 : <<"foo", "bar", "baz">>[j] \in Words
  BY DEF Words
<1>3. /\ q = [i \in 1 .. n |-> q[i]]
      /\ \A i \in 1 .. n : q[i] = IF p[i] = ":" THEN <<"foo", "bar", "baz">>[i - 3] ELSE p[i]
  BY <1>1, Zenon DEF Routes!Example
<1>4. \A i \in 1 .. n : q[i] \in Words /\ (p[i] = ":" \/ p[i] = q[i])
  <2>. SUFFICES ASSUME NEW i \in 1 .. n
                PROVE  q[i] \in Words /\ (p[i] = ":" \/ p[i] = q[i])
    OBVIOUS
  <2>1. CASE i >= 4
    <3>1. p[i] = ":" /\ i - 3 \in 1 .. 3
      BY <1>1, <2>1
    <3>. HIDE DEF q
    <3>. QED
      BY <1>2, <1>3, <3>1
  <2>2. CASE ~ (i >= 4)
    <3>1. p[i] \in Words /\ p[i] # ":"
      BY <1>1, <2>2
    <3>. HIDE DEF q
    <3>. QED
      BY <1>3, <3>1
  <2>. QED
    BY <2>1, <2>2
<1>. HIDE DEF q
<1>5. q \in Seq(Words) /\ Len(q) = n /\ DOMAIN q = 1 .. n
  <2>1. n \in Nat /\ q = [i \in 1 .. n |-> q[i]] /\ \A i \in 1 .. n : q[i] \in Words
    BY <1>1, <1>3, <1>4
  <2>. QED
    BY <2>1
<1>6. Routes!Matches(p, q)
  BY <1>1, <1>4, <1>5 DEF Routes!Matches, n
<1>. QED
  BY <1>5, <1>6 DEF Templated, q

\* They are written as Express reads them, without dots.
LEMMA WordsPlain ==
  ASSUME NEW sub \in Seq(Routes!RouteWords)
  PROVE  NoDots(sub) /\ AsRead(sub)
BY WordsAreRead DEF NoDots, AsRead

LEMMA SubPathsAre ==
  ASSUME NEW kind, NEW q \in SubPaths(kind)
  PROVE  /\ q \in Seq(Words) /\ NoDots(q) /\ AsRead(q)
         /\ q \in Routes!StaticRoutes \/ Templated(q)
<1>1. q \in Seq(Words) /\ (q \in Routes!StaticRoutes \/ Templated(q))
  BY StaticPath, ExamplePath DEF SubPaths
<1>2. Words \subseteq Routes!RouteWords
  BY DEF Words, Routes!RouteWords
<1>3. q \in Seq(Routes!RouteWords)
  <2>. HIDE DEF Words, Routes!RouteWords
  <2>. QED
    BY <1>1, <1>2
<1>. QED
  BY <1>1, <1>3, WordsPlain

\* What a trigger fetches are these paths under its prefix.
LEMMA OutboundTails ==
  ASSUME NEW w, NEW kind
  PROVE  /\ Routes!OutboundPaths(w, kind) = {<<w>> \o q : q \in SubPaths(kind)}
         /\ {Tail(p) : p \in Routes!OutboundPaths(w, kind)} = SubPaths(kind)
<1>1. Routes!OutboundPaths(w, kind) = {<<w>> \o q : q \in SubPaths(kind)}
  BY DEF Routes!OutboundPaths, SubPaths
<1>2. \A q \in SubPaths(kind) : Tail(<<w>> \o q) = q
  <2>. SUFFICES ASSUME NEW q \in SubPaths(kind) PROVE Tail(<<w>> \o q) = q
    OBVIOUS
  <2>1. q \in Seq(Words \union {w})
    BY SubPathsAre
  <2>. QED
    BY <2>1, Prefixed
<1>3. \A x : (\E p \in {<<w>> \o q : q \in SubPaths(kind)} : x = Tail(p)) <=> x \in SubPaths(kind)
  <2>. SUFFICES ASSUME NEW x
                PROVE  (\E p \in {<<w>> \o q : q \in SubPaths(kind)} : x = Tail(p))
                         <=> x \in SubPaths(kind)
    OBVIOUS
  <2>1. ASSUME NEW p \in {<<w>> \o q : q \in SubPaths(kind)}, x = Tail(p)
        PROVE  x \in SubPaths(kind)
    <3>1. PICK q \in SubPaths(kind) : p = <<w>> \o q
      BY <2>1
    <3>. QED
      BY <1>2, <2>1, <3>1
  <2>2. ASSUME x \in SubPaths(kind)
        PROVE  \E p \in {<<w>> \o q : q \in SubPaths(kind)} : x = Tail(p)
    <3>1. <<w>> \o x \in {<<w>> \o q : q \in SubPaths(kind)}
      BY <2>2
    <3>. QED
      BY <1>2, <2>2, <3>1
  <2>. QED
    BY <2>1, <2>2
<1>. QED
  BY <1>1, <1>3

-----------------------------------------------------------------------------
(* Where the two handlers agree. *)

Depths == {"1", "2", "3"}

\* The last segment.
LEMMA LastIs ==
  ASSUME NEW S, NEW sub \in Seq(S), Len(sub) > 0
  PROVE  Routes!Last(sub) = sub[Len(sub)]
BY DEF Routes!Last

\* The paths of one handler only, among those without dots and capitals.
LEMMA OnlyOneIs ==
  ASSUME NEW S, NEW sub \in Seq(S), NoDots(sub), AsRead(sub)
  PROVE  Routes!OnlyOne(sub)
           <=> \/ sub = <<>> \/ sub \in Routes!MethodRoutes
               \/ Shortcut(sub) /\ Routes!Last(sub) \in Depths
<1>. DEFINE C == \E kind \in {"static", "templated"}, depth \in {"1", "2", "3"} :
                   sub = Routes!D \o <<"outbound", kind, depth>>
<1>1. ASSUME C
      PROVE  Shortcut(sub) /\ Routes!Last(sub) \in Depths
  <2>0. PICK k \in {"static", "templated"}, d \in {"1", "2", "3"} :
               sub = Routes!D \o <<"outbound", k, d>>
    BY <1>1
  <2>. HIDE DEF C
  <2>1. Len(sub) = 4 /\ sub[1] = "default" /\ sub[2] = "outbound" /\ sub[3] = k /\ sub[4] = d
    BY <2>0 DEF Routes!D
  <2>2. Routes!Last(sub) = d
    <3>1. Len(sub) > 0
      BY <2>1
    <3>2. Routes!Last(sub) = sub[Len(sub)]
      BY <3>1, LastIs
    <3>. QED
      BY <2>1, <3>2
  <2>. QED
    BY <2>1, <2>2 DEF Shortcut, Depths
<1>2. ASSUME Shortcut(sub), Routes!Last(sub) \in Depths
      PROVE  C
  <2>. DEFINE c == Routes!D \o <<"outbound", sub[3], sub[4]>>
              T == S \union {"default", "outbound", sub[3], sub[4]}
  <2>1. Len(sub) = 4 /\ sub[4] \in {"1", "2", "3"} /\ sub[3] \in {"static", "templated"}
        /\ sub[1] = "default" /\ sub[2] = "outbound"
    BY <1>2, LastIs DEF Shortcut, Depths
  <2>2. /\ c \in Seq({"default", "outbound", sub[3], sub[4]}) /\ Len(c) = 4
        /\ c[1] = "default" /\ c[2] = "outbound" /\ c[3] = sub[3] /\ c[4] = sub[4]
    BY DEF Routes!D
  <2>. HIDE DEF c
  <2>3. c \in Seq(T) /\ sub \in Seq(T)
    BY <2>2
  <2>4. \A i \in 1 .. 4 : sub[i] = c[i]
    BY <2>1, <2>2
  <2>5. sub = c
    <3>. HIDE DEF T
    <3>. QED
      BY <2>1, <2>2, <2>3, <2>4, SameElements
  <2>6. PICK k \in {"static", "templated"}, d \in {"1", "2", "3"} : k = sub[3] /\ d = sub[4]
    BY <2>1
  <2>7. sub = Routes!D \o <<"outbound", k, d>>
    BY <2>5, <2>6 DEF c
  <2>. QED
    BY <2>7
<1>. HIDE DEF C
<1>3. Routes!OnlyOne(sub) <=> sub = <<>> \/ sub \in Routes!MethodRoutes \/ C
  <2>1. Routes!OnlyOne(sub)
          <=> \/ sub \in Routes!MethodRoutes \union {<<>>}
              \/ \E i \in DOMAIN sub : sub[i] \in Routes!Dots
              \/ Routes!Lower(sub) \in Routes!StaticRoutes /\ sub \notin Routes!StaticRoutes
              \/ C
    BY Zenon DEF Routes!OnlyOne, C
  <2>2. Routes!Lower(sub) = sub
    BY LowerSame
  <2>3. ~ \E i \in DOMAIN sub : sub[i] \in Routes!Dots
    BY DEF NoDots
  <2>. QED
    BY <2>1, <2>2, <2>3
<1>. QED
  BY <1>1, <1>2, <1>3

\* url-templatization: both handlers answer a path alike, whatever its length and its
\* segments are and not only the listed ones, but for the paths that only one of them
\* has, if no segment is "." or "..", which URL resolves and Express does not, and none
\* is a route word with capitals, which Express reads as the word and plain-http does
\* not.
THEOREM AlikeEverywhere ==
  ASSUME NEW S, Routes!Plain \in S, Routes!Framework \in S,
         NEW sub \in Seq(S), NoDots(sub), AsRead(sub)
  PROVE  Routes!AnsweredAlike(sub) <=> ~Routes!OnlyOne(sub)
<1>. DEFINE plain == Routes!PlainAnswer("GET", sub, FALSE)
            fw == Routes!FrameworkAnswer("GET", sub)
            Alike == /\ plain.status = fw.status
                     /\ {Tail(p) : p \in plain.fetches} = {Tail(p) : p \in fw.fetches}
<1>1. /\ Routes!Dispatch(Routes!Get(<<Routes!Plain>> \o sub)) = plain
      /\ Routes!Dispatch(Routes!Get(<<Routes!Framework>> \o sub)) = fw
  BY DispatchPlain, DispatchFramework DEF Routes!Get
<1>2. Routes!AnsweredAlike(sub) <=> Alike
  BY <1>1 DEF Routes!AnsweredAlike
<1>3. /\ sub = <<>> => Plain200(plain)
      /\ sub \in Routes!MethodRoutes => Plain200(plain)
      /\ sub = Routes!D => Plain200(plain)
      /\ sub \in Outbounds =>
           plain = Routes!Trigger(Routes!Plain,
                                  Routes!OutboundPaths(Routes!Plain, Routes!Last(sub)))
      /\ sub \in Routes!ErrorRoutes => plain.status = Routes!Last(sub) /\ plain.fetches = {}
      /\ sub \in Routes!StaticRoutes => Plain200(plain)
      /\ Templated(sub) => Plain200(plain)
      /\ \/ sub = <<>> \/ sub \in Routes!MethodRoutes \/ sub = Routes!D \/ sub \in Outbounds
         \/ sub \in Routes!ErrorRoutes \/ sub \in Routes!StaticRoutes \/ Templated(sub)
         \/ plain.status = "404" /\ plain.fetches = {}
  BY PlainAnswers
<1>4. /\ sub = Routes!D => Plain200(fw)
      /\ sub \in Outbounds =>
           fw = Routes!Trigger(Routes!Framework,
                               Routes!OutboundPaths(Routes!Framework, Routes!Last(sub)))
      /\ sub \in Routes!ErrorRoutes => fw.status = Routes!Last(sub) /\ fw.fetches = {}
      /\ sub \in Routes!StaticRoutes => Plain200(fw)
      /\ Templated(sub) => Plain200(fw)
      /\ Shortcut(sub) =>
           IF Routes!Last(sub) \in {"1", "2", "3"}
           THEN /\ fw.status = "200"
                /\ fw.fetches \subseteq Routes!OutboundPaths(Routes!Framework, sub[3])
           ELSE fw.status = "404" /\ fw.fetches = {}
      /\ \/ sub = Routes!D \/ sub \in Outbounds \/ sub \in Routes!ErrorRoutes
         \/ sub \in Routes!StaticRoutes \/ Templated(sub) \/ Shortcut(sub)
         \/ fw.status = "404" /\ fw.fetches = {}
  BY FrameworkAnswers
<1>. HIDE DEF plain, fw
<1>. DEFINE One == \/ sub = <<>> \/ sub \in Routes!MethodRoutes
                   \/ Shortcut(sub) /\ Routes!Last(sub) \in Depths
<1>5. CASE sub = <<>> \/ sub \in Routes!MethodRoutes
  <2>1. fw.status = "404" /\ plain.status = "200"
    BY <1>3, <1>4, <1>5, OneKind DEF Plain200
  <2>. QED
    BY <1>2, <1>5, <2>1, OnlyOneIs
<1>6. CASE \/ sub = Routes!D \/ sub \in Routes!StaticRoutes \/ Templated(sub)
           \/ sub \in Routes!ErrorRoutes
  <2>1. plain.status = fw.status /\ plain.fetches = {} /\ fw.fetches = {}
    BY <1>3, <1>4, <1>6 DEF Plain200
  <2>2. ~One
    BY <1>6, OneKind, Zenon
  <2>. QED
    BY <1>2, <2>1, <2>2, OnlyOneIs
<1>7. CASE sub \in Outbounds
  <2>1. plain.status = "200" /\ fw.status = "200"
        /\ plain.fetches = Routes!OutboundPaths(Routes!Plain, Routes!Last(sub))
        /\ fw.fetches = Routes!OutboundPaths(Routes!Framework, Routes!Last(sub))
    BY <1>3, <1>4, <1>7 DEF Routes!Trigger
  <2>2. Alike
    BY <2>1, OutboundTails
  <2>3. ~One
    BY <1>7, OneKind, Zenon
  <2>. QED
    BY <1>2, <2>2, <2>3, OnlyOneIs
<1>8. CASE Shortcut(sub)
  <2>1. plain.status = "404" /\ plain.fetches = {}
    BY <1>3, <1>8, OneKind, Zenon
  <2>2. CASE Routes!Last(sub) \in Depths
    <3>1. fw.status = "200"
      BY <1>4, <1>8, <2>2 DEF Depths
    <3>. QED
      BY <1>2, <1>8, <2>1, <2>2, <3>1, OnlyOneIs
  <2>3. CASE Routes!Last(sub) \notin Depths
    <3>1. fw.status = "404" /\ fw.fetches = {}
      BY <1>4, <1>8, <2>3 DEF Depths
    <3>2. ~One
      BY <1>8, <2>3, OneKind, Zenon
    <3>. QED
      BY <1>2, <2>1, <3>1, <3>2, OnlyOneIs
  <2>. QED
    BY <2>2, <2>3
<1>9. CASE ~ \/ sub = <<>> \/ sub \in Routes!MethodRoutes \/ sub = Routes!D
             \/ sub \in Outbounds \/ sub \in Routes!ErrorRoutes \/ sub \in Routes!StaticRoutes
             \/ Templated(sub) \/ Shortcut(sub)
  <2>1. plain.status = "404" /\ plain.fetches = {} /\ fw.status = "404" /\ fw.fetches = {}
    BY <1>3, <1>4, <1>9
  <2>2. ~One
    BY <1>9
  <2>. QED
    BY <1>2, <2>1, <2>2, OnlyOneIs
<1>. QED
  BY <1>5, <1>6, <1>7, <1>8, <1>9

-----------------------------------------------------------------------------
(* No request fans out twice. *)

\* What a handler fetches is under its own prefix.
FetchesUnder(a, w) == \E kind : a.fetches \subseteq Routes!OutboundPaths(w, kind)

\* What an answer, a trigger and a handler fetch.
LEMMA SaysFetchesNothing ==
  ASSUME NEW by, NEW status, NEW category, NEW w
  PROVE  FetchesUnder(Routes!Says(by, status, category), w)
BY DEF Routes!Says, FetchesUnder

LEMMA TriggerFetches ==
  ASSUME NEW by, NEW kind, NEW w, NEW paths, paths \subseteq Routes!OutboundPaths(w, kind)
  PROVE  FetchesUnder(Routes!Trigger(by, paths), w)
BY DEF Routes!Trigger, FetchesUnder

LEMMA PlainFetches ==
  ASSUME NEW method, NEW sub, NEW slash
  PROVE  FetchesUnder(Routes!PlainAnswer(method, sub, slash), Routes!Plain)
<1>. DEFINE a == Routes!PlainAnswer(method, sub, slash)
            last == Routes!Last(sub)
<1>1. a \in {Routes!Says(Routes!Plain, "405", "error"), Routes!Says(Routes!Plain, "200", "index"),
             Routes!Says(Routes!Plain, "200", "method_test"),
             Routes!Says(Routes!Plain, "200", "default_index"),
             Routes!Trigger(Routes!Plain, Routes!OutboundPaths(Routes!Plain, last)),
             Routes!Says(Routes!Plain, last, "http_error"),
             Routes!Says(Routes!Plain, "200", "static_exact"),
             Routes!Says(Routes!Plain, "200", "templated"),
             Routes!Says(Routes!Plain, "404", "not_found")}
  BY DEF Routes!PlainAnswer
<1>. HIDE DEF a, last
<1>2. FetchesUnder(Routes!Trigger(Routes!Plain, Routes!OutboundPaths(Routes!Plain, last)),
                   Routes!Plain)
  BY TriggerFetches
<1>3. FetchesUnder(a, Routes!Plain)
  BY <1>1, <1>2, SaysFetchesNothing
<1>. QED
  BY <1>3 DEF a

LEMMA FrameworkFetches ==
  ASSUME NEW method, NEW sub
  PROVE  FetchesUnder(Routes!FrameworkAnswer(method, sub), Routes!Framework)
<1>. DEFINE a == Routes!FrameworkAnswer(method, sub)
            last == Routes!Last(sub)
            Short(kind) ==
              {p \in Routes!OutboundPaths(Routes!Framework, kind) :
                 IF kind = "static" THEN <<"1", "2", "3">>[Len(p) - 3] = last
                 ELSE p[4] = last}
            Deep == IF last \in {"1", "2", "3"}
                    THEN Routes!Trigger(Routes!Framework, Short(sub[3]))
                    ELSE Routes!Says(Routes!Framework, "404", "unknown_depth")
<1>1. a \in {Routes!Says(Routes!Framework, "200", "default_index"),
             Routes!Says(Routes!Framework, "200", "static_exact"),
             Routes!Says(Routes!Framework, "200", "templated"),
             Routes!Trigger(Routes!Framework, Routes!OutboundPaths(Routes!Framework, last)),
             Deep,
             Routes!Says(Routes!Framework, last, "http_error"),
             Routes!Says("express", "404", "not_found")}
  BY DEF Routes!FrameworkAnswer
<1>2. Short(sub[3]) \subseteq Routes!OutboundPaths(Routes!Framework, sub[3])
  OBVIOUS
<1>. HIDE DEF a, last, Short
<1>3. FetchesUnder(Routes!Trigger(Routes!Framework,
                                  Routes!OutboundPaths(Routes!Framework, last)),
                   Routes!Framework)
  BY TriggerFetches
<1>4. FetchesUnder(Deep, Routes!Framework)
  <2>1. FetchesUnder(Routes!Trigger(Routes!Framework, Short(sub[3])), Routes!Framework)
    BY <1>2, TriggerFetches
  <2>. QED
    BY <2>1, SaysFetchesNothing
<1>. HIDE DEF Deep
<1>5. FetchesUnder(a, Routes!Framework)
  BY <1>1, <1>3, <1>4, SaysFetchesNothing
<1>. QED
  BY <1>5 DEF a

\* Whatever the request is, what it fetches is a path of a trigger.
LEMMA DispatchFetches ==
  ASSUME NEW r, NEW path \in Routes!Dispatch(r).fetches
  PROVE  \E w \in {Routes!Plain, Routes!Framework} :
           \E kind : path \in Routes!OutboundPaths(w, kind)
<1>. DEFINE a == Routes!Dispatch(r)
            sub == Tail(Routes!Pathname(r.segs))
            slash == r.slash \/ Routes!Last(r.segs) \in Routes!Dots
            low == Tail(Routes!Lower(r.segs))
<1>1. a \in {Routes!Says(Routes!Plain, "200", "path_normalization"),
             Routes!PlainAnswer(r.method, sub, slash),
             Routes!FrameworkAnswer(r.method, low),
             Routes!Says("express", "200", "health"), Routes!Says("express", "404", "not_found")}
  BY DEF Routes!Dispatch
<1>. HIDE DEF a, sub, slash, low
<1>2. FetchesUnder(a, Routes!Plain) \/ FetchesUnder(a, Routes!Framework)
  BY <1>1, SaysFetchesNothing, PlainFetches, FrameworkFetches
<1>. QED
  BY <1>2 DEF FetchesUnder, a

\* What a trigger fetches is answered with 200 and fetches nothing.
LEMMA FetchedOnce ==
  ASSUME NEW w \in {Routes!Plain, Routes!Framework}, NEW kind,
         NEW path \in Routes!OutboundPaths(w, kind)
  PROVE  Plain200(Routes!Dispatch(Routes!Get(path)))
<1>. DEFINE S == Words \union {Routes!Plain, Routes!Framework}
<1>0. path \in {<<w>> \o q : q \in SubPaths(kind)}
  BY OutboundTails
<1>1. PICK q \in SubPaths(kind) : path = <<w>> \o q
  BY <1>0
<1>2. q \in Seq(S) /\ NoDots(q) /\ AsRead(q) /\ (q \in Routes!StaticRoutes \/ Templated(q))
  BY SubPathsAre
<1>3. Routes!Plain \in S /\ Routes!Framework \in S
  OBVIOUS
<1>. HIDE DEF S
<1>4. CASE w = Routes!Plain
  <2>1. Routes!Dispatch(Routes!Get(path)) = Routes!PlainAnswer("GET", q, FALSE)
    BY <1>1, <1>2, <1>3, <1>4, DispatchPlain DEF Routes!Get
  <2>2. Plain200(Routes!PlainAnswer("GET", q, FALSE))
    BY <1>2, PlainAnswers
  <2>. QED
    BY <2>1, <2>2
<1>5. CASE w = Routes!Framework
  <2>1. Routes!Dispatch(Routes!Get(path)) = Routes!FrameworkAnswer("GET", q)
    BY <1>1, <1>2, <1>3, <1>5, DispatchFramework DEF Routes!Get
  <2>2. Plain200(Routes!FrameworkAnswer("GET", q))
    BY <1>2, FrameworkAnswers
  <2>. QED
    BY <2>1, <2>2
<1>. QED
  BY <1>4, <1>5

\* No request fans out twice.
LEMMA NoFanOut ==
  ASSUME NEW r, NEW path \in Routes!Dispatch(r).fetches
  PROVE  Routes!Dispatch(Routes!Get(path)).status = "200"
         /\ Routes!Dispatch(Routes!Get(path)).fetches = {}
<1>1. PICK w \in {Routes!Plain, Routes!Framework} :
             \E kind : path \in Routes!OutboundPaths(w, kind)
  BY DispatchFetches
<1>. QED
  BY <1>1, FetchedOnce DEF Plain200

-----------------------------------------------------------------------------
(* The listed paths. *)

\* The listed paths that are not made of route words: two with dots, and the ones with
\* a capital.
WithDots == Routes!D \o <<"static", "x", "..", "a">>

WithDot == Routes!D \o <<"static", ".", "a">>

Capital(s) == Routes!D \o <<s, "a">>

Capitals == {s \in DOMAIN Spelling : Spelling[s] = "static"}

\* The others are made of route words.
Names == Routes!RouteWords

LEMMA UnderDefault ==
  ASSUME NEW t \in Seq(Names)
  PROVE  Routes!D \o t \in Seq(Names)
<1>1. Routes!D \in Seq(Names)
  BY DEF Routes!D, Names, Routes!RouteWords
<1>. HIDE DEF Routes!D, Names, Routes!RouteWords
<1>. QED
  BY <1>1

LEMMA SubsNamed ==
  ASSUME NEW sub \in Routes!Subs, sub # WithDots, sub # WithDot,
         \A s \in Capitals : sub # Capital(s)
  PROVE  sub \in Seq(Names)
<1>1. /\ <<"static">> \in Seq(Names) /\ <<"other">> \in Seq(Names)
      /\ <<"errors", "418">> \in Seq(Names) /\ <<"templated", "1">> \in Seq(Names)
      /\ <<"templated", "2", "x">> \in Seq(Names) /\ <<"templated", "1", "x", "y">> \in Seq(Names)
      /\ <<"static", "a", "b", "c", "d">> \in Seq(Names)
      /\ <<"outbound", "static", "9">> \in Seq(Names)
      /\ <<"outbound", "templated", "3">> \in Seq(Names)
      /\ <<>> \in Seq(Names) /\ <<"default">> \in Seq(Names)
  BY DEF Names, Routes!RouteWords
<1>2. /\ \A c \in {"400", "401", "404", "500"} : <<"errors", c>> \in Seq(Names)
      /\ \A k \in {"static", "templated", "all"} : <<"outbound", k>> \in Seq(Names)
  BY DEF Names, Routes!RouteWords
<1>3. /\ <<"method", "custom-rule", "items", "widget">> \in Seq(Names)
      /\ <<"method", "default-heuristic", "orders", "1234567">> \in Seq(Names)
      /\ <<"method", "unchanged", "catalog", "widgets", "tools">> \in Seq(Names)
  BY DEF Names, Routes!RouteWords
<1>4. Seq(Words) \subseteq Seq(Names)
  BY DEF Words, Names, Routes!RouteWords
<1>5. \/ sub \in {<<>>, Routes!D, Routes!D \o <<"static">>, Routes!D \o <<"other">>,
                  Routes!D \o <<"errors", "418">>, Routes!D \o <<"templated", "1">>,
                  Routes!D \o <<"templated", "2", "x">>, Routes!D \o <<"templated", "1", "x", "y">>,
                  Routes!D \o <<"static", "a", "b", "c", "d">>,
                  Routes!D \o <<"outbound", "static", "9">>,
                  Routes!D \o <<"outbound", "templated", "3">>}
      \/ sub \in Routes!StaticRoutes \/ sub \in Routes!ErrorRoutes \/ sub \in Routes!MethodRoutes
      \/ \E p \in Routes!TemplatedRoutes : sub = Routes!Example(p)
      \/ \E k \in {"static", "templated", "all"} : sub = Routes!D \o <<"outbound", k>>
  BY Zenon DEF Routes!Subs, WithDots, WithDot, Capital, Capitals
<1>6. CASE sub \in {<<>>, Routes!D, Routes!D \o <<"static">>, Routes!D \o <<"other">>,
                    Routes!D \o <<"errors", "418">>, Routes!D \o <<"templated", "1">>,
                    Routes!D \o <<"templated", "2", "x">>,
                    Routes!D \o <<"templated", "1", "x", "y">>,
                    Routes!D \o <<"static", "a", "b", "c", "d">>,
                    Routes!D \o <<"outbound", "static", "9">>,
                    Routes!D \o <<"outbound", "templated", "3">>}
  <2>1. Routes!D \in Seq(Names)
    BY <1>1 DEF Routes!D
  <2>. QED
    BY <1>1, <1>6, <2>1, UnderDefault, Zenon
<1>7. CASE sub \in Routes!StaticRoutes
  BY <1>4, <1>7, StaticPath
<1>8. CASE sub \in Routes!ErrorRoutes
  BY <1>2, <1>8, UnderDefault, Zenon DEF Routes!ErrorRoutes
<1>9. CASE sub \in Routes!MethodRoutes
  BY <1>3, <1>9, UnderDefault, Zenon DEF Routes!MethodRoutes
<1>10. CASE \E p \in Routes!TemplatedRoutes : sub = Routes!Example(p)
  BY <1>4, <1>10, ExamplePath
<1>11. CASE \E k \in {"static", "templated", "all"} : sub = Routes!D \o <<"outbound", k>>
  BY <1>2, <1>11, UnderDefault, Zenon
<1>. QED
  BY <1>5, <1>6, <1>7, <1>8, <1>9, <1>10, <1>11

\* A path under its prefix.
Under(w, sub) == <<w>> \o sub

IsUnder(S, w, sub, p) ==
  /\ p \in Seq(S) /\ p # <<>> /\ Len(p) = Len(sub) + 1
  /\ p[1] = w /\ \A i \in 1 .. Len(sub) : p[i + 1] = sub[i]
  /\ Tail(p) = sub

\* The segments of a path under its prefix.
LEMMA PrefixedUnder ==
  ASSUME NEW S, NEW w \in S, NEW sub \in Seq(S)
  PROVE  IsUnder(S, w, sub, Under(w, sub))
BY DEF Under, IsUnder

\* The path that the listed ones with dots stand for.
Short == Routes!D \o <<"static", "a">>

ShortWords == {"default", "static", "a"}

LEMMA ShortIs ==
  /\ Short \in Seq(ShortWords) /\ Len(Short) = 3
  /\ Short[1] = "default" /\ Short[2] = "static" /\ Short[3] = "a"
  /\ Short \in Routes!StaticRoutes
BY DEF Short, ShortWords, Routes!D, Routes!StaticRoutes

\* It is known by its segments.
LEMMA ShortUnder ==
  ASSUME NEW S, ShortWords \subseteq S, NEW w \in S, NEW p \in Seq(S), Len(p) = 4,
         p[1] = w, p[2] = "default", p[3] = "static", p[4] = "a"
  PROVE  p = Under(w, Short)
<1>. DEFINE q == Under(w, Short)
<1>1. Short \in Seq(S) /\ Len(Short) = 3
  BY ShortIs
<1>2. IsUnder(S, w, Short, q)
  BY <1>1, PrefixedUnder
<1>. HIDE DEF q
<1>3. q \in Seq(S) /\ Len(q) = 4 /\ q[1] = w /\ \A i \in 1 .. 3 : q[i + 1] = Short[i]
  BY <1>1, <1>2 DEF IsUnder
<1>4. q[1 + 1] = "default" /\ q[2 + 1] = "static" /\ q[3 + 1] = "a"
  BY <1>3, ShortIs
<1>5. \A i \in 1 .. 4 : p[i] = q[i]
  BY <1>3, <1>4
<1>6. p = q
  BY <1>3, <1>5, SameElements
<1>. QED
  BY <1>6 DEF q

\* The requests for a path with dots that stands for the short one.
Stands(sub) ==
  \A w \in {Routes!Plain, Routes!Framework} :
    /\ Routes!Pathname(Under(w, sub)) = Under(w, Short)
    /\ Routes!Last(Under(w, sub)) \notin Routes!Dots

\* plain-http answers it and Express does not, unless it has a route with these dots.
LEMMA ResolvedApart ==
  ASSUME NEW S, ShortWords \subseteq S, Routes!Plain \in S, Routes!Framework \in S,
         NEW sub \in Seq(S), AsRead(sub), Stands(sub),
         Routes!FrameworkAnswer("GET", sub).status = "404",
         \E i \in DOMAIN sub : sub[i] \in Routes!Dots
  PROVE  ~Routes!AnsweredAlike(sub) /\ Routes!OnlyOne(sub)
<1>0. Routes!Plain # Routes!Framework
  BY DEF Routes!Plain, Routes!Framework
<1>1. Short \in Seq(S)
  BY ShortIs
<1>2. Routes!Dispatch(Routes!Get(Under(Routes!Plain, sub))).status = "200"
  <2>. DEFINE segs == Under(Routes!Plain, sub)
              path == Under(Routes!Plain, Short)
              r == Routes!Get(segs)
  <2>1. r.segs = segs /\ r.method = "GET" /\ r.slash = FALSE
    BY DEF Routes!Get
  <2>2. segs # <<>>
    BY PrefixedUnder DEF IsUnder
  <2>3. path # <<>> /\ path[1] = Routes!Plain /\ Tail(path) = Short
    BY <1>1, PrefixedUnder DEF IsUnder
  <2>4. Routes!Pathname(segs) = path /\ Routes!Last(segs) \notin Routes!Dots
    BY DEF Stands
  <2>5. (r.slash \/ Routes!Last(r.segs) \in Routes!Dots) = FALSE
    BY <2>1, <2>4
  <2>. HIDE DEF segs, path, r
  <2>6. Routes!Dispatch(r) = Routes!PlainAnswer(r.method, Short,
                               r.slash \/ Routes!Last(r.segs) \in Routes!Dots)
    BY <2>1, <2>2, <2>3, <2>4, Zenon DEF Routes!Dispatch
  <2>7. Plain200(Routes!PlainAnswer("GET", Short, FALSE))
    BY <1>1, ShortIs, PlainAnswers
  <2>8. Routes!Dispatch(r) = Routes!PlainAnswer("GET", Short, FALSE)
    BY <2>1, <2>5, <2>6
  <2>. QED
    BY <2>7, <2>8 DEF Plain200, r, segs
<1>3. Routes!Dispatch(Routes!Get(Under(Routes!Framework, sub))).status = "404"
  <2>. DEFINE segs == Under(Routes!Framework, sub)
              path == Under(Routes!Framework, Short)
              r == Routes!Get(segs)
  <2>1. r.segs = segs /\ r.method = "GET"
    BY DEF Routes!Get
  <2>2. segs # <<>> /\ segs[1] = Routes!Framework /\ Tail(segs) = sub
    BY PrefixedUnder DEF IsUnder
  <2>3. path[1] = Routes!Framework
    BY <1>1, PrefixedUnder DEF IsUnder
  <2>4. Routes!Pathname(segs) = path
    BY DEF Stands
  <2>5. Routes!Lower(segs) = segs
    BY WordsAreRead, PrefixedRead DEF Under
  <2>. HIDE DEF segs, path, r
  <2>6. Routes!Dispatch(r) = Routes!FrameworkAnswer("GET", sub)
    <3>1. Routes!Framework # "healthz"
      BY DEF Routes!Framework
    <3>2. segs # <<"healthz">>
      BY <2>2, <3>1, StartsOtherwise
    <3>. QED
      BY <1>0, <2>1, <2>2, <2>3, <2>4, <2>5, <3>2, Zenon DEF Routes!Dispatch
  <2>. QED
    BY <2>6 DEF r, segs
<1>4. ~Routes!AnsweredAlike(sub)
  BY <1>2, <1>3 DEF Routes!AnsweredAlike, Under
<1>5. Routes!OnlyOne(sub)
  BY Zenon DEF Routes!OnlyOne
<1>. QED
  BY <1>4, <1>5

\* The listed path with two dots is of that kind.
LEMMA DottedApart ==
  ~Routes!AnsweredAlike(WithDots) /\ Routes!OnlyOne(WithDots)
<1>. DEFINE S == {Routes!Plain, Routes!Framework, "default", "static", "x", "..", "a"}
<1>1. /\ WithDots \in Seq({"default", "static", "x", "..", "a"}) /\ Len(WithDots) = 5
      /\ WithDots[1] = "default" /\ WithDots[2] = "static" /\ WithDots[3] = "x"
      /\ WithDots[4] = ".." /\ WithDots[5] = "a"
  BY DEF WithDots, Routes!D
<1>2. WithDots \in Seq(S) /\ ShortWords \subseteq S
  BY <1>1 DEF ShortWords
<1>3. Routes!Plain \in S /\ Routes!Framework \in S
  OBVIOUS
<1>4. /\ \A word \in {"default", "static", "x", "a"} :
           word \notin Routes!Dots /\ word \notin DOMAIN Spelling
      /\ ".." \in Routes!Dots /\ ".." \notin DOMAIN Spelling
  <2>1. {"default", "static", "x", "a"} \subseteq Routes!RouteWords
    BY DEF Routes!RouteWords
  <2>2. ".." \in Routes!Dots
    BY DEF Routes!Dots
  <2>. QED
    BY <2>1, <2>2, WordsAreRead, SpellingAssumption
<1>. HIDE DEF S
<1>5. AsRead(WithDots)
  <2>. SUFFICES ASSUME NEW i \in 1 .. 5 PROVE WithDots[i] \notin DOMAIN Spelling
    BY <1>1 DEF AsRead
  <2>. QED
    BY <1>1, <1>4
<1>6. Stands(WithDots)
  <2>. SUFFICES ASSUME NEW w \in {Routes!Plain, Routes!Framework}
                PROVE  /\ Routes!Pathname(Under(w, WithDots)) = Under(w, Short)
                       /\ Routes!Last(Under(w, WithDots)) \notin Routes!Dots
    BY DEF Stands
  <2>. DEFINE p == Under(w, WithDots)
  <2>1. w \in S /\ w \notin Routes!Dots
    BY <1>3, WordsAreRead
  <2>2. IsUnder(S, w, WithDots, p)
    BY <1>2, <2>1, PrefixedUnder
  <2>. HIDE DEF p
  <2>3. p \in Seq(S) /\ Len(p) = 6 /\ p[1] = w /\ \A i \in 1 .. 5 : p[i + 1] = WithDots[i]
    BY <1>1, <2>2 DEF IsUnder
  <2>4. /\ p[1 + 1] = "default" /\ p[2 + 1] = "static" /\ p[3 + 1] = "x" /\ p[4 + 1] = ".."
        /\ p[5 + 1] = "a"
    BY <1>1, <2>3
  <2>5. /\ p[2] = "default" /\ p[3] = "static" /\ p[4] = "x" /\ p[5] = ".." /\ p[6] = "a"
    BY <2>4
  <2>. DEFINE path == Routes!Pathname(p)
  <2>6. /\ path \in Seq(S) /\ Len(path) = 4 /\ path[1] = w
        /\ path[2] = "default" /\ path[3] = "static" /\ path[4] = "a"
    BY <1>4, <2>1, <2>3, <2>5, PathnameDots
  <2>. HIDE DEF path
  <2>7. path = Under(w, Short)
    BY <1>2, <2>1, <2>6, ShortUnder
  <2>8. Routes!Last(p) = "a"
    BY <2>3, <2>5 DEF Routes!Last
  <2>. QED
    BY <1>4, <2>7, <2>8 DEF path, p
<1>7. Routes!FrameworkAnswer("GET", WithDots).status = "404"
  <2>1. WithDots \notin Routes!StaticRoutes
    BY <1>1 DEF Routes!StaticRoutes, Routes!D
  <2>2. ~ \/ WithDots = Routes!D \/ WithDots \in Outbounds \/ WithDots \in Routes!ErrorRoutes
          \/ Templated(WithDots) \/ Shortcut(WithDots)
    BY <1>1, <1>2, Kinds
  <2>. QED
    BY <1>2, <2>1, <2>2, FrameworkAnswers
<1>8. \E i \in DOMAIN WithDots : WithDots[i] \in Routes!Dots
  <2>1. 4 \in DOMAIN WithDots
    BY <1>1
  <2>. QED
    BY <1>1, <1>4, <2>1
<1>. QED
  BY <1>2, <1>3, <1>5, <1>6, <1>7, <1>8, ResolvedApart

\* So is the one with a single dot.
LEMMA DotApart ==
  ~Routes!AnsweredAlike(WithDot) /\ Routes!OnlyOne(WithDot)
<1>. DEFINE S == {Routes!Plain, Routes!Framework, "default", "static", ".", "a"}
<1>1. /\ WithDot \in Seq({"default", "static", ".", "a"}) /\ Len(WithDot) = 4
      /\ WithDot[1] = "default" /\ WithDot[2] = "static" /\ WithDot[3] = "."
      /\ WithDot[4] = "a"
  BY DEF WithDot, Routes!D
<1>2. WithDot \in Seq(S) /\ ShortWords \subseteq S
  BY <1>1 DEF ShortWords
<1>3. Routes!Plain \in S /\ Routes!Framework \in S
  OBVIOUS
<1>4. /\ \A word \in {"default", "static", "a"} :
           word \notin Routes!Dots /\ word \notin DOMAIN Spelling
      /\ "." \in Routes!Dots /\ "." \notin DOMAIN Spelling
  <2>1. {"default", "static", "a"} \subseteq Routes!RouteWords
    BY DEF Routes!RouteWords
  <2>2. "." \in Routes!Dots
    BY DEF Routes!Dots
  <2>. QED
    BY <2>1, <2>2, WordsAreRead, SpellingAssumption
<1>. HIDE DEF S
<1>5. AsRead(WithDot)
  <2>. SUFFICES ASSUME NEW i \in 1 .. 4 PROVE WithDot[i] \notin DOMAIN Spelling
    BY <1>1 DEF AsRead
  <2>. QED
    BY <1>1, <1>4
<1>6. Stands(WithDot)
  <2>. SUFFICES ASSUME NEW w \in {Routes!Plain, Routes!Framework}
                PROVE  /\ Routes!Pathname(Under(w, WithDot)) = Under(w, Short)
                       /\ Routes!Last(Under(w, WithDot)) \notin Routes!Dots
    BY DEF Stands
  <2>. DEFINE p == Under(w, WithDot)
  <2>1. w \in S /\ w \notin Routes!Dots
    BY <1>3, WordsAreRead
  <2>2. IsUnder(S, w, WithDot, p)
    BY <1>2, <2>1, PrefixedUnder
  <2>. HIDE DEF p
  <2>3. p \in Seq(S) /\ Len(p) = 5 /\ p[1] = w /\ \A i \in 1 .. 4 : p[i + 1] = WithDot[i]
    BY <1>1, <2>2 DEF IsUnder
  <2>4. p[1 + 1] = "default" /\ p[2 + 1] = "static" /\ p[3 + 1] = "." /\ p[4 + 1] = "a"
    BY <1>1, <2>3
  <2>5. p[2] = "default" /\ p[3] = "static" /\ p[4] = "." /\ p[5] = "a"
    BY <2>4
  <2>. DEFINE path == Routes!Pathname(p)
  <2>6. /\ path \in Seq(S) /\ Len(path) = 4 /\ path[1] = w
        /\ path[2] = "default" /\ path[3] = "static" /\ path[4] = "a"
    BY <1>4, <2>1, <2>3, <2>5, PathnameDot
  <2>. HIDE DEF path
  <2>7. path = Under(w, Short)
    BY <1>2, <2>1, <2>6, ShortUnder
  <2>8. Routes!Last(p) = "a"
    BY <2>3, <2>5 DEF Routes!Last
  <2>. QED
    BY <1>4, <2>7, <2>8 DEF path, p
<1>7. Routes!FrameworkAnswer("GET", WithDot).status = "404"
  <2>1. WithDot \notin Routes!StaticRoutes
    BY <1>1 DEF Routes!StaticRoutes, Routes!D
  <2>2. ~ \/ WithDot = Routes!D \/ WithDot \in Outbounds \/ WithDot \in Routes!ErrorRoutes
          \/ Templated(WithDot) \/ Shortcut(WithDot)
    BY <1>1, <1>2, Kinds
  <2>. QED
    BY <1>2, <2>1, <2>2, FrameworkAnswers
<1>8. \E i \in DOMAIN WithDot : WithDot[i] \in Routes!Dots
  <2>1. 3 \in DOMAIN WithDot
    BY <1>1
  <2>. QED
    BY <1>1, <1>4, <2>1
<1>. QED
  BY <1>2, <1>3, <1>5, <1>6, <1>7, <1>8, ResolvedApart

\* A path with a capital is read by Express as the word it stands for; plain-http has none
\* such.
LEMMA CapitalApart ==
  ASSUME NEW s \in Capitals
  PROVE  ~Routes!AnsweredAlike(Capital(s)) /\ Routes!OnlyOne(Capital(s))
<1>. DEFINE S == {Routes!Plain, Routes!Framework, "default", "static", "a", s}
            sub == Capital(s)
            raw == Under(Routes!Framework, sub)
            low == Routes!Lower(raw)
<1>0. s \in DOMAIN Spelling /\ Spelling[s] = "static"
  BY DEF Capitals
<1>1. /\ sub \in Seq({"default", s, "a"}) /\ Len(sub) = 3
      /\ sub[1] = "default" /\ sub[2] = s /\ sub[3] = "a"
  BY DEF Capital, Routes!D
<1>2. sub \in Seq(S) /\ ShortWords \subseteq S
  BY <1>1 DEF ShortWords
<1>3. Routes!Plain \in S /\ Routes!Framework \in S
  OBVIOUS
<1>4. /\ s \notin Routes!Dots
      /\ \A word \in {"default", "a", "static", "outbound", "errors", "method", "templated"} :
           word # s /\ word \notin Routes!Dots /\ word \notin DOMAIN Spelling
  <2>1. {"default", "a", "static", "outbound", "errors", "method", "templated"}
          \subseteq Routes!RouteWords
    BY DEF Routes!RouteWords
  <2>. QED
    BY <1>0, <2>1, WordsAreRead, SpellingAssumption
<1>. HIDE DEF S, sub
<1>5. NoDots(sub)
  <2>. SUFFICES ASSUME NEW i \in 1 .. 3 PROVE sub[i] \notin Routes!Dots
    BY <1>1 DEF NoDots
  <2>. QED
    BY <1>1, <1>4
<1>6. sub \notin Routes!StaticRoutes
  BY <1>1, <1>4, RouteShapes
<1>7. Routes!PlainAnswer("GET", sub, FALSE).status = "404"
  <2>1. ~ \/ sub = <<>> \/ sub = Routes!D
    <3>1. Len(Routes!D) = 1 /\ Len(<<>>) = 0
      BY DEF Routes!D
    <3>. QED
      BY <1>1, <3>1
  <2>2. ~ \/ sub \in Outbounds \/ sub \in Routes!ErrorRoutes \/ sub \in Routes!MethodRoutes
    BY <1>1, <1>4, RouteShapes
  <2>3. ~Templated(sub)
    <3>1. Templated(sub) => Len(sub) \in {4, 5, 6}
      BY <1>2, Kinds, Zenon
    <3>. QED
      BY <1>1, <3>1
  <2>. QED
    BY <1>2, <1>6, <2>1, <2>2, <2>3, PlainAnswers
<1>8. IsUnder(S, Routes!Framework, sub, raw)
  BY <1>2, <1>3, PrefixedUnder
<1>9. /\ DOMAIN raw = 1 .. 4 /\ raw[1] = Routes!Framework /\ raw[2] = "default"
      /\ raw[3] = s /\ raw[4] = "a"
  <2>. HIDE DEF raw
  <2>1. raw \in Seq(S) /\ Len(raw) = 4 /\ raw[1] = Routes!Framework
        /\ \A i \in 1 .. 3 : raw[i + 1] = sub[i]
    BY <1>1, <1>8 DEF IsUnder
  <2>2. raw[1 + 1] = "default" /\ raw[2 + 1] = s /\ raw[3 + 1] = "a"
    BY <1>1, <2>1
  <2>. QED
    BY <2>1, <2>2
<1>10. low = Under(Routes!Framework, Short)
  <2>. HIDE DEF raw
  <2>1. low = [i \in 1 .. 4 |-> low[i]]
    BY <1>9 DEF Routes!Lower
  <2>2. /\ low[1] = Routes!Framework /\ low[2] = "default" /\ low[3] = "static"
        /\ low[4] = "a"
    <3>1. \A i \in 1 .. 4 :
            low[i] = IF raw[i] \in DOMAIN Spelling THEN Spelling[raw[i]] ELSE raw[i]
      BY <1>9 DEF Routes!Lower
    <3>2. Routes!Framework \notin DOMAIN Spelling
      BY WordsAreRead
    <3>. HIDE DEF low
    <3>. QED
      BY <1>0, <1>4, <1>9, <3>1, <3>2
  <2>. HIDE DEF low
  <2>3. \A i \in 1 .. 4 : low[i] \in S
    <3>1. Routes!Framework \in S /\ "default" \in S /\ "static" \in S /\ "a" \in S
      BY <1>2, <1>3 DEF ShortWords
    <3>. QED
      BY <2>2, <3>1
  <2>4. low \in Seq(S) /\ Len(low) = 4
    BY <2>1, <2>3
  <2>. QED
    BY <1>2, <1>3, <2>2, <2>4, ShortUnder
<1>11. Tail(low) = Short
  <2>1. Short \in Seq(S)
    BY <1>2, ShortIs
  <2>. QED
    BY <1>3, <1>10, <2>1, PrefixedUnder DEF IsUnder
<1>12. Routes!Dispatch(Routes!Get(Under(Routes!Plain, sub)))
       = Routes!PlainAnswer("GET", sub, FALSE)
  BY <1>2, <1>3, <1>5, DispatchPlain DEF Routes!Get, Under
<1>13. Routes!Dispatch(Routes!Get(raw)) = Routes!FrameworkAnswer("GET", Short)
  <2>1. Routes!Dispatch(Routes!Get(Under(Routes!Framework, sub)))
        = Routes!FrameworkAnswer("GET", Tail(Routes!Lower(Under(Routes!Framework, sub))))
    BY <1>2, <1>3, <1>5, DispatchLower DEF Routes!Get, Under
  <2>. QED
    BY <1>11, <2>1
<1>14. Plain200(Routes!FrameworkAnswer("GET", Short))
  BY ShortIs, FrameworkAnswers
<1>15. ~Routes!AnsweredAlike(sub)
  BY <1>7, <1>12, <1>13, <1>14 DEF Routes!AnsweredAlike, Under, Plain200
<1>16. Routes!OnlyOne(sub)
  <2>1. Routes!Lower(sub) = Short
    <3>. DEFINE l == Routes!Lower(sub)
    <3>1. DOMAIN sub = 1 .. 3
      BY <1>1
    <3>2. l = [i \in 1 .. 3 |-> l[i]]
      BY <3>1 DEF Routes!Lower
    <3>3. l[1] = "default" /\ l[2] = "static" /\ l[3] = "a"
      BY <1>0, <1>1, <1>4, <3>1 DEF Routes!Lower
    <3>. HIDE DEF l
    <3>4. \A i \in 1 .. 3 : l[i] \in ShortWords /\ l[i] = Short[i]
      BY <3>3, ShortIs DEF ShortWords
    <3>5. l \in Seq(ShortWords) /\ Len(l) = 3
      BY <3>2, <3>4
    <3>6. l = Short
      BY <3>4, <3>5, ShortIs, SameElements
    <3>. QED
      BY <3>6 DEF l
  <2>. QED
    BY <1>6, <2>1, ShortIs DEF Routes!OnlyOne
<1>. QED
  BY <1>15, <1>16 DEF sub

\* Both prefixes offer the same paths, but for the ones named, and no request fans out twice.
LEMMA RoutesAlike ==
  Routes!RoutedAlike
<1>1. ASSUME NEW sub \in Routes!Subs
      PROVE  Routes!AnsweredAlike(sub) <=> ~Routes!OnlyOne(sub)
  <2>1. CASE sub = WithDots
    BY <2>1, DottedApart
  <2>2. CASE sub = WithDot
    BY <2>2, DotApart
  <2>3. CASE \E s \in Capitals : sub = Capital(s)
    BY <2>3, CapitalApart
  <2>4. CASE ~ \/ sub = WithDots \/ sub = WithDot \/ \E s \in Capitals : sub = Capital(s)
    <3>1. sub \in Seq(Routes!RouteWords)
      BY <2>4, SubsNamed DEF Names
    <3>2. NoDots(sub) /\ AsRead(sub)
      BY <3>1, WordsPlain
    <3>. QED
      BY <3>1, <3>2, WordsAreRead, AlikeEverywhere
  <2>. QED
    BY <2>1, <2>2, <2>3, <2>4
<1>. QED
  BY <1>1, NoFanOut, Zenon DEF Routes!RoutedAlike

\* url-templatization and head-sampling: the routes are the documented ones.  GET of a
\* listed path has the same answer under /plain-http and /http-framework, and triggers
\* the same fetches, but for the paths the document gives to one of them; what a trigger
\* fetches is answered with 200 and is no trigger; and every request of the sampling
\* client is a route of its server, and only one.
THEOREM NodeRoutesDocumented == Spec => []RoutedAsDocumented
<1>1. RoutedAsDocumented
  BY RoutesAlike, SamplingRouted DEF RoutedAsDocumented
<1>. QED
  BY <1>1, PTL
=============================================================================
