------------------------------- MODULE PubSub -------------------------------
(***************************************************************************)
(* nodejs/google-pubsub: a publisher that publishes on a timer and on      *)
(* request, and a consumer that handles the messages of one subscription.  *)
(* Both are single-threaded, so everything between two awaits is one       *)
(* action; the awaits are the gaps between the actions.  The timer does    *)
(* not wait for the tick before, and every message gets a handler of its   *)
(* own, so ticks, requests and handlers overlap.                           *)
(*                                                                         *)
(* Pub/Sub (external) hands a message that is not acked to the consumer    *)
(* under a lease, which may expire while the handler still runs; an ack is *)
(* fire-and-forget and may get lost.  Nothing subscribes to the legacy     *)
(* topic, so its messages are not kept.                                    *)
(***************************************************************************)
EXTENDS Integers, FiniteSets

CONSTANTS
  Job,       \* publishes under way at once: ticks and POST requests
  Handler,   \* messages under way at once
  Idle,      \* a job or a handler that has nothing to do
  MaxRounds, \* bound: ticks and requests, so messages too
  MaxFaults  \* bound: errors, lost acks, expired leases, restarts

ASSUME BoundAssumption == MaxRounds \in Nat /\ MaxFaults \in Nat

MessageId == 1 .. MaxRounds
Api       == {"legacy", "publishMessage"}
Work      == [trigger : {"first", "periodic", "http"}, api : Api]
Delivery  == [message : MessageId, phase : {"delay", "call"}]

ASSUME IdleAssumption == Idle \notin Work \union Delivery

VARIABLES
  published,   \* messages in publish-message-topic: 1 .. published
  lease,       \* service: state of each message in the subscription
  job,         \* publisher: publishes under way
  publisher,   \* publisher: "starting", "first", "ready", "closing"
  pError,      \* publisher: lastError is set
  answered,    \* history: messages reported to a client by a 200
  rounds,      \* number of ticks and requests
  handler,     \* consumer: handlers under way
  consumer,    \* consumer: "starting", "ready", "closing"
  cError,      \* consumer: lastError is set
  count,       \* consumer: messagesProcessed
  processed,   \* history: messages ever processed without error
  faults       \* number of faults

publisherVars == <<job, publisher, pError, answered, rounds>>
consumerVars  == <<handler, consumer, cError, count, processed>>
vars          == <<published, lease, publisherVars, consumerVars, faults>>

Init ==
  /\ published = 0
  /\ lease = [m \in MessageId |-> "none"]
  /\ job = [j \in Job |-> Idle]
  /\ publisher = "starting"
  /\ pError = FALSE
  /\ answered = {}
  /\ rounds = 0
  /\ handler = [h \in Handler |-> Idle]
  /\ consumer = "starting"
  /\ cError = FALSE
  /\ count = 0
  /\ processed = {}
  /\ faults = 0

Fault == faults < MaxFaults /\ faults' = faults + 1

-----------------------------------------------------------------------------
(* The publisher *)

Begin(j, trigger, api) ==
  /\ job[j] = Idle
  /\ rounds < MaxRounds
  /\ rounds' = rounds + 1
  /\ job' = [job EXCEPT ![j] = [trigger |-> trigger, api |-> api]]
  /\ UNCHANGED <<published, lease, pError, answered, consumerVars, faults>>

\* After the startup delay: the tick that startPublisher awaits.
FirstTick(j) ==
  /\ publisher = "starting"
  /\ publisher' = "first"
  /\ Begin(j, "first", "legacy")

\* setInterval, which SIGTERM clears.
Tick(j) == publisher = "ready" /\ UNCHANGED publisher /\ Begin(j, "periodic", "legacy")

\* POST /publish/legacy and /publish/publish-message; before ready they answer 503.
Request(j, api) == publisher = "ready" /\ UNCHANGED publisher /\ Begin(j, "http", api)

\* What follows the publish of a job: a tick goes on to the other topic whether
\* or not the first publish failed; the end of the first tick makes it ready.
AfterPublish(j) ==
  IF job[j].trigger # "http" /\ job[j].api = "legacy"
  THEN job' = [job EXCEPT ![j].api = "publishMessage"] /\ UNCHANGED publisher
  ELSE /\ job' = [job EXCEPT ![j] = Idle]
       /\ publisher' = IF publisher = "first" /\ job[j].trigger = "first"
                       THEN "ready" ELSE publisher

\* The service has the message, under the next id.
Store ==
  /\ published' = published + 1
  /\ lease' = [lease EXCEPT ![published + 1] = "available"]

Stored(j) == IF job[j].api = "legacy" THEN UNCHANGED <<published, lease>> ELSE Store

\* Mutant of PublishSucceeds: the answer does not wait for the publish.
PublishUnawaited(j) ==
  /\ job[j] # Idle
  /\ UNCHANGED <<published, lease>>
  /\ pError' = FALSE
  /\ answered' = IF job[j] = [trigger |-> "http", api |-> "publishMessage"]
                 THEN answered \union {published + 1} ELSE answered
  /\ AfterPublish(j)
  /\ UNCHANGED <<rounds, consumerVars, faults>>

PublishSucceeds(j) ==
  /\ job[j] # Idle
  /\ Stored(j)
  /\ pError' = FALSE
  /\ answered' = IF job[j] = [trigger |-> "http", api |-> "publishMessage"]
                 THEN answered \union {published'} ELSE answered
  /\ AfterPublish(j)
  /\ UNCHANGED <<rounds, consumerVars, faults>>

\* The publish fails, or only its answer is lost.
PublishFails(j) ==
  /\ job[j] # Idle
  /\ Fault
  /\ Stored(j) \/ UNCHANGED <<published, lease>>
  /\ pError' = TRUE
  /\ AfterPublish(j)
  /\ UNCHANGED <<answered, rounds, consumerVars>>

PublisherSigterm ==
  /\ publisher \in {"first", "ready"}
  /\ publisher' = "closing"
  /\ UNCHANGED <<published, lease, job, pError, answered, rounds, consumerVars>>

\* server.close calls back when no request is open; ticks are not waited for.
PublisherGone ==
  /\ job' = [j \in Job |-> Idle]
  /\ publisher' = "starting"
  /\ pError' = FALSE
  /\ UNCHANGED <<published, lease, answered, rounds, consumerVars>>

\* Mutant of PublisherExit: exits at once instead of in server.close's callback.
PublisherExitAtOnce == publisher = "closing" /\ PublisherGone /\ UNCHANGED faults

PublisherExit ==
  /\ publisher = "closing"
  /\ \A j \in Job : job[j] # Idle => job[j].trigger # "http"
  /\ PublisherGone
  /\ UNCHANGED faults

-----------------------------------------------------------------------------
(* The consumer *)

\* The startup delay is over.  The subscription was opened before it.
Ready ==
  /\ consumer = "starting"
  /\ consumer' = "ready"
  /\ UNCHANGED <<published, lease, publisherVars, handler, cError, count, processed, faults>>

\* on("message"): handlePubSubMessage starts and waits for the delay.
Deliver(h, m) ==
  /\ handler[h] = Idle
  /\ lease[m] = "available"
  /\ lease' = [lease EXCEPT ![m] = "leased"]
  /\ handler' = [handler EXCEPT ![h] = [message |-> m, phase |-> "delay"]]
  /\ UNCHANGED <<published, publisherVars, consumer, cError, count, processed,
                 faults>>

\* The handler calls its own server, which must still accept connections.
Call(h) ==
  /\ handler[h] # Idle
  /\ handler[h].phase = "delay"
  /\ consumer # "closing"
  /\ handler' = [handler EXCEPT ![h].phase = "call"]
  /\ UNCHANGED <<published, lease, publisherVars, consumer, cError, count, processed, faults>>

\* ack() is sent in the background; when it is lost the lease runs out.
Ack(m) ==
  \/ lease' = [lease EXCEPT ![m] = "acked"] /\ UNCHANGED faults
  \/ Fault /\ UNCHANGED lease

Nack(m) ==
  lease' = [lease EXCEPT ![m] = IF @ = "acked" THEN @ ELSE "available"]

\* Mutant of Succeed: the ack is forgotten.
SucceedUnacked(h) ==
  /\ handler[h] # Idle
  /\ handler[h].phase = "call"
  /\ count' = count + 1
  /\ processed' = processed \union {handler[h].message}
  /\ cError' = FALSE
  /\ handler' = [handler EXCEPT ![h] = Idle]
  /\ UNCHANGED <<published, lease, publisherVars, consumer, faults>>

\* The call answered 200.
Succeed(h) ==
  /\ handler[h] # Idle
  /\ handler[h].phase = "call"
  /\ Ack(handler[h].message)
  /\ count' = count + 1
  /\ processed' = processed \union {handler[h].message}
  /\ cError' = FALSE
  /\ handler' = [handler EXCEPT ![h] = Idle]
  /\ UNCHANGED <<published, publisherVars, consumer>>

\* Mutant of Fail: the catch block acks what it could not process.
FailAndAck(h) ==
  /\ handler[h] # Idle
  /\ Fault
  /\ lease' = [lease EXCEPT ![handler[h].message] = "acked"]
  /\ cError' = TRUE
  /\ handler' = [handler EXCEPT ![h] = Idle]
  /\ UNCHANGED <<published, publisherVars, consumer, count, processed>>

\* The call failed, or could not be made because the server was closing.
Fail(h) ==
  /\ handler[h] # Idle
  /\ IF handler[h].phase = "delay"
     THEN consumer = "closing" /\ UNCHANGED faults
     ELSE Fault
  /\ Nack(handler[h].message)
  /\ cError' = TRUE
  /\ handler' = [handler EXCEPT ![h] = Idle]
  /\ UNCHANGED <<published, publisherVars, consumer, count, processed>>

SubscriptionError ==
  /\ Fault
  /\ cError' = TRUE
  /\ UNCHANGED <<published, lease, publisherVars, handler, consumer, count, processed>>

\* The service gives up on a lease: its handler is gone, its ack was lost, or,
\* as a fault, it was slow.
Expire(m) ==
  /\ lease[m] = "leased"
  /\ IF \E h \in Handler : handler[h] # Idle /\ handler[h].message = m
     THEN Fault ELSE UNCHANGED faults
  /\ lease' = [lease EXCEPT ![m] = "available"]
  /\ UNCHANGED <<published, publisherVars, consumerVars>>

ConsumerSigterm ==
  /\ consumer \in {"starting", "ready"}
  /\ consumer' = "closing"
  /\ UNCHANGED <<published, lease, publisherVars, handler, cError, count, processed>>

\* The container starts again with empty variables.
ConsumerGone ==
  /\ handler' = [h \in Handler |-> Idle]
  /\ consumer' = "starting"
  /\ cError' = FALSE
  /\ count' = 0
  /\ UNCHANGED <<published, lease, publisherVars, processed>>

\* Mutant of ConsumerExit: server.close never calls back.
ConsumerHangs ==
  /\ consumer = "closing"
  /\ \A h \in Handler : handler[h] = Idle /\ cError
  /\ ConsumerGone
  /\ UNCHANGED faults

\* server.close calls back when no call to the server is open.
ConsumerExit ==
  /\ consumer = "closing"
  /\ \A h \in Handler : handler[h] # Idle => handler[h].phase # "call"
  /\ ConsumerGone
  /\ UNCHANGED faults

-----------------------------------------------------------------------------

PublisherHealthy == publisher \in {"ready", "closing"} /\ ~pError
ConsumerHealthy  == consumer = "ready" /\ ~cError

\* The liveness probes ask /healthz.
LivenessKill ==
  \/ publisher = "ready" /\ pError /\ PublisherSigterm /\ UNCHANGED faults
  \/ cError /\ ConsumerSigterm /\ UNCHANGED faults

\* Redeploys and crashes.
Disruption ==
  Fault /\ (PublisherSigterm \/ ConsumerSigterm \/ PublisherGone \/ ConsumerGone)

PublisherStep ==
  \/ \E j \in Job : FirstTick(j) \/ PublishSucceeds(j) \/ PublishFails(j)
  \/ PublisherExit

ConsumerStep ==
  \/ Ready
  \/ \E h \in Handler : \/ \E m \in MessageId : Deliver(h, m)
                        \/ Call(h) \/ Succeed(h) \/ Fail(h)
  \/ \E m \in MessageId : Expire(m)
  \/ ConsumerExit

Next ==
  \/ PublisherStep
  \/ \E j \in Job : Tick(j) \/ \E api \in Api : Request(j, api)
  \/ ConsumerStep
  \/ SubscriptionError
  \/ LivenessKill
  \/ Disruption

Spec == Init /\ [][Next]_vars

FairSpec ==
  /\ Spec
  /\ WF_vars(PublisherStep)
  /\ WF_vars(Ready) /\ WF_vars(ConsumerExit) /\ WF_vars(LivenessKill)
  /\ \A h \in Handler : WF_vars(Call(h) \/ Succeed(h) \/ Fail(h))
  /\ \A m \in MessageId : WF_vars(Expire(m)) /\ WF_vars(\E h \in Handler : Deliver(h, m))

-----------------------------------------------------------------------------
(* Properties *)

\* The subscription and its consumer are a work queue: no shutdown, lost ack or
\* expired lease makes the service forget a message that no handler has processed,
\* and what is acked is not delivered again as if it were new.
Queue == INSTANCE WorkQueue WITH
           Item <- MessageId, sent <- 1 .. published, handled <- processed,
           gone <- {m \in MessageId : lease[m] = "acked"}

KeepsQueue == Queue!Spec

\* messagesProcessed counts a message again only as often as something has failed,
\* however handlers overlap, leases run out and messages come back; and while nothing
\* fails it counts each of them once.
RepeatsBounded ==
  /\ count <= Cardinality(processed) + faults
  /\ faults = 0 => count = Cardinality(processed)

\* Every message a client was told is published is processed in the end, in
\* spite of failures, lost acks and restarts of either side.
AnsweredIsProcessed ==
  \A m \in MessageId : (m \in answered) ~> (m \in processed)

\* The consumer does not stay unhealthy: a later message or the liveness probe
\* clears the error, and no shutdown hangs on the calls of the handlers.
ConsumerRecovers == ~ConsumerHealthy ~> ConsumerHealthy
=============================================================================
