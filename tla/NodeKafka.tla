----------------------------- MODULE NodeKafka ------------------------------
(***************************************************************************)
(* nodejs/kafka: one process that produces to a topic on an interval and   *)
(* consumes it, and answers both kubelet probes from one lastError.        *)
(* kafkajs retries inside a call; a call that settles has used its retries *)
(* up.  own.masked is a history variable.                                  *)
(***************************************************************************)
EXTENDS NodeProcess

KafkaStart ==
  [stage |-> "connect", consumer |-> "none", lastError |-> "none", ready |-> FALSE,
   masked |-> FALSE]

Healthy == Alive /\ own.ready /\ own.lastError = "none"

\* producer.connect, consumer.connect, subscribe; consumer.run is not awaited.
Connect ==
  /\ Alive
  /\ own.stage = "connect"
  /\ IF peer
     THEN /\ own' = [own EXCEPT !.stage = "delay", !.consumer = "joining"]
          /\ UNCHANGED <<code, listening, timers, job>>
     ELSE Exit("1") /\ UNCHANGED own
  /\ UNCHANGED <<app, told, peer, faults, answer>>

ConsumerJoins ==
  /\ Alive
  /\ own.consumer \in {"joining", "rejoining"}
  /\ own' = [own EXCEPT !.consumer = "running"]
  /\ UNCHANGED <<app, listening, code, told, timers, job, peer, faults, answer>>

\* consumer.run rejects, which it can until it has resolved: the catch keeps the
\* error, and nothing starts the consumer again.
ConsumerFails ==
  /\ Alive
  /\ own.consumer = "joining"
  /\ Fault
  /\ own' = [own EXCEPT !.consumer = "failed", !.lastError = "consumer"]
  /\ UNCHANGED <<app, listening, code, told, timers, job, peer, answer>>

\* kafkajs stops the consumer on its own, while it joins or later.  It starts it again
\* after an error that it takes for passing, and otherwise it does not; run() settles
\* without an error or has settled before, and nobody listens to the crash event.
ConsumerCrashes ==
  /\ Alive
  /\ own.consumer \in {"joining", "rejoining", "running"}
  /\ Fault
  /\ \E next \in {"rejoining", "crashed"} : own' = [own EXCEPT !.consumer = next]
  /\ UNCHANGED <<app, listening, code, told, timers, job, peer, answer>>

\* sendLoop: awaited once after the delay, then on an interval that does not wait
\* for the send before it.
KafkaSend(s) ==
  /\ \/ own.stage = "delay" /\ own' = [own EXCEPT !.stage = "first"]
     \/ "loop" \in timers /\ UNCHANGED own
  /\ Begin(s, "send", <<>>, 1)
  /\ UNCHANGED <<app, listening, code, told, timers, peer, faults, answer>>

\* A success forgets whatever lastError held, the consumer's included; the first
\* send to settle, either way, makes the process ready.
SendSettles(s) ==
  /\ job[s].does = "send"
  /\ End(s)
  /\ own' = [own EXCEPT !.lastError = IF peer THEN "none" ELSE "send",
                        !.masked = @ \/ (peer /\ own.consumer = "failed"),
                        !.stage = "running", !.ready = TRUE]
  /\ timers' = {"loop"}
  /\ UNCHANGED <<app, listening, code, told, peer, faults, answer>>

\* The kubelet's liveness probe, past its initial delay.
ProbeKills ==
  /\ own.stage = "running"
  /\ Alive /\ ~Healthy
  /\ Exit("killed")
  /\ UNCHANGED <<app, own, told, peer, faults, answer>>

\* The kubelet starts a container that ended by itself again.
Restarted ==
  /\ ~Alive /\ ~told
  /\ own' = KafkaStart
  /\ code' = "none"
  /\ listening' = TRUE
  /\ UNCHANGED <<app, told, timers, job, peer, faults, answer>>

KafkaRuns == Connect \/ ConsumerJoins \/ Restarted
KafkaNext ==
  \/ KafkaRuns \/ ConsumerFails \/ ConsumerCrashes \/ ProbeKills \/ Killed
  \/ \E s \in Slot : KafkaSend(s) \/ SendSettles(s)
=============================================================================
