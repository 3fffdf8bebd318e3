----------------------------- MODULE EventRelay -----------------------------
(***************************************************************************)
(* stacks/kafka-stack: the consumers of the topic stacks-events that count.*)
(* relay-nodejs posts each event to processor-java, which also listens to  *)
(* the topic itself and posts each event to analytics-python, which also   *)
(* consumes the topic.  Every consumer has a group of its own.             *)
(*                                                                         *)
(* Kafka (external): an offset is committed some time after its handler     *)
(* has returned, and a restarted consumer resumes at the committed offset. *)
(* A group that has committed nothing starts at the first event, but       *)
(* relay-nodejs, which subscribes with fromBeginning false, at the end.    *)
(***************************************************************************)
EXTENDS Integers

CONSTANTS
  MaxEvents,  \* bound: events in the topic
  MaxFaults   \* bound: failed calls and restarts

ASSUME BoundAssumption == MaxEvents \in Nat /\ MaxFaults \in Nat

Group == {"relay", "listener", "analytics"}
Event == 1 .. MaxEvents
NoOffset == -1

VARIABLES
  topic,     \* number of events in the topic
  first,     \* first[g]: offset at which g's consumer joined
  position,  \* position[g]: last event g's consumer was handed
  committed, \* committed[g]: offset g has committed, or NoOffset
  at,        \* at[g]: "down", "idle", "handling", "calling", "called", "dead"
  relayed,   \* relay-nodejs: relayed
  received,  \* processor-java: relayed
  processed, \* processor-java: processed
  counted,   \* analytics-python: kafka_count
  records,   \* analytics-python: records of each source
  relays,    \* history: how often each event reached processor-java's /relay
  analyzed,  \* history: events that analytics-python has recorded from the topic
  reported,  \* history: events that the listener has reported, or tried to
  missed,    \* history: events older than a join of the relay without an offset
  faults     \* number of faults

groupVars == <<first, position, committed, at>>
countVars == <<relayed, received, processed, counted, records>>
history   == <<relays, analyzed, reported, missed>>
vars      == <<topic, groupVars, countVars, history, faults>>

Init ==
  /\ topic = 0
  /\ position = [g \in Group |-> 0]
  /\ first = [g \in Group |-> 0]
  /\ committed = [g \in Group |-> NoOffset]
  /\ at = [g \in Group |-> "down"]
  /\ relayed = 0 /\ received = 0 /\ processed = 0 /\ counted = 0
  /\ records = [http |-> 0, kafka |-> 0]
  /\ relays = [e \in Event |-> 0]
  /\ analyzed = {}
  /\ reported = {}
  /\ missed = {}
  /\ faults = 0

Fault == faults < MaxFaults /\ faults' = faults + 1

\* The producer.send of a gateway.
Produce ==
  /\ topic < MaxEvents
  /\ topic' = topic + 1
  /\ UNCHANGED <<groupVars, countVars, history, faults>>

\* The startup delay is over and the consumer joins its group.
Join(g) ==
  /\ at[g] = "down"
  /\ LET start == IF committed[g] # NoOffset THEN committed[g]
                  ELSE IF g = "relay" THEN topic ELSE 0
     IN /\ first' = [first EXCEPT ![g] = start]
        /\ position' = [position EXCEPT ![g] = start]
        /\ missed' = IF g = "relay" /\ committed[g] = NoOffset THEN 1 .. topic ELSE missed
  /\ at' = [at EXCEPT ![g] = "idle"]
  /\ UNCHANGED <<topic, committed, countVars, relays, analyzed, reported, faults>>

\* There is no broker yet when KafkaConsumer is made: the thread ends, and
\* analytics-python goes on without it.
ThreadDies ==
  /\ at["analytics"] = "down"
  /\ Fault
  /\ at' = [at EXCEPT !["analytics"] = "dead"]
  /\ UNCHANGED <<topic, first, position, committed, countVars, history>>

\* The consumer hands the next event to its handler.
Fetch(g) ==
  /\ at[g] = "idle"
  /\ position[g] < topic
  /\ position' = [position EXCEPT ![g] = @ + 1]
  /\ at' = [at EXCEPT ![g] = "handling"]
  /\ UNCHANGED <<topic, first, committed, countVars, history, faults>>

\* Mutant of Commit: what has been handed out is committed.
CommitEarly(g) ==
  /\ first[g] < position[g] /\ committed[g] < position[g]
  /\ committed' = [committed EXCEPT ![g] = position[g]]
  /\ UNCHANGED <<topic, first, position, at, countVars, history, faults>>

\* What has been handled since the join is committed.
Commit(g) ==
  LET upto == IF at[g] = "idle" THEN position[g] ELSE position[g] - 1
  IN /\ at[g] \notin {"down", "dead"}
     /\ first[g] < upto /\ committed[g] < upto
     /\ committed' = [committed EXCEPT ![g] = upto]
     /\ UNCHANGED <<topic, first, position, at, countVars, history, faults>>

Goto(g, where) == at' = [at EXCEPT ![g] = where]

-----------------------------------------------------------------------------
(* relay-nodejs and processor-java's /relay *)

\* eachMessage counts and then waits for the call.
RelayCount ==
  /\ at["relay"] = "handling"
  /\ relayed' = relayed + 1
  /\ Goto("relay", "calling")
  /\ UNCHANGED <<topic, first, position, committed, received, processed, counted, records,
                 history, faults>>

RelayReceived ==
  /\ at["relay"] = "calling"
  /\ received' = received + 1
  /\ relays' = [relays EXCEPT ![position["relay"]] = @ + 1]
  /\ Goto("relay", "called")
  /\ UNCHANGED <<topic, first, position, committed, relayed, processed, counted, records,
                 analyzed, reported, missed, faults>>

RelayDone ==
  /\ at["relay"] = "called"
  /\ Goto("relay", "idle")
  /\ UNCHANGED <<topic, first, position, committed, countVars, history, faults>>

\* Mutant of RelayFails: a catch around the fetch.
RelaySwallows ==
  /\ at["relay"] \in {"calling", "called"}
  /\ Fault
  /\ Goto("relay", "idle")
  /\ UNCHANGED <<topic, first, position, committed, countVars, history>>

\* The fetch throws, before or after the processor has counted: kafkajs runs
\* eachMessage again for the same event.
RelayFails ==
  /\ at["relay"] \in {"calling", "called"}
  /\ Fault
  /\ Goto("relay", "handling")
  /\ UNCHANGED <<topic, first, position, committed, countVars, history>>

-----------------------------------------------------------------------------
(* processor-java's listener *)

ListenerCount ==
  /\ at["listener"] = "handling"
  /\ processed' = processed + 1
  /\ Goto("listener", "calling")
  /\ UNCHANGED <<topic, first, position, committed, relayed, received, counted, records,
                 history, faults>>

\* The POST to /record appends a record ...
ListenerReports ==
  /\ at["listener"] = "calling"
  /\ records' = [records EXCEPT !.http = @ + 1]
  /\ reported' = reported \union {position["listener"]}
  /\ Goto("listener", "idle")
  /\ UNCHANGED <<topic, first, position, committed, relayed, received, processed, counted,
                 relays, analyzed, missed, faults>>

\* ... or it fails, before or after that; the listener goes on in any case.
ListenerReportFails ==
  /\ at["listener"] = "calling"
  /\ Fault
  /\ \E n \in {0, 1} : records' = [records EXCEPT !.http = @ + n]
  /\ reported' = reported \union {position["listener"]}
  /\ Goto("listener", "idle")
  /\ UNCHANGED <<topic, first, position, committed, relayed, received, processed, counted,
                 relays, analyzed, missed>>

-----------------------------------------------------------------------------
(* analytics-python *)

AnalyticsCount ==
  /\ at["analytics"] = "handling"
  /\ counted' = counted + 1
  /\ Goto("analytics", "calling")
  /\ UNCHANGED <<topic, first, position, committed, relayed, received, processed, records,
                 history, faults>>

AnalyticsRecord ==
  /\ at["analytics"] = "calling"
  /\ records' = [records EXCEPT !.kafka = @ + 1]
  /\ analyzed' = analyzed \union {position["analytics"]}
  /\ Goto("analytics", "idle")
  /\ UNCHANGED <<topic, first, position, committed, relayed, received, processed, counted,
                 relays, reported, missed, faults>>

-----------------------------------------------------------------------------
(* Restarts *)

Down(g) ==
  /\ at' = [at EXCEPT ![g] = "down"]
  /\ UNCHANGED <<topic, first, position, committed, history>>

\* After its retries kafkajs gives up on the event and joins the group again.
RelayRejoins ==
  /\ at["relay"] = "handling"
  /\ Fault
  /\ Down("relay")
  /\ UNCHANGED countVars

RestartRelay ==
  /\ Fault
  /\ Down("relay")
  /\ relayed' = 0
  /\ UNCHANGED <<received, processed, counted, records>>

RestartProcessor ==
  /\ Fault
  /\ Down("listener")
  /\ received' = 0 /\ processed' = 0
  /\ UNCHANGED <<relayed, counted, records>>

RestartAnalytics ==
  /\ Fault
  /\ Down("analytics")
  /\ counted' = 0
  /\ records' = [http |-> 0, kafka |-> 0]
  /\ UNCHANGED <<relayed, received, processed>>

-----------------------------------------------------------------------------

Relay     == RelayCount \/ RelayReceived \/ RelayDone
Listener  == ListenerCount \/ ListenerReports
Analytics == AnalyticsCount \/ AnalyticsRecord

Next ==
  \/ Produce
  \/ \E g \in Group : Join(g) \/ Fetch(g) \/ Commit(g)
  \/ ThreadDies
  \/ Relay \/ RelayFails \/ RelayRejoins
  \/ Listener \/ ListenerReportFails
  \/ Analytics
  \/ RestartRelay \/ RestartProcessor \/ RestartAnalytics

Spec == Init /\ [][Next]_vars

\* Brokers hand out events and handlers run; the fetch of relay-nodejs ends.
FairSpec ==
  /\ Spec
  /\ \A g \in Group : WF_vars(Join(g)) /\ WF_vars(Fetch(g))
  /\ WF_vars(Relay) /\ WF_vars(Listener) /\ WF_vars(Analytics)

-----------------------------------------------------------------------------
(* Properties *)

\* Each group is a work queue, across failing calls, restarts and late commits: an
\* event whose offset it has committed has reached processor-java, was reported to
\* analytics (if only in vain), is in the records; and no offset moves back.  An
\* event reaches processor-java again only as often as something has failed; while
\* nothing fails, relay-nodejs and processor-java count the same events, up to the
\* one on its way.
Committed(g) == 1 .. committed[g]

RelayQueue == INSTANCE WorkQueue WITH
                Item <- Event, sent <- 1 .. topic, gone <- Committed("relay"),
                handled <- {e \in Event : relays[e] > 0} \union missed
ListenerQueue == INSTANCE WorkQueue WITH
                   Item <- Event, sent <- 1 .. topic, gone <- Committed("listener"),
                   handled <- reported
AnalyticsQueue == INSTANCE WorkQueue WITH
                    Item <- Event, sent <- 1 .. topic, gone <- Committed("analytics"),
                    handled <- analyzed

CountsAgree ==
  /\ \A e \in Event : relays[e] <= faults + 1
  /\ faults = 0 => relayed - received \in {0, 1}

KeepQueues ==
  /\ RelayQueue!Spec /\ ListenerQueue!Spec /\ AnalyticsQueue!Spec
  /\ []CountsAgree

\* Every event is relayed in the end, unless the relay joined after it with no
\* committed offset; it is reported; and it is analyzed, unless the consumer thread
\* of analytics-python has died, which no probe notices.
EventuallyHandled ==
  \A e \in Event :
    (e <= topic) ~> /\ relays[e] > 0 \/ e \in missed
                    /\ e \in reported
                    /\ e \in analyzed \/ at["analytics"] = "dead"
=============================================================================
