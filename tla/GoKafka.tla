------------------------------ MODULE GoKafka -------------------------------
(***************************************************************************)
(* golang/kafka: a producer that writes to its topics in turn and a        *)
(* consumer that fetches, processes and commits one message at a time.     *)
(* Both serve /healthz from a health.State, which the kubelet polls; it    *)
(* restarts a container that keeps answering 503.                          *)
(*                                                                         *)
(* The broker (external) keeps for every topic the end of its log and the  *)
(* offset the group has committed, and gives each topic to one member of   *)
(* the group.  A write that returns an error may have been appended all    *)
(* the same, and so may a commit.  A member that takes a topic starts at   *)
(* the committed offset or, with StartOffset LastOffset, at the end of the *)
(* log when there is none.                                                 *)
(*                                                                         *)
(* The Deployment has one replica, and its default rolling update runs the *)
(* new container beside the old one.  A container that comes or goes, a    *)
(* missed heartbeat and a restart of the broker make the group form anew:  *)
(* every reader then subscribes again, in the background, while the loop   *)
(* may have a message of the earlier subscription in hand.                 *)
(***************************************************************************)
EXTENDS Integers, Sequences

CONSTANTS
  Topics,     \* cfg.Topics, the topics in the order of KAFKA_TOPICS
  Members,    \* consumer containers: one, and another during a rollout
  Nobody,     \* no member
  NoOffset,   \* no committed offset; a topic the reader has not taken
  NoMessage,  \* no message in hand
  MaxTicks,   \* bound: calls of sendOnce
  MaxFaults   \* bound: errors of the broker or of processing, rebalances, restarts

ASSUME TopicsAssumption ==
  /\ Topics \in Seq(STRING)
  /\ Len(Topics) > 0
  /\ \A i, j \in 1 .. Len(Topics) : Topics[i] = Topics[j] => i = j
ASSUME BoundAssumption == MaxTicks \in Nat /\ MaxFaults \in Nat
ASSUME NoOffsetAssumption == NoOffset \notin Nat
ASSUME NobodyAssumption == Nobody \notin Members

Topic   == {Topics[i] : i \in 1 .. Len(Topics)}
Offset  == Nat \union {NoOffset}
Message == [topic : Topic, offset : Nat]
ASSUME NoMessageAssumption == NoMessage \notin Message

VARIABLES
  end,         \* broker: the end of each topic's log
  committed,   \* broker: the group's committed offset in each topic
  group,       \* broker: the members that have joined since the group last formed
  topicIndex,  \* producer: topicIndex
  producing,   \* producer: "starting" or "sending"
  pHealth,     \* producer: its health.State
  consuming,   \* consumer: where its loop is
  stopping,    \* consumer: ctx is cancelled by SIGTERM
  position,    \* consumer: the offset its reader delivers next in each topic
  message,     \* consumer: the message in hand
  cHealth,     \* consumer: its health.State
  stale,       \* history: the message in hand is of an earlier subscription
  committer,   \* history: the member whose subscription the last commit was of
  processed,   \* history: offsets processed without error
  failed,      \* history: offsets whose processing failed
  joined,      \* history: where a topic was last taken without a committed offset
  ticks,       \* number of calls of sendOnce
  faults       \* number of faults

broker   == <<end, committed>>
producer == <<topicIndex, producing, pHealth, ticks>>
loop     == <<consuming, message, stale>>
consumer == <<loop, stopping, position, cHealth>>
history  == <<processed, failed, joined>>
vars     == <<broker, group, committer, producer, consumer, history, faults>>

-----------------------------------------------------------------------------
(* health.State *)

NewHealth          == [ready |-> FALSE, lastError |-> "nil"]
SetReady(h, ready) == [h EXCEPT !.ready = ready]
SetError(h, err)   == [h EXCEPT !.lastError = err]
Healthy(h)         == h.ready /\ h.lastError = "nil"

-----------------------------------------------------------------------------

Unread == [t \in Topic |-> NoOffset]

Init ==
  /\ end = [t \in Topic |-> 0]
  /\ committed = Unread
  /\ group = {}
  /\ topicIndex = 0
  /\ producing = "starting"
  /\ pHealth = NewHealth
  /\ consuming = [c \in Members |-> "starting"]
  /\ stopping = [c \in Members |-> FALSE]
  /\ position = [c \in Members |-> Unread]
  /\ message = [c \in Members |-> NoMessage]
  /\ cHealth = [c \in Members |-> NewHealth]
  /\ stale = [c \in Members |-> FALSE]
  /\ committer = [t \in Topic |-> Nobody]
  /\ processed = [t \in Topic |-> {}]
  /\ failed = [t \in Topic |-> {}]
  /\ joined = [t \in Topic |-> 0]
  /\ ticks = 0
  /\ faults = 0

Fault == faults < MaxFaults /\ faults' = faults + 1

-----------------------------------------------------------------------------
(* The producer *)

Turn(idx) == Topics[(idx % Len(Topics)) + 1]

\* sendOnce: topicIndex.Add(1) comes before the write, so a failed write gives up
\* its turn.  The first call is followed by SetReady(true) whatever it did.
\* A retried write may be appended twice.
Send(ok, copies) ==
  LET t == Turn(topicIndex)
  IN /\ ticks < MaxTicks
     /\ ticks' = ticks + 1
     /\ topicIndex' = topicIndex + 1
     /\ end' = [end EXCEPT ![t] = @ + copies]
     /\ pHealth' = SetReady(SetError(pHealth, IF ok THEN "nil" ELSE "produce"), TRUE)
     /\ producing' = "sending"
     /\ UNCHANGED <<committed, group, committer, consumer, history>>

SendSucceeds == (Send(TRUE, 1) /\ UNCHANGED faults) \/ (Send(TRUE, 2) /\ Fault)
SendFails    == Fault /\ \E copies \in {0, 1} : Send(FALSE, copies)

RestartProducer ==
  /\ producing = "sending"
  /\ Fault
  /\ producing' = "starting"
  /\ topicIndex' = 0
  /\ pHealth' = NewHealth
  /\ UNCHANGED <<broker, group, committer, consumer, history, ticks>>

-----------------------------------------------------------------------------
(* The group *)

\* The reader of the container has joined the group, and the loop runs.
Running(c) == consuming[c] # "starting"

\* The subscription of c ends: no later commit is of it.
Unsubscribed(c) == [t \in Topic |-> IF committer[t] = c THEN Nobody ELSE committer[t]]

\* The broker restarts or misses a heartbeat: the group forms anew.
Rebalance ==
  /\ group # {}
  /\ Fault
  /\ group' = {}
  /\ UNCHANGED <<broker, committer, producer, consumer, history>>

\* The reader takes part in the group that forms: it gives up its topics.  It
\* does so in the background, whatever the loop has in hand.
Subscribe(c) ==
  /\ Running(c)
  /\ c \notin group
  /\ group' = group \union {c}
  /\ position' = [position EXCEPT ![c] = Unread]
  /\ stale' = [stale EXCEPT ![c] = message[c] # NoMessage]
  /\ committer' = Unsubscribed(c)
  /\ UNCHANGED <<broker, producer, consuming, message, stopping, cHealth, history, faults>>

\* Mutant of StartOffset: the committed offset is ignored.
StartAtEnd(t) == end[t]

StartOffset(t) == IF committed[t] = NoOffset THEN end[t] ELSE committed[t]

\* The reader takes a topic that no other member of the group has.
Join(c, t) ==
  /\ c \in group
  /\ \A d \in group : position[d][t] = NoOffset
  /\ position' = [position EXCEPT ![c][t] = StartOffset(t)]
  /\ joined' = [joined EXCEPT ![t] = IF committed[t] = NoOffset THEN end[t] ELSE @]
  /\ UNCHANGED <<broker, group, committer, producer, loop, stopping, cHealth,
                 processed, failed, faults>>

-----------------------------------------------------------------------------
(* The consumer *)

\* Mutant of StartConsumer: SetReady(true) is forgotten.
StartUnready(c) ==
  /\ consuming[c] = "starting"
  /\ IF \E d \in Members : Running(d) THEN Fault ELSE UNCHANGED faults
  /\ consuming' = [consuming EXCEPT ![c] = "fetch"]
  /\ group' = {}
  /\ UNCHANGED <<broker, committer, producer, history, stopping, position, message, stale, cHealth>>

\* After the startup delay: NewReader, SetReady(true) and into the loop.  The
\* new reader makes the group form anew.
StartConsumer(c) ==
  /\ consuming[c] = "starting"
  /\ IF \E d \in Members : Running(d) THEN Fault ELSE UNCHANGED faults
  /\ consuming' = [consuming EXCEPT ![c] = "fetch"]
  /\ cHealth' = [cHealth EXCEPT ![c] = SetReady(@, TRUE)]
  /\ group' = {}
  /\ UNCHANGED <<broker, committer, producer, history, stopping, position, message, stale>>

\* The loop has the next message of topic t in hand.
Deliver(c, t) ==
  /\ consuming[c] = "fetch"
  /\ ~stopping[c]
  /\ position[c][t] # NoOffset
  /\ position[c][t] < end[t]
  /\ message' = [message EXCEPT ![c] = [topic |-> t, offset |-> position[c][t]]]
  /\ consuming' = [consuming EXCEPT ![c] = "process"]
  /\ UNCHANGED <<broker, group, committer, producer, history, faults, stopping, stale,
                 cHealth>>

\* Mutant of Fetch: a failed message stays where it is, and the next of
\* another topic overtakes it.
FetchInPlace(c, t) == Deliver(c, t) /\ UNCHANGED position

\* FetchMessage returns the next message of one of the topics, and goes on
\* doing so from what it has read when the group forms anew without it.
Fetch(c, t) == Deliver(c, t) /\ position' = [position EXCEPT ![c][t] = @ + 1]

\* FetchMessage fails; its timeout of 10 seconds changes nothing.
FetchFails(c) ==
  /\ consuming[c] = "fetch"
  /\ ~stopping[c]
  /\ Fault
  /\ cHealth' = [cHealth EXCEPT ![c] = SetError(@, "fetch")]
  /\ UNCHANGED <<broker, group, committer, producer, history, loop, stopping, position>>

\* continue, or the end of the loop's body.
NextMessage(c) ==
  /\ consuming' = [consuming EXCEPT ![c] = "fetch"]
  /\ message' = [message EXCEPT ![c] = NoMessage]
  /\ stale' = [stale EXCEPT ![c] = FALSE]

ProcessSucceeds(c) ==
  /\ consuming[c] = "process"
  /\ ~stopping[c]
  /\ processed' = [processed EXCEPT ![message[c].topic] = @ \union {message[c].offset}]
  /\ consuming' = [consuming EXCEPT ![c] = "commit"]
  /\ UNCHANGED <<broker, group, committer, producer, faults, stopping, position, message,
                 stale, cHealth, failed, joined>>

\* Mutant of AfterFailure: the message is committed although it failed.
CommitAnyway(c) ==
  /\ consuming' = [consuming EXCEPT ![c] = "commit"]
  /\ UNCHANGED <<message, stale>>

\* Where the loop goes on when processing failed: the commit is left out.
AfterFailure(c) == NextMessage(c)

\* The self call fails, or the context is cancelled before it is made.
ProcessFails(c) ==
  /\ consuming[c] = "process"
  /\ IF stopping[c] THEN UNCHANGED faults ELSE Fault
  /\ failed' = [failed EXCEPT ![message[c].topic] = @ \union {message[c].offset}]
  /\ cHealth' = [cHealth EXCEPT ![c] = SetError(@, "process")]
  /\ AfterFailure(c)
  /\ UNCHANGED <<broker, group, committer, producer, stopping, position, processed, joined>>

\* Mutant of Committed: the offset of the message instead of the one behind it.
CommittedItself(m) == m.offset

Committed(m) == m.offset + 1

\* The broker takes a commit of any member of the group, also of a topic that
\* another member has and of a message fetched before the group formed anew.
Commit(c) ==
  /\ c \in group
  /\ committed' = [committed EXCEPT ![message[c].topic] = Committed(message[c])]
  /\ committer' = [committer EXCEPT ![message[c].topic] = IF stale[c] THEN Nobody ELSE c]

CommitSucceeds(c) ==
  /\ consuming[c] = "commit"
  /\ ~stopping[c]
  /\ Commit(c)
  /\ cHealth' = [cHealth EXCEPT ![c] = SetError(@, "nil")]
  /\ NextMessage(c)
  /\ UNCHANGED <<end, group, producer, history, faults, stopping, position>>

\* The broker refuses the commit of a reader that has not joined it again.
CommitFails(c) ==
  /\ consuming[c] = "commit"
  /\ IF stopping[c] \/ c \notin group THEN UNCHANGED faults ELSE Fault
  /\ Commit(c) \/ UNCHANGED <<committed, committer>>
  /\ cHealth' = [cHealth EXCEPT ![c] = SetError(@, "commit")]
  /\ NextMessage(c)
  /\ UNCHANGED <<end, group, producer, history, stopping, position>>

-----------------------------------------------------------------------------
(* The end of a consumer *)

\* The container starts again, or another in its place; only the broker's
\* state survives, and the group forms anew without it.
ConsumerGone(c) ==
  /\ consuming' = [consuming EXCEPT ![c] = "starting"]
  /\ stopping' = [stopping EXCEPT ![c] = FALSE]
  /\ position' = [position EXCEPT ![c] = Unread]
  /\ message' = [message EXCEPT ![c] = NoMessage]
  /\ stale' = [stale EXCEPT ![c] = FALSE]
  /\ cHealth' = [cHealth EXCEPT ![c] = NewHealth]
  /\ committer' = Unsubscribed(c)
  /\ group' = {}
  /\ UNCHANGED <<broker, producer, history>>

\* The loop sees the cancelled context, at its head or inside FetchMessage.
Shutdown(c) ==
  /\ consuming[c] = "fetch"
  /\ stopping[c]
  /\ ConsumerGone(c)
  /\ UNCHANGED faults

Crash(c) == Running(c) /\ Fault /\ ConsumerGone(c)

Stop(c) ==
  /\ stopping' = [stopping EXCEPT ![c] = TRUE]
  /\ UNCHANGED <<broker, group, committer, producer, history, loop, position, cHealth>>

Terminate(c) == Running(c) /\ ~stopping[c] /\ Fault /\ Stop(c)

\* Both probes of consumer-k8s.yaml ask /healthz.
LivenessKill(c) ==
  /\ Running(c)
  /\ ~stopping[c]
  /\ ~Healthy(cHealth[c])
  /\ Stop(c)
  /\ UNCHANGED faults

\* What a running container does by itself.
Run(c) ==
  \/ Subscribe(c)
  \/ \E t \in Topic : Join(c, t) \/ Fetch(c, t)
  \/ ProcessSucceeds(c)
  \/ ProcessFails(c)
  \/ CommitSucceeds(c)
  \/ CommitFails(c)
  \/ Shutdown(c)

Next ==
  \/ \E c \in Members :
       \/ StartConsumer(c) \/ Run(c)
       \/ FetchFails(c) \/ Crash(c) \/ Terminate(c) \/ LivenessKill(c)
  \/ Rebalance
  \/ SendSucceeds \/ SendFails \/ RestartProducer

Spec == Init /\ [][Next]_vars

\* The one replica: a container is started when none runs.
Replica == (\A c \in Members : ~Running(c)) /\ \E c \in Members : StartConsumer(c)

\* The loop and the reader keep going, the kubelet kills a container that stays
\* unhealthy, and the Deployment keeps one container.
FairSpec ==
  /\ Spec
  /\ WF_vars(Replica)
  /\ \A c \in Members : WF_vars(Run(c)) /\ WF_vars(LivenessKill(c))

-----------------------------------------------------------------------------
(* Properties *)

Health == [ready : BOOLEAN, lastError : {"nil", "produce", "fetch", "process", "commit"}]

\* The loop of c has a message between FetchMessage and the end of its body.
InHand(c) == consuming[c] \in {"process", "commit"}

\* Every variable has its type, and the reader stands just behind the message in
\* hand as long as it is of its subscription.
TypeOK ==
  /\ end \in [Topic -> Nat]
  /\ committed \in [Topic -> Offset]
  /\ group \subseteq Members
  /\ topicIndex \in Nat
  /\ producing \in {"starting", "sending"}
  /\ pHealth \in Health
  /\ consuming \in [Members -> {"starting", "fetch", "process", "commit"}]
  /\ stopping \in [Members -> BOOLEAN]
  /\ position \in [Members -> [Topic -> Offset]]
  /\ message \in [Members -> Message \union {NoMessage}]
  /\ stale \in [Members -> BOOLEAN]
  /\ cHealth \in [Members -> Health]
  /\ \A c \in Members :
       /\ InHand(c) <=> message[c] # NoMessage
       /\ InHand(c) /\ ~stale[c] => position[c][message[c].topic] = message[c].offset + 1
  /\ committer \in [Topic -> Members \union {Nobody}]
  /\ processed \in [Topic -> SUBSET Nat]
  /\ failed \in [Topic -> SUBSET Nat]
  /\ joined \in [Topic -> Nat]
  /\ ticks \in Nat
  /\ faults \in Nat

Tried(t) == processed[t] \union failed[t]

\* Whatever fails, restarts and rebalances in between, a committed offset lies
\* just behind a message that was processed, and every message between the place
\* where the group last started without a committed offset and there was at least
\* tried: a commit skips messages whose processing failed (main.go:82-86), and
\* those an empty group never started from, but no other.
CommittedTried ==
  \A t \in Topic : committed[t] # NoOffset =>
    /\ committed[t] - 1 \in processed[t]
    /\ \A o \in joined[t] .. committed[t] - 1 : o \in Tried(t)

\* Two commits in a row of one subscription never move the group back, whatever
\* was retried or taken for lost; only a commit of a message fetched before the
\* group formed anew, or the first after one, can.
NeverRewinds ==
  [][\A t \in Topic : \A c \in Members :
       committer[t] = c /\ committer'[t] = c => committed'[t] >= committed[t]]_<<committed, committer>>

\* The consumers keep the promise of a group log.
GL == INSTANCE GroupLog
KeepsGroupLog == GL!Spec

\* What lies behind a committed offset, and behind where the group last started
\* without one, was tried.
CaughtUp ==
  \A t \in Topic : committed[t] # NoOffset =>
    \A o \in committed[t] .. end[t] - 1 : joined[t] <= o => o \in Tried(t)

\* Once a group has committed, every later message is tried, in spite of crashes,
\* redeploys and rebalances (the sends are bounded, so catching up again and again
\* leaves nothing out); without a committed offset a reader starts at the end, and a
\* commit of what it had in hand then does not bring back what that skipped.
EventuallyTried == []<>CaughtUp

\* No error lasts, even when no message follows that could clear it: the liveness
\* probe restarts the container, and the Deployment keeps one that is healthy.
Recovers ==
  []<>(/\ \A c \in Members : cHealth[c].lastError = "nil"
       /\ \E c \in Members : Healthy(cHealth[c]))

-----------------------------------------------------------------------------
(* What makes the invariants above inductive. *)

\* What a reader has passed was tried, or is the message in hand.
PositionSound ==
  \A c \in Members : \A t \in Topic : position[c][t] # NoOffset =>
    /\ position[c][t] <= end[t]
    /\ committer[t] = c => committed[t] <= position[c][t]
    /\ \A o \in joined[t] .. position[c][t] - 1 :
         \/ o \in Tried(t)
         \/ consuming[c] = "process" /\ message[c] = [topic |-> t, offset |-> o]

\* Before the message in hand, from whichever subscription, everything was tried.
HandSound ==
  \A c \in Members : InHand(c) =>
    LET m == message[c]
    IN /\ m.offset < end[m.topic]
       /\ \A o \in joined[m.topic] .. m.offset - 1 : o \in Tried(m.topic)
       /\ consuming[c] = "commit" => m.offset \in processed[m.topic]
       /\ ~stale[c] /\ committer[m.topic] = c => committed[m.topic] <= m.offset

CommittedSound ==
  \A t \in Topic :
    /\ joined[t] <= end[t]
    /\ committed[t] # NoOffset => committed[t] <= end[t]
    /\ committer[t] # Nobody => committed[t] # NoOffset

IInv == PositionSound /\ HandSound /\ CommittedSound /\ CommittedTried
=============================================================================
