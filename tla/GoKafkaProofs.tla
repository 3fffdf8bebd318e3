--------------------------- MODULE GoKafkaProofs ----------------------------
(***************************************************************************)
(* Proofs about GoKafka, for any list of topics and any number of sends,   *)
(* errors, restarts and rebalances, with any number of members.            *)
(***************************************************************************)
EXTENDS GoKafka, TLAPS

\* Every turn of the producer goes to one of its topics.
LEMMA TurnType ==
  ASSUME NEW idx \in Nat
  PROVE  Turn(idx) \in Topic
<1>1. (idx % Len(Topics)) + 1 \in 1 .. Len(Topics)
  BY TopicsAssumption
<1>. QED
  BY <1>1 DEF Turn, Topic

\* The operations of health.State keep its type.
LEMMA NewHealthType == NewHealth \in Health
BY SMT DEF NewHealth, Health

LEMMA SetReadyType ==
  ASSUME NEW h \in Health, NEW ready \in BOOLEAN
  PROVE  SetReady(h, ready) \in Health
BY SMT DEF Health, SetReady

LEMMA SetErrorType ==
  ASSUME NEW h \in Health, NEW err \in {"nil", "produce", "fetch", "process", "commit"}
  PROVE  SetError(h, err) \in Health
BY SMT DEF Health, SetError

-----------------------------------------------------------------------------
(* Types *)

LEMMA InitTypeOK == Init => TypeOK
<1>. SUFFICES ASSUME Init PROVE TypeOK
  OBVIOUS
<1>1. pHealth \in Health /\ cHealth \in [Members -> Health]
  BY NewHealthType DEF Init
<1>2. \A c \in Members : ~InHand(c) /\ message[c] = NoMessage
  BY DEF Init, InHand
<1>. QED
  BY <1>1, <1>2 DEF Init, TypeOK, Offset, Unread

LEMMA UnsubscribedType ==
  ASSUME TypeOK, NEW c \in Members
  PROVE  /\ Unsubscribed(c) \in [Topic -> Members \union {Nobody}]
         /\ \A t \in Topic : Unsubscribed(c)[t] \in {committer[t], Nobody} \ {c}
BY NobodyAssumption DEF Unsubscribed, TypeOK

LEMMA InHandMessage ==
  ASSUME TypeOK, NEW c \in Members, InHand(c)
  PROVE  message[c] \in Message /\ message[c].topic \in Topic /\ message[c].offset \in Nat
<1>1. message[c] \in Message
  BY DEF TypeOK
<1>. QED
  BY <1>1 DEF Message

\* The handler of one message ends: the loop has nothing in hand.
LEMMA NextMessageType ==
  ASSUME TypeOK, NEW c \in Members, NextMessage(c), UNCHANGED position
  PROVE  /\ consuming' \in [Members -> {"starting", "fetch", "process", "commit"}]
         /\ message' \in [Members -> Message \union {NoMessage}]
         /\ stale' \in [Members -> BOOLEAN]
         /\ \A d \in Members :
              /\ InHand(d)' <=> message'[d] # NoMessage
              /\ InHand(d)' /\ ~stale'[d] =>
                   position'[d][message'[d].topic] = message'[d].offset + 1
<1>1. /\ consuming' = [consuming EXCEPT ![c] = "fetch"]
      /\ message' = [message EXCEPT ![c] = NoMessage]
      /\ stale' = [stale EXCEPT ![c] = FALSE]
  BY DEF NextMessage
<1>2. ASSUME NEW d \in Members, d # c
      PROVE  /\ consuming'[d] = consuming[d] /\ message'[d] = message[d]
             /\ stale'[d] = stale[d] /\ position'[d] = position[d]
  BY <1>1, <1>2 DEF TypeOK
<1>3. consuming'[c] = "fetch" /\ message'[c] = NoMessage
  BY <1>1 DEF TypeOK
<1>4. ASSUME NEW d \in Members
      PROVE  /\ InHand(d)' <=> message'[d] # NoMessage
             /\ InHand(d)' /\ ~stale'[d] =>
                  position'[d][message'[d].topic] = message'[d].offset + 1
  <2>1. CASE d = c
    BY <1>3, <2>1 DEF InHand
  <2>2. CASE d # c
    BY <1>2, <2>2 DEF InHand, TypeOK
  <2>. QED
    BY <2>1, <2>2
<1>5. consuming' \in [Members -> {"starting", "fetch", "process", "commit"}]
  BY <1>1 DEF TypeOK
<1>6. message' \in [Members -> Message \union {NoMessage}] /\ stale' \in [Members -> BOOLEAN]
  BY <1>1 DEF TypeOK
<1>. QED
  BY <1>4, <1>5, <1>6

LEMMA SetErrorAt ==
  ASSUME TypeOK, NEW c \in Members, NEW err \in {"nil", "produce", "fetch", "process", "commit"},
         cHealth' = [cHealth EXCEPT ![c] = SetError(@, err)]
  PROVE  cHealth' \in [Members -> Health]
<1>1. SetError(cHealth[c], err) \in Health
  BY SetErrorType DEF TypeOK
<1>. QED
  BY <1>1 DEF TypeOK

LEMMA FaultsType ==
  ASSUME TypeOK, UNCHANGED faults \/ Fault
  PROVE  faults' \in Nat
BY DEF TypeOK, Fault

LEMMA StepTypeOK ==
  ASSUME TypeOK, [Next]_vars
  PROVE  TypeOK'
<1>. USE DEF Offset
<1>1. ASSUME NEW ok \in BOOLEAN, NEW copies \in {0, 1, 2}, Send(ok, copies),
             UNCHANGED faults \/ Fault
      PROVE  TypeOK'
  <2>. DEFINE t == Turn(topicIndex)
  <2>1. t \in Topic
    BY TurnType DEF TypeOK
  <2>. HIDE DEF t
  <2>2. /\ end' = [end EXCEPT ![t] = @ + copies]
        /\ pHealth' = SetReady(SetError(pHealth, IF ok THEN "nil" ELSE "produce"), TRUE)
        /\ UNCHANGED <<committed, group, committer, consumer, history>>
        /\ topicIndex' = topicIndex + 1 /\ ticks' = ticks + 1
        /\ producing' = "sending"
    BY <1>1 DEF Send, t
  <2>3. end' \in [Topic -> Nat]
    BY <2>1, <2>2 DEF TypeOK
  <2>. DEFINE err == IF ok THEN "nil" ELSE "produce"
  <2>4. pHealth' \in Health
    <3>1. SetError(pHealth, err) \in Health
      BY SetErrorType DEF TypeOK
    <3>. QED
      BY <2>2, <3>1, SetReadyType
  <2>5. faults' \in Nat
    BY <1>1, FaultsType
  <2>6. topicIndex' \in Nat /\ ticks' \in Nat /\ producing' \in {"starting", "sending"}
    BY <2>2 DEF TypeOK
  <2>7. UNCHANGED <<committed, group, committer, consuming, stopping, position, message,
                    stale, cHealth, processed, failed, joined>>
    BY <2>2 DEF consumer, loop, history
  <2>. QED
    BY <2>3, <2>4, <2>5, <2>6, <2>7 DEF TypeOK, InHand
<1>2. CASE SendSucceeds
  BY <1>2, <1>1 DEF SendSucceeds
<1>3. CASE SendFails
  BY <1>3, <1>1 DEF SendFails
<1>4. CASE RestartProducer
  <2>1. faults' \in Nat /\ pHealth' \in Health
    BY <1>4, FaultsType, NewHealthType DEF RestartProducer
  <2>. QED
    BY <1>4, <2>1 DEF RestartProducer, TypeOK, InHand, broker, consumer, loop, history
<1>5. CASE Rebalance
  <2>1. faults' \in Nat
    BY <1>5, FaultsType DEF Rebalance
  <2>. QED
    BY <1>5, <2>1 DEF Rebalance, TypeOK, InHand, broker, producer, consumer, loop, history
<1>6. ASSUME NEW c \in Members, StartConsumer(c) PROVE TypeOK'
  <2>1. faults' \in Nat
    BY <1>6, FaultsType DEF StartConsumer
  <2>2. cHealth' \in [Members -> Health]
    <3>1. SetReady(cHealth[c], TRUE) \in Health
      BY SetReadyType DEF TypeOK
    <3>. QED
      BY <1>6, <3>1 DEF StartConsumer, TypeOK
  <2>3. /\ consuming[c] = "starting" /\ consuming' = [consuming EXCEPT ![c] = "fetch"]
        /\ group' = {}
        /\ UNCHANGED <<broker, committer, producer, history, stopping, position, message, stale>>
    BY <1>6 DEF StartConsumer
  <2>4. \A d \in Members : InHand(d)' <=> InHand(d)
    BY <2>3 DEF InHand, TypeOK
  <2>5. consuming' \in [Members -> {"starting", "fetch", "process", "commit"}]
    BY <2>3 DEF TypeOK
  <2>. QED
    BY <2>1, <2>2, <2>3, <2>4, <2>5 DEF TypeOK, broker, producer, history
<1>7. ASSUME NEW c \in Members, Subscribe(c) PROVE TypeOK'
  <2>1. committer' \in [Topic -> Members \union {Nobody}]
    BY <1>7, UnsubscribedType DEF Subscribe
  <2>2. /\ group' = group \union {c}
        /\ position' = [position EXCEPT ![c] = Unread]
        /\ stale' = [stale EXCEPT ![c] = message[c] # NoMessage]
        /\ UNCHANGED <<broker, producer, consuming, message, stopping, cHealth, history, faults>>
    BY <1>7 DEF Subscribe
  <2>3. position' \in [Members -> [Topic -> Offset]] /\ stale' \in [Members -> BOOLEAN]
    BY <2>2 DEF TypeOK, Unread
  <2>4. ASSUME NEW d \in Members
        PROVE  /\ InHand(d)' <=> message'[d] # NoMessage
               /\ InHand(d)' /\ ~stale'[d] =>
                    position'[d][message'[d].topic] = message'[d].offset + 1
    <3>1. CASE d = c
      BY <2>2, <3>1 DEF TypeOK, InHand
    <3>2. CASE d # c
      BY <2>2, <3>2 DEF TypeOK, InHand
    <3>. QED
      BY <3>1, <3>2
  <2>. QED
    BY <2>1, <2>2, <2>3, <2>4 DEF TypeOK, broker, producer, history
<1>8. ASSUME NEW c \in Members, NEW t \in Topic, Join(c, t) PROVE TypeOK'
  <2>1. /\ c \in group /\ position[c][t] = NoOffset
        /\ position' = [position EXCEPT ![c][t] = StartOffset(t)]
        /\ joined' = [joined EXCEPT ![t] = IF committed[t] = NoOffset THEN end[t] ELSE @]
        /\ UNCHANGED <<broker, group, committer, producer, loop, stopping, cHealth,
                       processed, failed, faults>>
    BY <1>8 DEF Join
  <2>2. StartOffset(t) \in Nat
    BY DEF StartOffset, TypeOK
  <2>3. position' \in [Members -> [Topic -> Offset]] /\ joined' \in [Topic -> Nat]
    BY <2>1, <2>2 DEF TypeOK
  <2>4. ASSUME NEW d \in Members, InHand(d), ~stale[d]
        PROVE  position'[d][message[d].topic] = message[d].offset + 1
    <3>1. message[d].topic \in Topic /\ message[d].offset \in Nat
      BY <2>4, InHandMessage
    <3>2. position[d][message[d].topic] = message[d].offset + 1
      BY <2>4 DEF TypeOK
    <3>3. d = c => message[d].topic # t
      BY <2>1, <3>1, <3>2, NoOffsetAssumption
    <3>. QED
      BY <2>1, <3>1, <3>2, <3>3 DEF TypeOK
  <2>. QED
    BY <2>1, <2>3, <2>4 DEF TypeOK, InHand, broker, producer, loop
<1>9. ASSUME NEW c \in Members, NEW t \in Topic, Fetch(c, t) PROVE TypeOK'
  <2>1. /\ consuming[c] = "fetch" /\ position[c][t] \in Nat
        /\ message' = [message EXCEPT ![c] = [topic |-> t, offset |-> position[c][t]]]
        /\ consuming' = [consuming EXCEPT ![c] = "process"]
        /\ position' = [position EXCEPT ![c][t] = @ + 1]
        /\ UNCHANGED <<broker, group, committer, producer, history, faults, stopping, stale,
                       cHealth>>
    BY <1>9 DEF Fetch, Deliver, TypeOK
  <2>2. [topic |-> t, offset |-> position[c][t]] \in Message
    BY <2>1 DEF Message
  <2>3. /\ position' \in [Members -> [Topic -> Offset]]
        /\ message' \in [Members -> Message \union {NoMessage}]
        /\ consuming' \in [Members -> {"starting", "fetch", "process", "commit"}]
    BY <2>1, <2>2 DEF TypeOK
  <2>4. ASSUME NEW d \in Members
        PROVE  /\ InHand(d)' <=> message'[d] # NoMessage
               /\ InHand(d)' /\ ~stale'[d] =>
                    position'[d][message'[d].topic] = message'[d].offset + 1
    <3>1. CASE d = c
      <4>1. message'[c] = [topic |-> t, offset |-> position[c][t]] /\ message'[c] \in Message
        BY <2>1, <2>2 DEF TypeOK
      <4>2. consuming'[c] = "process" /\ position'[c][t] = position[c][t] + 1
        BY <2>1 DEF TypeOK
      <4>3. message'[c] # NoMessage
        BY <4>1, NoMessageAssumption
      <4>4. message'[c].topic = t /\ message'[c].offset = position[c][t]
        BY <4>1
      <4>. QED
        BY <3>1, <4>2, <4>3, <4>4 DEF InHand
    <3>2. CASE d # c
      BY <2>1, <3>2 DEF TypeOK, InHand
    <3>. QED
      BY <3>1, <3>2
  <2>. QED
    BY <2>1, <2>3, <2>4 DEF TypeOK, broker, producer, history
<1>10. ASSUME NEW c \in Members, FetchFails(c) PROVE TypeOK'
  <2>1. faults' \in Nat
    BY <1>10, FaultsType DEF FetchFails
  <2>2. cHealth' \in [Members -> Health]
    BY <1>10, SetErrorAt DEF FetchFails
  <2>. QED
    BY <1>10, <2>1, <2>2 DEF FetchFails, TypeOK, InHand, broker, producer, history, loop
<1>11. ASSUME NEW c \in Members, ProcessSucceeds(c) PROVE TypeOK'
  <2>1. /\ consuming[c] = "process"
        /\ processed' = [processed EXCEPT ![message[c].topic] = @ \union {message[c].offset}]
        /\ consuming' = [consuming EXCEPT ![c] = "commit"]
        /\ UNCHANGED <<broker, group, committer, producer, faults, stopping, position, message,
                       stale, cHealth, failed, joined>>
    BY <1>11 DEF ProcessSucceeds
  <2>2. message[c].topic \in Topic /\ message[c].offset \in Nat
    BY <2>1, InHandMessage DEF InHand
  <2>3. processed' \in [Topic -> SUBSET Nat]
    BY <2>1, <2>2 DEF TypeOK
  <2>4. \A d \in Members : InHand(d)' <=> InHand(d)
    BY <2>1 DEF InHand, TypeOK
  <2>5. consuming' \in [Members -> {"starting", "fetch", "process", "commit"}]
    BY <2>1 DEF TypeOK
  <2>. QED
    BY <2>1, <2>3, <2>4, <2>5 DEF TypeOK, broker, producer
<1>12. ASSUME NEW c \in Members, ProcessFails(c) PROVE TypeOK'
  <2>1. /\ consuming[c] = "process" /\ (UNCHANGED faults \/ Fault)
        /\ failed' = [failed EXCEPT ![message[c].topic] = @ \union {message[c].offset}]
        /\ cHealth' = [cHealth EXCEPT ![c] = SetError(@, "process")]
        /\ NextMessage(c)
        /\ UNCHANGED <<broker, group, committer, producer, stopping, position, processed, joined>>
    BY <1>12 DEF ProcessFails, AfterFailure
  <2>2. message[c].topic \in Topic /\ message[c].offset \in Nat
    BY <2>1, InHandMessage DEF InHand
  <2>3. failed' \in [Topic -> SUBSET Nat]
    BY <2>1, <2>2 DEF TypeOK
  <2>4. faults' \in Nat
    BY <2>1, FaultsType
  <2>5. cHealth' \in [Members -> Health]
    BY <2>1, SetErrorAt
  <2>. QED
    BY <2>1, <2>3, <2>4, <2>5, NextMessageType DEF TypeOK, broker, producer
<1>13. ASSUME NEW c \in Members, CommitSucceeds(c) \/ CommitFails(c) PROVE TypeOK'
  <2>1. /\ consuming[c] = "commit" /\ NextMessage(c) /\ (UNCHANGED faults \/ Fault)
        /\ Commit(c) \/ UNCHANGED <<committed, committer>>
        /\ UNCHANGED <<end, group, producer, history, stopping, position>>
    BY <1>13 DEF CommitSucceeds, CommitFails
  <2>2. message[c].topic \in Topic /\ message[c].offset \in Nat
    BY <2>1, InHandMessage DEF InHand
  <2>3. committed' \in [Topic -> Offset] /\ committer' \in [Topic -> Members \union {Nobody}]
    <3>1. CASE Commit(c)
      BY <2>2, <3>1 DEF Commit, Committed, TypeOK
    <3>2. CASE UNCHANGED <<committed, committer>>
      BY <3>2 DEF TypeOK
    <3>. QED
      BY <2>1, <3>1, <3>2
  <2>4. faults' \in Nat
    BY <2>1, FaultsType
  <2>5. cHealth' \in [Members -> Health]
    <3>1. CASE CommitSucceeds(c)
      BY <3>1, SetErrorAt DEF CommitSucceeds
    <3>2. CASE CommitFails(c)
      BY <3>2, SetErrorAt DEF CommitFails
    <3>. QED
      BY <1>13, <3>1, <3>2
  <2>. QED
    BY <2>1, <2>3, <2>4, <2>5, NextMessageType DEF TypeOK, producer, history
<1>14. ASSUME NEW c \in Members, ConsumerGone(c), UNCHANGED faults \/ Fault PROVE TypeOK'
  <2>1. committer' \in [Topic -> Members \union {Nobody}]
    BY <1>14, UnsubscribedType DEF ConsumerGone
  <2>2. faults' \in Nat
    BY <1>14, FaultsType
  <2>3. /\ consuming' = [consuming EXCEPT ![c] = "starting"]
        /\ stopping' = [stopping EXCEPT ![c] = FALSE]
        /\ position' = [position EXCEPT ![c] = Unread]
        /\ message' = [message EXCEPT ![c] = NoMessage]
        /\ stale' = [stale EXCEPT ![c] = FALSE]
        /\ cHealth' = [cHealth EXCEPT ![c] = NewHealth]
        /\ group' = {}
        /\ UNCHANGED <<broker, producer, history>>
    BY <1>14 DEF ConsumerGone
  <2>4. /\ consuming' \in [Members -> {"starting", "fetch", "process", "commit"}]
        /\ stopping' \in [Members -> BOOLEAN]
        /\ position' \in [Members -> [Topic -> Offset]]
        /\ message' \in [Members -> Message \union {NoMessage}]
        /\ stale' \in [Members -> BOOLEAN]
        /\ cHealth' \in [Members -> Health]
    BY <2>3, NewHealthType DEF TypeOK, Unread
  <2>5. ASSUME NEW d \in Members
        PROVE  /\ InHand(d)' <=> message'[d] # NoMessage
               /\ InHand(d)' /\ ~stale'[d] =>
                    position'[d][message'[d].topic] = message'[d].offset + 1
    <3>1. CASE d = c
      BY <2>3, <3>1 DEF TypeOK, InHand
    <3>2. CASE d # c
      BY <2>3, <3>2 DEF TypeOK, InHand
    <3>. QED
      BY <3>1, <3>2
  <2>. QED
    BY <2>1, <2>2, <2>3, <2>4, <2>5 DEF TypeOK, broker, producer, history
<1>15. ASSUME NEW c \in Members, Stop(c), UNCHANGED faults \/ Fault PROVE TypeOK'
  <2>1. faults' \in Nat /\ stopping' \in [Members -> BOOLEAN]
    BY <1>15, FaultsType DEF Stop, TypeOK
  <2>. QED
    BY <1>15, <2>1 DEF Stop, TypeOK, InHand, broker, producer, loop, history
<1>16. CASE UNCHANGED vars
  BY <1>16 DEF vars, TypeOK, InHand, broker, producer, consumer, loop, history
<1>. QED
  BY <1>2, <1>3, <1>4, <1>5, <1>6, <1>7, <1>8, <1>9, <1>10, <1>11, <1>12, <1>13, <1>14,
     <1>15, <1>16
  DEF Next, Run, Shutdown, Crash, Terminate, LivenessKill

\* Every reachable state is well typed, and each reader stands just behind the
\* message its loop has in hand unless it subscribed again since.
THEOREM TypeCorrect == Spec => []TypeOK
<1>. QED
  BY InitTypeOK, StepTypeOK, PTL DEF Spec

-----------------------------------------------------------------------------
(* The inductive invariant *)

LEMMA InitIInv == Init => IInv
BY NoOffsetAssumption
DEF Init, IInv, PositionSound, HandSound, InHand, CommittedSound, CommittedTried, Unread

\* Steps that leave the group's offsets and the records of processing alone: the
\* logs may grow, and members may give up topics or lose what they have in hand.
LEMMA QuietKeepsIInv ==
  ASSUME TypeOK, TypeOK', IInv, \A t \in Topic : end[t] <= end'[t],
         UNCHANGED <<committed, processed, failed, joined>>,
         \A t \in Topic : committer'[t] \in {committer[t], Nobody},
         \A d \in Members : \A t \in Topic : position'[d][t] \in {position[d][t], NoOffset},
         \A d \in Members : consuming[d] = "process" =>
           \/ consuming'[d] = "process" /\ message'[d] = message[d]
           \/ \A t \in Topic : position'[d][t] = NoOffset,
         \A d \in Members : InHand(d)' =>
           /\ InHand(d) /\ consuming'[d] = consuming[d] /\ message'[d] = message[d]
           /\ stale[d] => stale'[d]
  PROVE  IInv'
<1>. USE DEF Offset
<1>1. PositionSound'
  <2>. SUFFICES ASSUME NEW d \in Members, NEW t \in Topic, position'[d][t] # NoOffset
               PROVE  /\ position'[d][t] <= end'[t]
                      /\ committer'[t] = d => committed[t] <= position'[d][t]
                      /\ \A o \in joined[t] .. position'[d][t] - 1 :
                           \/ o \in Tried(t)
                           \/ consuming'[d] = "process" /\ message'[d] = [topic |-> t, offset |-> o]
    BY DEF PositionSound, Tried
  <2>1. position'[d][t] = position[d][t] /\ position[d][t] \in Nat
    BY DEF TypeOK
  <2>2. end[t] \in Nat /\ end'[t] \in Nat /\ end[t] <= end'[t]
    BY DEF TypeOK
  <2>3. committer'[t] = d => committer[t] = d
    BY NobodyAssumption
  <2>4. consuming[d] = "process" => consuming'[d] = "process" /\ message'[d] = message[d]
    OBVIOUS
  <2>. QED
    BY <2>1, <2>2, <2>3, <2>4 DEF IInv, PositionSound
<1>2. HandSound'
  <2>. SUFFICES ASSUME NEW d \in Members, InHand(d)', NEW m, m = message'[d]
               PROVE  /\ m.offset < end'[m.topic]
                      /\ \A o \in joined[m.topic] .. m.offset - 1 : o \in Tried(m.topic)
                      /\ consuming'[d] = "commit" => m.offset \in processed[m.topic]
                      /\ ~stale'[d] /\ committer'[m.topic] = d => committed[m.topic] <= m.offset
    BY DEF HandSound, Tried
  <2>1. /\ InHand(d) /\ consuming'[d] = consuming[d] /\ m = message[d]
        /\ stale[d] => stale'[d]
    OBVIOUS
  <2>2. m.topic \in Topic /\ m.offset \in Nat
    BY <2>1, InHandMessage
  <2>3. committer'[m.topic] = d => committer[m.topic] = d
    BY <2>2, NobodyAssumption
  <2>4. end[m.topic] \in Nat /\ end'[m.topic] \in Nat /\ end[m.topic] <= end'[m.topic]
    BY <2>2 DEF TypeOK
  <2>. QED
    BY <2>1, <2>2, <2>3, <2>4 DEF IInv, HandSound
<1>3. CommittedSound'
  <2>. SUFFICES ASSUME NEW t \in Topic
               PROVE  /\ joined[t] <= end'[t]
                      /\ committed[t] # NoOffset => committed[t] <= end'[t]
                      /\ committer'[t] # Nobody => committed[t] # NoOffset
    BY DEF CommittedSound
  <2>1. end[t] \in Nat /\ end'[t] \in Nat /\ end[t] <= end'[t] /\ joined[t] \in Nat
    BY DEF TypeOK
  <2>2. committed[t] # NoOffset => committed[t] \in Nat
    BY DEF TypeOK
  <2>. QED
    BY <2>1, <2>2 DEF IInv, CommittedSound
<1>4. CommittedTried'
  BY DEF IInv, CommittedTried, Tried
<1>. QED
  BY <1>1, <1>2, <1>3, <1>4 DEF IInv

\* A commit is of a message that was processed, behind which everything was tried.
LEMMA CommitSound ==
  ASSUME TypeOK, IInv, NEW c \in Members, Commit(c), consuming[c] = "commit"
  PROVE  /\ message[c].topic \in Topic /\ message[c].offset \in Nat
         /\ message[c].offset \in processed[message[c].topic]
         /\ committed' = [committed EXCEPT ![message[c].topic] = message[c].offset + 1]
         /\ committer' = [committer EXCEPT ![message[c].topic] = IF stale[c] THEN Nobody ELSE c]
         /\ message[c].offset < end[message[c].topic]
         /\ \A o \in joined[message[c].topic] .. message[c].offset - 1 :
              o \in Tried(message[c].topic)
         /\ ~stale[c] => position[c][message[c].topic] = message[c].offset + 1
         /\ ~stale[c] /\ committer[message[c].topic] = c =>
              committed[message[c].topic] <= message[c].offset
<1>1. InHand(c)
  BY DEF InHand
<1>2. message[c].topic \in Topic /\ message[c].offset \in Nat
  BY <1>1, InHandMessage
<1>3. ~stale[c] => position[c][message[c].topic] = message[c].offset + 1
  BY <1>1 DEF TypeOK
<1>. QED
  BY <1>1, <1>2, <1>3 DEF IInv, HandSound, Commit, Committed

LEMMA JoinKeepsIInv ==
  ASSUME TypeOK, TypeOK', IInv, NEW c \in Members, NEW t \in Topic, Join(c, t)
  PROVE  IInv'
<1>. USE DEF Offset
<1>1. /\ position[c][t] = NoOffset
      /\ position' = [position EXCEPT ![c][t] = StartOffset(t)]
      /\ joined' = [joined EXCEPT ![t] = IF committed[t] = NoOffset THEN end[t] ELSE @]
      /\ UNCHANGED <<end, committed, committer, consuming, message, stale, processed, failed>>
  BY DEF Join, broker, loop
<1>2. /\ position'[c][t] = StartOffset(t)
      /\ \A d \in Members : \A u \in Topic :
           d # c \/ u # t => position'[d][u] = position[d][u]
  BY <1>1 DEF TypeOK
<1>3. \A u \in Topic :
        /\ joined[u] \in Nat /\ joined'[u] \in Nat /\ end[u] \in Nat
        /\ joined[u] <= joined'[u] /\ joined'[u] <= end[u]
        /\ committed[u] # NoOffset => joined'[u] = joined[u]
  BY <1>1 DEF IInv, CommittedSound, TypeOK
<1>4. PositionSound'
  <2>. SUFFICES ASSUME NEW d \in Members, NEW u \in Topic, position'[d][u] # NoOffset
               PROVE  /\ position'[d][u] <= end[u]
                      /\ committer[u] = d => committed[u] <= position'[d][u]
                      /\ \A o \in joined'[u] .. position'[d][u] - 1 :
                           \/ o \in Tried(u)
                           \/ consuming[d] = "process" /\ message[d] = [topic |-> u, offset |-> o]
    BY <1>1 DEF PositionSound, Tried
  <2>1. CASE d # c \/ u # t
    <3>1. position'[d][u] = position[d][u] /\ position[d][u] \in Nat
      BY <1>2, <2>1 DEF TypeOK
    <3>2. joined'[u] .. position'[d][u] - 1 \subseteq joined[u] .. position[d][u] - 1
      BY <1>3, <3>1
    <3>. QED
      BY <3>1, <3>2 DEF IInv, PositionSound
  <2>2. CASE d = c /\ u = t /\ committed[t] = NoOffset
    <3>1. position'[d][u] = end[t] /\ joined'[t] = end[t] /\ end[t] \in Nat
      BY <1>1, <1>2, <2>2 DEF StartOffset, TypeOK
    <3>2. committer[u] # d
      BY <2>2, NobodyAssumption DEF IInv, CommittedSound
    <3>. QED
      BY <2>2, <3>1, <3>2
  <2>3. CASE d = c /\ u = t /\ committed[t] # NoOffset
    <3>1. position'[d][u] = committed[t] /\ joined'[t] = joined[t] /\ committed[t] \in Nat
      BY <1>2, <1>3, <2>3 DEF StartOffset, TypeOK
    <3>. QED
      BY <2>3, <3>1 DEF IInv, CommittedSound, CommittedTried
  <2>. QED
    BY <2>1, <2>2, <2>3
<1>5. HandSound'
  <2>. SUFFICES ASSUME NEW d \in Members, InHand(d), NEW m, m = message[d],
                       NEW o \in joined'[m.topic] .. m.offset - 1
               PROVE  o \in Tried(m.topic)
    BY <1>1 DEF IInv, HandSound, Tried, InHand
  <2>1. m.topic \in Topic /\ m.offset \in Nat
    BY InHandMessage
  <2>2. o \in joined[m.topic] .. m.offset - 1
    BY <1>3, <2>1
  <2>. QED
    BY <2>2 DEF IInv, HandSound
<1>6. CommittedSound'
  BY <1>1, <1>3 DEF IInv, CommittedSound
<1>7. CommittedTried'
  BY <1>1, <1>3 DEF IInv, CommittedTried, Tried
<1>. QED
  BY <1>4, <1>5, <1>6, <1>7 DEF IInv

LEMMA FetchKeepsIInv ==
  ASSUME TypeOK, TypeOK', IInv, NEW c \in Members, NEW t \in Topic, Fetch(c, t)
  PROVE  IInv'
<1>. USE DEF Offset
<1>. DEFINE p == position[c][t]
<1>1. /\ consuming[c] = "fetch" /\ p \in Nat /\ p # NoOffset /\ p < end[t]
      /\ position' = [position EXCEPT ![c][t] = @ + 1]
      /\ message' = [message EXCEPT ![c] = [topic |-> t, offset |-> p]]
      /\ consuming' = [consuming EXCEPT ![c] = "process"]
      /\ UNCHANGED <<end, committed, committer, processed, failed, joined, stale>>
  BY DEF Fetch, Deliver, TypeOK, broker, history
<1>2. /\ message'[c] = [topic |-> t, offset |-> p] /\ consuming'[c] = "process"
      /\ position'[c][t] = p + 1
      /\ \A u \in Topic : u # t => position'[c][u] = position[c][u]
      /\ \A d \in Members : d # c =>
           /\ message'[d] = message[d] /\ consuming'[d] = consuming[d]
           /\ position'[d] = position[d]
  BY <1>1 DEF TypeOK
<1>3. /\ committer[t] = c => committed[t] <= p
      /\ \A o \in joined[t] .. p - 1 : o \in Tried(t)
  BY <1>1 DEF IInv, PositionSound
<1>. HIDE DEF p
<1>4. end[t] \in Nat /\ joined[t] \in Nat
  BY DEF TypeOK
<1>5. committer[t] = c => committed[t] \in Nat
  BY NobodyAssumption DEF IInv, CommittedSound, TypeOK
<1>6. PositionSound'
  <2>. SUFFICES ASSUME NEW d \in Members, NEW u \in Topic, position'[d][u] # NoOffset
               PROVE  /\ position'[d][u] <= end[u]
                      /\ committer[u] = d => committed[u] <= position'[d][u]
                      /\ \A o \in joined[u] .. position'[d][u] - 1 :
                           \/ o \in Tried(u)
                           \/ consuming'[d] = "process" /\ message'[d] = [topic |-> u, offset |-> o]
    BY <1>1 DEF PositionSound, Tried
  <2>1. CASE d # c
    BY <1>2, <2>1 DEF IInv, PositionSound
  <2>2. CASE d = c /\ u # t
    BY <1>1, <1>2, <2>2 DEF IInv, PositionSound
  <2>3. CASE d = c /\ u = t
    <3>1. \A o \in joined[t] .. (p + 1) - 1 : o \in Tried(t) \/ o = p
      BY <1>1, <1>3, <1>4
    <3>. QED
      BY <1>1, <1>2, <1>3, <1>4, <1>5, <2>3, <3>1
  <2>. QED
    BY <2>1, <2>2, <2>3
<1>7. HandSound'
  <2>. SUFFICES ASSUME NEW d \in Members, InHand(d)', NEW m, m = message'[d]
               PROVE  /\ m.offset < end[m.topic]
                      /\ \A o \in joined[m.topic] .. m.offset - 1 : o \in Tried(m.topic)
                      /\ consuming'[d] = "commit" => m.offset \in processed[m.topic]
                      /\ ~stale[d] /\ committer[m.topic] = d => committed[m.topic] <= m.offset
    BY <1>1 DEF HandSound, Tried
  <2>1. CASE d = c
    <3>1. m.topic = t /\ m.offset = p /\ consuming'[d] = "process"
      BY <1>2, <2>1
    <3>. QED
      BY <1>1, <1>3, <2>1, <3>1
  <2>2. CASE d # c
    BY <1>2, <2>2 DEF IInv, HandSound, InHand
  <2>. QED
    BY <2>1, <2>2
<1>8. CommittedSound' /\ CommittedTried'
  BY <1>1 DEF IInv, CommittedSound, CommittedTried, Tried
<1>. QED
  BY <1>6, <1>7, <1>8 DEF IInv

LEMMA ProcessKeepsIInv ==
  ASSUME TypeOK, TypeOK', IInv, NEW c \in Members, ProcessSucceeds(c) \/ ProcessFails(c)
  PROVE  IInv'
<1>. DEFINE t == message[c].topic
            o == message[c].offset
<1>1. /\ consuming[c] = "process"
      /\ UNCHANGED <<end, committed, committer, position, joined>>
  BY DEF ProcessSucceeds, ProcessFails, broker
<1>2. t \in Topic /\ o \in Nat
  BY <1>1, InHandMessage DEF InHand
<1>3. /\ \A u \in Topic : processed[u] \subseteq processed'[u] /\ failed[u] \subseteq failed'[u]
      /\ o \in processed'[t] \union failed'[t]
      /\ consuming'[c] = "commit" => message'[c] = message[c] /\ o \in processed'[t]
      /\ consuming'[c] \in {"commit", "fetch"}
      /\ stale'[c] = stale[c] \/ consuming'[c] = "fetch"
  <2>1. CASE ProcessSucceeds(c)
    BY <1>2, <2>1 DEF ProcessSucceeds, TypeOK
  <2>2. CASE ProcessFails(c)
    BY <1>2, <2>2 DEF ProcessFails, AfterFailure, NextMessage, TypeOK
  <2>. QED
    BY <2>1, <2>2
<1>4. \A d \in Members : d # c =>
        /\ consuming'[d] = consuming[d] /\ message'[d] = message[d] /\ stale'[d] = stale[d]
  BY DEF ProcessSucceeds, ProcessFails, AfterFailure, NextMessage, TypeOK
<1>5. \A u \in Topic : Tried(u) \subseteq Tried(u)'
  BY <1>3 DEF Tried
<1>. HIDE DEF t, o
<1>6. PositionSound'
  <2>. SUFFICES ASSUME NEW d \in Members, NEW u \in Topic, position[d][u] # NoOffset,
                       NEW q \in joined[u] .. position[d][u] - 1
               PROVE  \/ q \in Tried(u)'
                      \/ consuming'[d] = "process" /\ message'[d] = [topic |-> u, offset |-> q]
    BY <1>1 DEF IInv, PositionSound
  <2>1. q \in Tried(u) \/ (consuming[d] = "process" /\ message[d] = [topic |-> u, offset |-> q])
    BY DEF IInv, PositionSound
  <2>2. CASE q \in Tried(u)
    BY <1>5, <2>2
  <2>3. CASE d = c /\ message[d] = [topic |-> u, offset |-> q]
    <3>1. t = u /\ o = q
      BY <2>3 DEF t, o
    <3>. QED
      BY <1>3, <3>1 DEF Tried
  <2>4. CASE d # c /\ consuming[d] = "process" /\ message[d] = [topic |-> u, offset |-> q]
    BY <1>4, <2>4
  <2>. QED
    BY <2>1, <2>2, <2>3, <2>4
<1>7. HandSound'
  <2>. SUFFICES ASSUME NEW d \in Members, InHand(d)', NEW m, m = message'[d]
               PROVE  /\ m.offset < end[m.topic]
                      /\ \A q \in joined[m.topic] .. m.offset - 1 : q \in Tried(m.topic)'
                      /\ consuming'[d] = "commit" => m.offset \in processed'[m.topic]
                      /\ ~stale'[d] /\ committer[m.topic] = d => committed[m.topic] <= m.offset
    BY <1>1 DEF HandSound, Tried
  <2>1. /\ InHand(d) /\ m = message[d] /\ stale'[d] = stale[d]
        /\ consuming'[d] = "commit" => consuming[d] = "commit" \/ d = c
    BY <1>1, <1>3, <1>4 DEF InHand
  <2>2. m.topic \in Topic
    BY <2>1, InHandMessage
  <2>3. consuming'[d] = "commit" => m.offset \in processed'[m.topic]
    <3>1. CASE d = c
      BY <1>3, <2>1, <3>1 DEF t, o
    <3>2. CASE d # c
      BY <1>3, <2>1, <2>2, <3>2 DEF IInv, HandSound
    <3>. QED
      BY <3>1, <3>2
  <2>. QED
    BY <1>5, <2>1, <2>2, <2>3 DEF IInv, HandSound
<1>8. CommittedSound' /\ CommittedTried'
  BY <1>1, <1>3, <1>5 DEF IInv, CommittedSound, CommittedTried
<1>. QED
  BY <1>6, <1>7, <1>8 DEF IInv

LEMMA CommitKeepsIInv ==
  ASSUME TypeOK, TypeOK', IInv, NEW c \in Members, CommitSucceeds(c) \/ CommitFails(c)
  PROVE  IInv'
<1>. USE DEF Offset
<1>1. /\ consuming[c] = "commit" /\ NextMessage(c)
      /\ UNCHANGED <<end, position, processed, failed, joined>>
      /\ Commit(c) \/ UNCHANGED <<committed, committer>>
  BY DEF CommitSucceeds, CommitFails, history
<1>2. /\ consuming'[c] = "fetch"
      /\ \A d \in Members : d # c =>
           /\ consuming'[d] = consuming[d] /\ message'[d] = message[d] /\ stale'[d] = stale[d]
  BY <1>1 DEF NextMessage, TypeOK
<1>3. CASE UNCHANGED <<committed, committer>>
  <2>1. \A d \in Members : consuming[d] = "process" => consuming'[d] = "process" /\ message'[d] = message[d]
    BY <1>1, <1>2
  <2>2. \A d \in Members : InHand(d)' =>
          /\ InHand(d) /\ consuming'[d] = consuming[d] /\ message'[d] = message[d]
          /\ stale[d] => stale'[d]
    BY <1>2 DEF InHand
  <2>3. \A u \in Topic : end[u] <= end'[u]
    BY <1>1 DEF TypeOK
  <2>. QED
    BY <1>1, <1>3, <2>1, <2>2, <2>3, QuietKeepsIInv
<1>4. CASE Commit(c)
  <2>. DEFINE t == message[c].topic
              o == message[c].offset
  <2>1. /\ t \in Topic /\ o \in Nat /\ o \in processed[t] /\ o < end[t]
        /\ committed' = [committed EXCEPT ![t] = o + 1]
        /\ committer' = [committer EXCEPT ![t] = IF stale[c] THEN Nobody ELSE c]
        /\ \A q \in joined[t] .. o - 1 : q \in Tried(t)
        /\ ~stale[c] => position[c][t] = o + 1
    BY <1>1, <1>4, CommitSound
  <2>. HIDE DEF t, o
  <2>2. /\ committed'[t] = o + 1 /\ committer'[t] \in {Nobody, c}
        /\ committer'[t] = c => position[c][t] = o + 1
        /\ \A u \in Topic : u # t => committed'[u] = committed[u] /\ committer'[u] = committer[u]
    BY <2>1, NobodyAssumption DEF TypeOK
  <2>3. PositionSound'
    <3>. SUFFICES ASSUME NEW d \in Members, NEW u \in Topic, position[d][u] # NoOffset
                 PROVE  /\ committer'[u] = d => committed'[u] <= position[d][u]
                        /\ \A q \in joined[u] .. position[d][u] - 1 :
                             \/ q \in Tried(u)
                             \/ consuming'[d] = "process" /\ message'[d] = [topic |-> u, offset |-> q]
      BY <1>1 DEF IInv, PositionSound, Tried
    <3>1. committer'[u] = d => committed'[u] <= position[d][u]
      <4>1. CASE u # t
        BY <2>2, <4>1 DEF IInv, PositionSound
      <4>2. CASE u = t
        BY <2>1, <2>2, <4>2, NobodyAssumption
      <4>. QED
        BY <4>1, <4>2
    <3>2. consuming[d] = "process" => consuming'[d] = "process" /\ message'[d] = message[d]
      BY <1>1, <1>2
    <3>. QED
      BY <3>1, <3>2 DEF IInv, PositionSound
  <2>4. HandSound'
    <3>. SUFFICES ASSUME NEW d \in Members, InHand(d)', NEW m, m = message'[d]
                 PROVE  /\ m.offset < end[m.topic]
                        /\ \A q \in joined[m.topic] .. m.offset - 1 : q \in Tried(m.topic)
                        /\ consuming'[d] = "commit" => m.offset \in processed[m.topic]
                        /\ ~stale'[d] /\ committer'[m.topic] = d => committed'[m.topic] <= m.offset
      BY <1>1 DEF HandSound, Tried
    <3>1. /\ d # c /\ InHand(d) /\ m = message[d] /\ consuming'[d] = consuming[d]
          /\ stale'[d] = stale[d]
      BY <1>2 DEF InHand
    <3>2. m.topic \in Topic
      BY <3>1, InHandMessage
    <3>3. committer'[m.topic] = d => committer[m.topic] = d /\ committed'[m.topic] = committed[m.topic]
      BY <2>2, <3>1, <3>2, NobodyAssumption
    <3>. QED
      BY <3>1, <3>3 DEF IInv, HandSound
  <2>5. CommittedSound'
    <3>. SUFFICES ASSUME NEW u \in Topic
                 PROVE  /\ committed'[u] # NoOffset => committed'[u] <= end[u]
                        /\ committer'[u] # Nobody => committed'[u] # NoOffset
      BY <1>1 DEF IInv, CommittedSound
    <3>1. CASE u # t
      BY <2>2, <3>1 DEF IInv, CommittedSound
    <3>2. CASE u = t
      <4>1. o + 1 # NoOffset /\ end[t] \in Nat
        BY <2>1, NoOffsetAssumption DEF TypeOK
      <4>. QED
        BY <2>1, <2>2, <3>2, <4>1
    <3>. QED
      BY <3>1, <3>2
  <2>6. CommittedTried'
    <3>. SUFFICES ASSUME NEW u \in Topic, committed'[u] # NoOffset
                 PROVE  /\ committed'[u] - 1 \in processed[u]
                        /\ \A q \in joined[u] .. committed'[u] - 1 : q \in Tried(u)
      BY <1>1 DEF CommittedTried, Tried
    <3>1. CASE u # t
      BY <2>2, <3>1 DEF IInv, CommittedTried
    <3>2. CASE u = t
      <4>1. o \in Tried(t) /\ joined[t] \in Nat
        BY <2>1 DEF Tried, TypeOK
      <4>2. \A q \in joined[t] .. (o + 1) - 1 : q \in joined[t] .. o - 1 \/ q = o
        BY <2>1, <4>1
      <4>3. (o + 1) - 1 = o
        BY <2>1
      <4>. QED
        BY <2>1, <2>2, <3>2, <4>1, <4>2, <4>3
    <3>. QED
      BY <3>1, <3>2
  <2>. QED
    BY <2>3, <2>4, <2>5, <2>6 DEF IInv
<1>. QED
  BY <1>1, <1>3, <1>4

LEMMA StepIInv ==
  ASSUME TypeOK, TypeOK', IInv, [Next]_vars
  PROVE  IInv'
<1>1. ASSUME NEW ok \in BOOLEAN, NEW copies \in {0, 1, 2}, Send(ok, copies)
      PROVE  IInv'
  <2>1. Turn(topicIndex) \in Topic
    BY TurnType DEF TypeOK
  <2>2. \A t \in Topic : end[t] <= end'[t]
    BY <1>1, <2>1 DEF Send, TypeOK
  <2>3. UNCHANGED <<committed, committer, consuming, position, message, stale,
                    processed, failed, joined>>
    BY <1>1 DEF Send, consumer, loop, history
  <2>. QED
    BY <2>2, <2>3, QuietKeepsIInv DEF InHand
<1>2. CASE SendSucceeds
  BY <1>2, <1>1 DEF SendSucceeds
<1>3. CASE SendFails
  BY <1>3, <1>1 DEF SendFails
<1>4. \A t \in Topic : end[t] <= end[t]
  BY DEF TypeOK
<1>5. ASSUME \/ RestartProducer \/ Rebalance \/ UNCHANGED vars
             \/ \E c \in Members : FetchFails(c) \/ Stop(c)
      PROVE  IInv'
  <2>1. UNCHANGED <<end, committed, committer, consuming, position, message, stale,
                    processed, failed, joined>>
    BY <1>5 DEF RestartProducer, Rebalance, FetchFails, Stop, vars, broker, consumer, loop,
                producer, history
  <2>. QED
    BY <1>4, <2>1, QuietKeepsIInv DEF InHand
<1>6. ASSUME NEW c \in Members, StartConsumer(c) PROVE IInv'
  <2>1. /\ consuming[c] = "starting" /\ consuming' = [consuming EXCEPT ![c] = "fetch"]
        /\ UNCHANGED <<end, committed, committer, position, message, stale, processed, failed,
                       joined>>
    BY <1>6 DEF StartConsumer, broker, history
  <2>2. \A d \in Members : consuming'[d] = consuming[d] \/ (d = c /\ consuming'[d] = "fetch")
    BY <2>1 DEF TypeOK
  <2>3. \A d \in Members : consuming[d] = "process" => consuming'[d] = "process"
    BY <2>1, <2>2
  <2>4. \A d \in Members : InHand(d)' => InHand(d) /\ consuming'[d] = consuming[d]
    BY <2>2 DEF InHand
  <2>. QED
    BY <1>4, <2>1, <2>3, <2>4, QuietKeepsIInv
<1>7. ASSUME NEW c \in Members, Subscribe(c) PROVE IInv'
  <2>1. /\ position' = [position EXCEPT ![c] = Unread]
        /\ stale' = [stale EXCEPT ![c] = message[c] # NoMessage]
        /\ committer' = Unsubscribed(c)
        /\ UNCHANGED <<end, committed, consuming, message, processed, failed, joined>>
    BY <1>7 DEF Subscribe, broker, history
  <2>2. \A d \in Members : \A t \in Topic : position'[d][t] \in {position[d][t], NoOffset}
    BY <2>1 DEF TypeOK, Unread
  <2>3. \A d \in Members : InHand(d)' => InHand(d) /\ (stale[d] => stale'[d])
    BY <2>1 DEF InHand, TypeOK
  <2>4. \A t \in Topic : committer'[t] \in {committer[t], Nobody}
    BY <2>1, UnsubscribedType
  <2>. QED
    BY <1>4, <2>1, <2>2, <2>3, <2>4, QuietKeepsIInv
<1>8. ASSUME NEW c \in Members, ConsumerGone(c) PROVE IInv'
  <2>1. /\ consuming' = [consuming EXCEPT ![c] = "starting"]
        /\ position' = [position EXCEPT ![c] = Unread]
        /\ message' = [message EXCEPT ![c] = NoMessage]
        /\ stale' = [stale EXCEPT ![c] = FALSE]
        /\ committer' = Unsubscribed(c)
        /\ UNCHANGED <<end, committed, processed, failed, joined>>
    BY <1>8 DEF ConsumerGone, broker, history
  <2>2. \A d \in Members : \A t \in Topic : position'[d][t] \in {position[d][t], NoOffset}
    BY <2>1 DEF TypeOK, Unread
  <2>3. /\ consuming'[c] = "starting" /\ \A t \in Topic : position'[c][t] = NoOffset
        /\ \A d \in Members : d # c =>
             consuming'[d] = consuming[d] /\ message'[d] = message[d] /\ stale'[d] = stale[d]
    BY <2>1 DEF TypeOK, Unread
  <2>4. \A d \in Members : InHand(d)' =>
          /\ InHand(d) /\ consuming'[d] = consuming[d] /\ message'[d] = message[d]
          /\ stale[d] => stale'[d]
    BY <2>3 DEF InHand
  <2>5. \A t \in Topic : committer'[t] \in {committer[t], Nobody}
    BY <2>1, UnsubscribedType
  <2>6. \A d \in Members : consuming[d] = "process" =>
          \/ consuming'[d] = "process" /\ message'[d] = message[d]
          \/ \A t \in Topic : position'[d][t] = NoOffset
    BY <2>3
  <2>. QED
    BY <1>4, <2>1, <2>2, <2>4, <2>5, <2>6, QuietKeepsIInv
<1>. QED
  BY <1>2, <1>3, <1>5, <1>6, <1>7, <1>8, JoinKeepsIInv, FetchKeepsIInv, ProcessKeepsIInv,
     CommitKeepsIInv
  DEF Next, Run, Shutdown, Crash, Terminate, LivenessKill

LEMMA Invariance == Spec => [](TypeOK /\ IInv)
<1>. QED
  BY InitTypeOK, InitIInv, StepTypeOK, StepIInv, PTL DEF Spec

\* A commit never skips a message nobody looked at, whatever fails, restarts or
\* rebalances.
THEOREM CommittedSafe == Spec => []CommittedTried
<1>1. IInv => CommittedTried
  BY DEF IInv
<1>. QED
  BY <1>1, Invariance, PTL

-----------------------------------------------------------------------------
(* Who moves the committed offsets. *)

\* A step that changes what the group has committed, or who did, is a commit or
\* the end of a subscription.
LEMMA WhoMoves ==
  ASSUME TypeOK, IInv, [Next]_vars, <<committed, committer>>' # <<committed, committer>>
  PROVE  \/ \E c \in Members :
              Commit(c) /\ consuming[c] = "commit" /\ UNCHANGED <<end, processed>>
         \/ \E c \in Members :
              committer' = Unsubscribed(c) /\ UNCHANGED <<end, committed, processed>>
<1>1. ASSUME NEW c \in Members, CommitSucceeds(c) \/ CommitFails(c)
      PROVE  Commit(c) /\ consuming[c] = "commit" /\ UNCHANGED <<end, processed>>
  BY <1>1 DEF CommitSucceeds, CommitFails, history
<1>2. ASSUME NEW c \in Members, Subscribe(c) \/ ConsumerGone(c)
      PROVE  committer' = Unsubscribed(c) /\ UNCHANGED <<end, committed, processed>>
  BY <1>2 DEF Subscribe, ConsumerGone, broker, history
<1>3. ASSUME NEW c \in Members,
             \/ StartConsumer(c) \/ FetchFails(c) \/ Stop(c)
             \/ ProcessSucceeds(c) \/ ProcessFails(c)
             \/ \E t \in Topic : Join(c, t) \/ Fetch(c, t)
      PROVE  FALSE
  BY <1>3 DEF StartConsumer, FetchFails, Stop, ProcessSucceeds, ProcessFails, Join, Fetch,
              Deliver, broker
<1>4. ASSUME Rebalance \/ SendSucceeds \/ SendFails \/ RestartProducer \/ UNCHANGED vars
      PROVE  FALSE
  BY <1>4 DEF Rebalance, SendSucceeds, SendFails, Send, RestartProducer, broker, vars
<1>. QED
  BY <1>1, <1>2, <1>3, <1>4 DEF Next, Run, Shutdown, Crash, Terminate, LivenessKill

\* Within one subscription no retry, and no commit taken for lost, moves the group
\* back.
THEOREM CommitsAdvance == Spec => NeverRewinds
<1>. DEFINE Forward ==
       \A t \in Topic : \A c \in Members :
         committer[t] = c /\ committer'[t] = c => committed'[t] >= committed[t]
<1>1. ASSUME TypeOK, IInv, [Next]_vars, <<committed, committer>>' # <<committed, committer>>
      PROVE  Forward
  <2>. SUFFICES ASSUME NEW t \in Topic, NEW c \in Members, committer[t] = c, committer'[t] = c
               PROVE  committed'[t] >= committed[t]
    OBVIOUS
  <2>1. committed[t] \in Nat
    BY <1>1, NobodyAssumption DEF IInv, CommittedSound, TypeOK, Offset
  <2>2. CASE UNCHANGED committed
    BY <2>1, <2>2
  <2>3. ASSUME NEW d \in Members, Commit(d), consuming[d] = "commit"
        PROVE  committed'[t] >= committed[t]
    <3>1. /\ message[d].topic \in Topic /\ message[d].offset \in Nat
          /\ committed' = [committed EXCEPT ![message[d].topic] = message[d].offset + 1]
          /\ committer' = [committer EXCEPT ![message[d].topic] = IF stale[d] THEN Nobody ELSE d]
          /\ ~stale[d] /\ committer[message[d].topic] = d =>
               committed[message[d].topic] <= message[d].offset
      BY <1>1, <2>3, CommitSound
    <3>2. CASE message[d].topic # t
      BY <1>1, <2>1, <3>1, <3>2 DEF TypeOK
    <3>3. CASE message[d].topic = t
      <4>1. ~stale[d] /\ d = c
        BY <1>1, <3>1, <3>3, NobodyAssumption DEF TypeOK
      <4>2. committed'[t] = message[d].offset + 1
        BY <1>1, <3>1, <3>3 DEF TypeOK
      <4>. QED
        BY <2>1, <3>1, <3>3, <4>1, <4>2
    <3>. QED
      BY <3>2, <3>3
  <2>. QED
    BY <1>1, <2>2, <2>3, WhoMoves
<1>2. TypeOK /\ IInv /\ [Next]_vars => [Forward]_<<committed, committer>>
  BY <1>1
<1>. QED
  BY <1>2, Invariance, PTL DEF Spec, NeverRewinds

-----------------------------------------------------------------------------
(* The consumers implement the group log. *)

LEMMA InitRefines == Init => GL!Init
BY DEF Init, GL!Init, Unread

LEMMA StepRefines ==
  ASSUME TypeOK, TypeOK', IInv, [Next]_vars
  PROVE  [GL!Next]_<<end, committed, committer, processed>>
<1>1. ASSUME NEW ok \in BOOLEAN, NEW copies \in {0, 1, 2}, Send(ok, copies)
      PROVE  GL!Next
  <2>. DEFINE t == Turn(topicIndex)
  <2>1. t \in Topic
    BY TurnType DEF TypeOK
  <2>2. /\ end' = [end EXCEPT ![t] = @ + copies]
        /\ UNCHANGED <<committed, committer, processed>>
    BY <1>1 DEF Send, history
  <2>. HIDE DEF t
  <2>3. end'[t] \in Nat /\ end[t] <= end'[t] /\ end' = [end EXCEPT ![t] = end'[t]]
    BY <2>1, <2>2 DEF TypeOK
  <2>4. GL!Append(t)
    BY <2>2, <2>3 DEF GL!Append
  <2>. QED
    BY <2>1, <2>4 DEF GL!Next
<1>2. CASE SendSucceeds
  BY <1>1, <1>2 DEF SendSucceeds
<1>3. CASE SendFails
  BY <1>1, <1>3 DEF SendFails
<1>4. ASSUME NEW c \in Members, ProcessSucceeds(c) PROVE GL!Next
  <2>. DEFINE t == message[c].topic
  <2>1. consuming[c] = "process" /\ InHand(c)
    BY <1>4 DEF ProcessSucceeds, InHand
  <2>2. t \in Topic /\ message[c].offset \in Nat
    BY <2>1, InHandMessage
  <2>3. message[c].offset < end[t] /\ end[t] \in Nat
    BY <2>1, <2>2 DEF IInv, HandSound, TypeOK
  <2>4. message[c].offset \in 0 .. end[t] - 1
    BY <2>2, <2>3
  <2>5. GL!Process(t, message[c].offset)
    BY <1>4 DEF ProcessSucceeds, GL!Process, broker
  <2>. HIDE DEF t
  <2>. QED
    BY <2>2, <2>4, <2>5 DEF GL!Next
<1>5. CASE <<committed, committer>>' # <<committed, committer>>
  <2>1. ASSUME NEW c \in Members, Commit(c), consuming[c] = "commit",
               UNCHANGED <<end, processed>>
        PROVE  GL!Next
    <3>. DEFINE t == message[c].topic
                o == message[c].offset
                d == IF stale[c] THEN Nobody ELSE c
    <3>1. /\ t \in Topic /\ o \in Nat /\ o \in processed[t]
          /\ committed' = [committed EXCEPT ![t] = o + 1]
          /\ committer' = [committer EXCEPT ![t] = d]
          /\ ~stale[c] /\ committer[t] = c => committed[t] <= o
      BY <2>1, CommitSound
    <3>2. d # Nobody /\ committer[t] = d => committed[t] <= o + 1
      <4>. SUFFICES ASSUME d # Nobody, committer[t] = d PROVE committed[t] <= o + 1
        OBVIOUS
      <4>1. ~stale[c] /\ committer[t] = c
        OBVIOUS
      <4>2. committed[t] \in Nat
        BY <3>1, <4>1, NobodyAssumption DEF IInv, CommittedSound, TypeOK, Offset
      <4>. QED
        BY <3>1, <4>1, <4>2
    <3>3. d \in Members \union {Nobody}
      OBVIOUS
    <3>. HIDE DEF t, o, d
    <3>4. GL!Commit(t, o, d)
      BY <2>1, <3>1, <3>2 DEF GL!Commit
    <3>. QED
      BY <3>1, <3>3, <3>4 DEF GL!Next
  <2>2. ASSUME NEW c \in Members, committer' = Unsubscribed(c),
               UNCHANGED <<end, committed, processed>>
        PROVE  GL!Next
    BY <2>2 DEF GL!Next, GL!Unsubscribe, Unsubscribed
  <2>. QED
    BY <1>5, <2>1, <2>2, WhoMoves
<1>6. ASSUME UNCHANGED <<committed, committer>>, NEW c \in Members,
             \/ StartConsumer(c) \/ FetchFails(c) \/ Stop(c) \/ Subscribe(c) \/ ConsumerGone(c)
             \/ ProcessFails(c) \/ CommitSucceeds(c) \/ CommitFails(c)
             \/ \E t \in Topic : Join(c, t) \/ Fetch(c, t)
      PROVE  UNCHANGED <<end, committed, committer, processed>>
  BY <1>6 DEF StartConsumer, FetchFails, Stop, Subscribe, ConsumerGone, ProcessFails,
              CommitSucceeds, CommitFails, Join, Fetch, Deliver, broker, history
<1>7. ASSUME Rebalance \/ RestartProducer \/ UNCHANGED vars
      PROVE  UNCHANGED <<end, committed, committer, processed>>
  BY <1>7 DEF Rebalance, RestartProducer, broker, history, vars
<1>. QED
  BY <1>2, <1>3, <1>4, <1>5, <1>6, <1>7 DEF Next, Run, Shutdown, Crash, Terminate, LivenessKill

\* Whatever the broker, the kubelet and the processing do, the consumers are
\* members of a group log: they commit only behind messages they have processed,
\* and one subscription never moves the group back.
THEOREM Refinement == Spec => KeepsGroupLog
<1>. QED
  BY InitRefines, StepRefines, Invariance, InitTypeOK, StepTypeOK, PTL
  DEF Spec, KeepsGroupLog, GL!Spec
=============================================================================
