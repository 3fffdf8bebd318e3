---------------------------- MODULE PubSubProofs ----------------------------
(***************************************************************************)
(* Proofs about PubSub, for any number of publishes and handlers that      *)
(* overlap, any number of messages and any number of faults: the           *)
(* subscription keeps the promise of a work queue, and a message is        *)
(* processed again at most once for every failure, so exactly once while   *)
(* nothing fails.                                                          *)
(***************************************************************************)
EXTENDS PubSub, FiniteSetTheorems, TLAPS

-----------------------------------------------------------------------------
(* What makes the properties inductive. *)

TypeOK ==
  /\ published \in Nat
  /\ lease \in [MessageId -> {"none", "available", "leased", "acked"}]
  /\ job \in [Job -> Work \union {Idle}]
  /\ rounds \in Nat
  /\ handler \in [Handler -> Delivery \union {Idle}]
  /\ consumer \in {"starting", "ready", "closing"}
  /\ count \in Nat
  /\ faults \in Nat

Busy == {j \in Job : job[j] # Idle}

\* Every publish under way and every message published had a round of its own,
\* so there are ids for the messages still to come.
RoundsSuffice ==
  /\ IsFiniteSet(Busy)
  /\ published + Cardinality(Busy) <= rounds
  /\ rounds <= MaxRounds

\* Only what was published is leased, handled and processed, and only what was
\* processed is acked.
LeaseSound ==
  /\ \A m \in MessageId : lease[m] = "none" <=> m > published
  /\ \A h \in Handler : handler[h] # Idle => handler[h].message <= published
  /\ processed \subseteq 1 .. published
  /\ \A m \in MessageId : lease[m] = "acked" => m \in processed

\* While nothing fails the consumer runs on, each message under way has one
\* handler, whose lease has not expired, and what is processed is acked.
Undisturbed ==
  faults = 0 =>
    /\ consumer # "closing"
    /\ cError = FALSE
    /\ \A m \in processed : lease[m] = "acked"
    /\ \A h \in Handler : handler[h] # Idle => lease[handler[h].message] = "leased"
    /\ \A g, h \in Handler :
         /\ handler[g] # Idle /\ handler[h] # Idle
         /\ handler[g].message = handler[h].message
         => g = h
    /\ count = Cardinality(processed)

IInv == TypeOK /\ RoundsSuffice /\ LeaseSound /\ Undisturbed

-----------------------------------------------------------------------------
(* The initial states and the steps of the publisher *)

LEMMA InitInv == Init => IInv
<1>. SUFFICES ASSUME Init PROVE IInv
  OBVIOUS
<1>1. TypeOK
  BY DEF Init, TypeOK
<1>2. Busy = {}
  BY DEF Init, Busy
<1>3. RoundsSuffice
  BY <1>2, FS_EmptySet, BoundAssumption DEF Init, RoundsSuffice
<1>4. LeaseSound
  BY DEF Init, LeaseSound, MessageId
<1>5. Undisturbed
  BY FS_EmptySet DEF Init, Undisturbed
<1>. QED
  BY <1>1, <1>3, <1>4, <1>5 DEF IInv

\* What the publisher does without storing a message leaves the consumer alone.
LEMMA ConsumerFrame ==
  ASSUME IInv, UNCHANGED <<published, lease, consumerVars>>, faults' \in {faults, faults + 1}
  PROVE  LeaseSound' /\ Undisturbed'
<1>1. UNCHANGED <<published, lease, handler, consumer, cError, count, processed>>
  BY DEF consumerVars
<1>2. faults' = 0 => faults = 0
  BY DEF IInv, TypeOK
<1>. QED
  BY <1>1, <1>2 DEF IInv, LeaseSound, Undisturbed

\* And the other way round.
LEMMA PublisherFrame ==
  ASSUME IInv, UNCHANGED <<published, job, rounds>>
  PROVE  RoundsSuffice'
BY DEF IInv, RoundsSuffice, Busy

LEMMA BeginInv ==
  ASSUME IInv, NEW j \in Job, NEW trigger \in {"first", "periodic", "http"}, NEW api \in Api,
         Begin(j, trigger, api)
  PROVE  IInv'
<1>. DEFINE w == [trigger |-> trigger, api |-> api]
<1>1. w \in Work /\ w # Idle
  BY IdleAssumption DEF Work
<1>. HIDE DEF w
<1>2. /\ job' = [job EXCEPT ![j] = w] /\ job[j] = Idle
      /\ rounds < MaxRounds /\ rounds' = rounds + 1
      /\ UNCHANGED <<published, lease, consumerVars, faults>>
  BY DEF Begin, w
<1>3. TypeOK'
  BY <1>1, <1>2 DEF IInv, TypeOK, consumerVars
<1>4. Busy' = Busy \union {j} /\ j \notin Busy
  BY <1>1, <1>2 DEF IInv, TypeOK, Busy
<1>5. IsFiniteSet(Busy)' /\ Cardinality(Busy)' = Cardinality(Busy) + 1
  BY <1>4, FS_AddElement DEF IInv, RoundsSuffice
<1>6. RoundsSuffice'
  <2>1. Cardinality(Busy) \in Nat
    BY FS_CardinalityType DEF IInv, RoundsSuffice
  <2>. QED
    BY <1>2, <1>5, <2>1, BoundAssumption DEF IInv, TypeOK, RoundsSuffice
<1>7. LeaseSound' /\ Undisturbed'
  BY <1>2, ConsumerFrame
<1>. QED
  BY <1>3, <1>6, <1>7 DEF IInv

\* A message that is stored gets an id that no message had.
LEMMA StoreInv ==
  ASSUME IInv, published + 1 \in MessageId, Store, UNCHANGED consumerVars,
         faults' \in {faults, faults + 1}
  PROVE  LeaseSound' /\ Undisturbed' /\ published' \in Nat
         /\ lease' \in [MessageId -> {"none", "available", "leased", "acked"}]
<1>1. /\ published' = published + 1 /\ published \in Nat
      /\ lease' = [lease EXCEPT ![published + 1] = "available"]
      /\ UNCHANGED <<handler, consumer, cError, count, processed>>
  BY DEF Store, consumerVars, IInv, TypeOK
<1>2. lease[published + 1] = "none"
  BY <1>1 DEF IInv, LeaseSound
<1>3. \A h \in Handler : handler[h] # Idle => handler[h].message \in MessageId
  BY DEF IInv, TypeOK, Delivery
<1>4. /\ lease'[published + 1] = "available"
      /\ \A m \in MessageId : m # published + 1 => lease'[m] = lease[m]
  BY <1>1 DEF IInv, TypeOK
<1>5. LeaseSound'
  <2>1. \A m \in MessageId : lease'[m] = "none" <=> m > published'
    BY <1>1, <1>4 DEF IInv, LeaseSound, MessageId
  <2>2. \A h \in Handler : handler'[h] # Idle => handler'[h].message <= published'
    BY <1>1, <1>3 DEF IInv, LeaseSound, MessageId
  <2>3. processed' \subseteq 1 .. published'
    BY <1>1 DEF IInv, LeaseSound
  <2>4. \A m \in MessageId : lease'[m] = "acked" => m \in processed'
    BY <1>1, <1>4 DEF IInv, LeaseSound
  <2>. QED
    BY <2>1, <2>2, <2>3, <2>4 DEF LeaseSound
<1>6. Undisturbed'
  <2>1. \A h \in Handler : handler[h] # Idle => handler[h].message # published + 1
    BY <1>1, <1>3 DEF IInv, LeaseSound, MessageId
  <2>2. \A m \in processed : m \in MessageId /\ m # published + 1
    BY <1>1, BoundAssumption DEF IInv, LeaseSound, RoundsSuffice, MessageId
  <2>3. faults' = 0 => faults = 0
    BY DEF IInv, TypeOK
  <2>. QED
    BY <1>1, <1>3, <1>4, <2>1, <2>2, <2>3 DEF IInv, Undisturbed
<1>. QED
  BY <1>1, <1>5, <1>6 DEF IInv, TypeOK

\* The end of a publish: the message is there or it is not.
LEMMA PublishInv ==
  ASSUME IInv, NEW j \in Job, PublishSucceeds(j) \/ PublishFails(j)
  PROVE  /\ IInv'
         /\ \/ UNCHANGED <<published, lease, processed>>
            \/ Store /\ published + 1 \in MessageId /\ UNCHANGED processed
<1>1. /\ job[j] # Idle /\ job[j] \in Work /\ AfterPublish(j)
      /\ UNCHANGED <<rounds, consumerVars>>
      /\ faults' \in {faults, faults + 1}
      /\ Stored(j) \/ UNCHANGED <<published, lease>>
  BY DEF PublishSucceeds, PublishFails, Fault, IInv, TypeOK
<1>2. j \in Busy /\ Cardinality(Busy) \in Nat /\ Cardinality(Busy) >= 1
  <2>1. j \in Busy
    BY <1>1 DEF Busy
  <2>2. IsFiniteSet(Busy) /\ Cardinality(Busy) \in Nat /\ Cardinality(Busy) # 0
    BY <2>1, FS_CardinalityType, FS_EmptySet DEF IInv, RoundsSuffice
  <2>. QED
    BY <2>1, <2>2
<1>3. \/ /\ job' = [job EXCEPT ![j].api = "publishMessage"]
         /\ job[j].api = "legacy"
      \/ job' = [job EXCEPT ![j] = Idle]
  BY <1>1 DEF AfterPublish
<1>4. job' \in [Job -> Work \union {Idle}]
  <2>1. CASE job' = [job EXCEPT ![j].api = "publishMessage"]
    <3>1. [job[j] EXCEPT !.api = "publishMessage"] \in Work
      BY <1>1 DEF Work, Api
    <3>2. job' = [job EXCEPT ![j] = [job[j] EXCEPT !.api = "publishMessage"]]
      BY <2>1
    <3>. QED
      BY <3>1, <3>2 DEF IInv, TypeOK
  <2>2. CASE job' = [job EXCEPT ![j] = Idle]
    BY <2>2 DEF IInv, TypeOK
  <2>. QED
    BY <1>3, <2>1, <2>2
<1>5. \/ Busy' = Busy /\ job[j].api = "legacy"
      \/ Busy' = Busy \ {j}
  <2>1. CASE /\ job' = [job EXCEPT ![j].api = "publishMessage"]
             /\ job[j].api = "legacy"
    <3>1. [job[j] EXCEPT !.api = "publishMessage"] \in Work
      BY <1>1 DEF Work, Api
    <3>2. /\ job'[j] = [job[j] EXCEPT !.api = "publishMessage"]
          /\ \A i \in Job : i # j => job'[i] = job[i]
      BY <2>1 DEF IInv, TypeOK
    <3>3. job'[j] # Idle
      BY <3>1, <3>2, IdleAssumption
    <3>. QED
      BY <1>1, <2>1, <3>2, <3>3 DEF Busy
  <2>2. CASE job' = [job EXCEPT ![j] = Idle]
    BY <2>2 DEF IInv, TypeOK, Busy
  <2>. QED
    BY <1>3, <2>1, <2>2
<1>6. /\ IsFiniteSet(Busy)' /\ Cardinality(Busy)' \in Nat
      /\ \/ Cardinality(Busy)' = Cardinality(Busy) - 1
         \/ Cardinality(Busy)' = Cardinality(Busy) /\ job[j].api = "legacy"
  BY <1>2, <1>5, FS_RemoveElement DEF IInv, RoundsSuffice
<1>7. CASE UNCHANGED <<published, lease>>
  <2>1. TypeOK'
    BY <1>1, <1>4, <1>7 DEF IInv, TypeOK, consumerVars
  <2>2. RoundsSuffice'
    BY <1>1, <1>2, <1>6, <1>7 DEF IInv, TypeOK, RoundsSuffice
  <2>3. LeaseSound' /\ Undisturbed'
    BY <1>1, <1>7, ConsumerFrame
  <2>. QED
    BY <1>1, <1>7, <2>1, <2>2, <2>3 DEF IInv, consumerVars
<1>8. CASE Store /\ job[j].api # "legacy"
  <2>1. published + 1 \in MessageId
    BY <1>2, BoundAssumption DEF IInv, TypeOK, RoundsSuffice, MessageId
  <2>2. /\ LeaseSound' /\ Undisturbed' /\ published' \in Nat
        /\ lease' \in [MessageId -> {"none", "available", "leased", "acked"}]
    BY <1>1, <1>8, <2>1, StoreInv
  <2>3. TypeOK'
    BY <1>1, <1>4, <2>2 DEF IInv, TypeOK, consumerVars
  <2>4. RoundsSuffice'
    BY <1>1, <1>2, <1>6, <1>8 DEF IInv, TypeOK, RoundsSuffice, Store
  <2>. QED
    BY <1>1, <1>8, <2>1, <2>2, <2>3, <2>4 DEF IInv, consumerVars
<1>. QED
  BY <1>1, <1>7, <1>8 DEF Stored

\* A publisher that starts again has no publish under way.
LEMMA PublisherGoneInv ==
  ASSUME IInv, PublisherGone, faults' \in {faults, faults + 1}
  PROVE  IInv'
<1>1. /\ job' = [i \in Job |-> Idle]
      /\ UNCHANGED <<published, lease, rounds, consumerVars>>
  BY DEF PublisherGone
<1>2. TypeOK'
  BY <1>1 DEF IInv, TypeOK, consumerVars
<1>3. Busy' = {}
  BY <1>1 DEF Busy
<1>4. RoundsSuffice'
  <2>1. Cardinality(Busy) \in Nat
    BY FS_CardinalityType DEF IInv, RoundsSuffice
  <2>. QED
    BY <1>1, <1>3, <2>1, FS_EmptySet DEF IInv, TypeOK, RoundsSuffice
<1>. QED
  BY <1>1, <1>2, <1>4, ConsumerFrame DEF IInv

\* Deciding to close changes nothing the consumer depends on.
LEMMA PublisherSigtermInv ==
  ASSUME IInv, PublisherSigterm, faults' \in {faults, faults + 1}
  PROVE  IInv'
<1>1. UNCHANGED <<published, lease, job, rounds, consumerVars>>
  BY DEF PublisherSigterm
<1>2. TypeOK'
  BY <1>1 DEF IInv, TypeOK, consumerVars
<1>. QED
  BY <1>1, <1>2, ConsumerFrame, PublisherFrame DEF IInv

-----------------------------------------------------------------------------
(* The steps of the consumer *)

LEMMA ProcessedType ==
  ASSUME IInv
  PROVE  IsFiniteSet(processed) /\ processed \subseteq MessageId
<1>1. processed \subseteq 1 .. published /\ published \in Nat
  BY DEF IInv, TypeOK, LeaseSound
<1>2. Cardinality(Busy) \in Nat /\ published + Cardinality(Busy) <= MaxRounds
  BY FS_CardinalityType, BoundAssumption DEF IInv, TypeOK, RoundsSuffice
<1>3. published <= MaxRounds
  BY <1>1, <1>2, BoundAssumption
<1>4. IsFiniteSet(1 .. published)
  BY <1>1, FS_Interval
<1>5. IsFiniteSet(processed)
  BY <1>1, <1>4, FS_Subset
<1>. QED
  BY <1>1, <1>3, <1>5, BoundAssumption DEF MessageId

\* What a handler works on has been published.
LEMMA HandlerType ==
  ASSUME IInv, NEW h \in Handler, handler[h] # Idle
  PROVE  /\ handler[h] \in Delivery
         /\ handler[h].message \in MessageId /\ handler[h].message <= published
BY DEF IInv, TypeOK, LeaseSound, Delivery

\* A handler that starts takes a message that no other handler has, unless
\* something has failed.
LEMMA DeliverInv ==
  ASSUME IInv, NEW h \in Handler, NEW m \in MessageId, Deliver(h, m)
  PROVE  IInv'
<1>. DEFINE d == [message |-> m, phase |-> "delay"]
<1>1. d \in Delivery /\ d # Idle /\ d.message = m
  BY IdleAssumption DEF Delivery
<1>. HIDE DEF d
<1>2. /\ lease[m] = "available" /\ handler[h] = Idle
      /\ lease' = [lease EXCEPT ![m] = "leased"]
      /\ handler' = [handler EXCEPT ![h] = d]
      /\ UNCHANGED <<published, job, rounds, consumer, cError, count, processed, faults>>
  BY DEF Deliver, d, publisherVars
<1>3. TypeOK'
  BY <1>1, <1>2 DEF IInv, TypeOK
<1>4. /\ handler'[h] = d /\ \A g \in Handler \ {h} : handler'[g] = handler[g]
      /\ lease'[m] = "leased" /\ \A n \in MessageId \ {m} : lease'[n] = lease[n]
  BY <1>2 DEF IInv, TypeOK
<1>5. LeaseSound'
  <2>1. m <= published
    BY <1>2 DEF IInv, TypeOK, LeaseSound, MessageId
  <2>. QED
    BY <1>1, <1>2, <1>4, <2>1 DEF IInv, LeaseSound
<1>6. Undisturbed'
  <2>. SUFFICES ASSUME faults = 0 PROVE Undisturbed'
    BY <1>2 DEF Undisturbed
  <2>1. \A g \in Handler : handler[g] # Idle => handler[g].message # m
    BY <1>2 DEF IInv, Undisturbed
  <2>2. m \notin processed
    BY <1>2 DEF IInv, Undisturbed
  <2>3. \A n \in processed : n \in MessageId
    BY ProcessedType
  <2>4. \A g \in Handler : handler[g] # Idle => handler[g].message \in MessageId
    BY DEF IInv, TypeOK, Delivery
  <2>5. \A n \in processed : lease'[n] = "acked"
    BY <1>4, <2>2, <2>3 DEF IInv, Undisturbed
  <2>6. \A g \in Handler : handler'[g] # Idle => lease'[handler'[g].message] = "leased"
    BY <1>1, <1>4, <2>4 DEF IInv, Undisturbed
  <2>7. \A f, g \in Handler :
          /\ handler'[f] # Idle /\ handler'[g] # Idle
          /\ handler'[f].message = handler'[g].message
          => f = g
    BY <1>1, <1>4, <2>1 DEF IInv, Undisturbed
  <2>. QED
    BY <1>2, <2>5, <2>6, <2>7 DEF IInv, Undisturbed
<1>7. RoundsSuffice'
  BY <1>2, PublisherFrame
<1>. QED
  BY <1>3, <1>5, <1>6, <1>7 DEF IInv

LEMMA CallInv ==
  ASSUME IInv, NEW h \in Handler, Call(h)
  PROVE  IInv'
<1>. DEFINE d == [handler[h] EXCEPT !.phase = "call"]
<1>1. handler[h] # Idle /\ handler[h] \in Delivery
  BY DEF Call, IInv, TypeOK
<1>2. d \in Delivery /\ d # Idle /\ d.message = handler[h].message
  BY <1>1, IdleAssumption DEF Delivery
<1>3. /\ handler' = [handler EXCEPT ![h] = d]
      /\ UNCHANGED <<published, lease, job, rounds, consumer, cError, count, processed, faults>>
  BY DEF Call, publisherVars
<1>. HIDE DEF d
<1>4. TypeOK'
  BY <1>2, <1>3 DEF IInv, TypeOK
<1>5. handler'[h] = d /\ \A g \in Handler \ {h} : handler'[g] = handler[g]
  BY <1>3 DEF IInv, TypeOK
<1>6. \A g \in Handler : /\ handler'[g] # Idle <=> handler[g] # Idle
                         /\ handler[g] # Idle => handler'[g].message = handler[g].message
  BY <1>1, <1>2, <1>5
<1>7. LeaseSound'
  <2>1. \A g \in Handler : handler'[g] # Idle => handler'[g].message <= published'
    BY <1>3, <1>6 DEF IInv, LeaseSound
  <2>. QED
    BY <1>3, <2>1 DEF IInv, LeaseSound
<1>8. Undisturbed'
  <2>. SUFFICES ASSUME faults = 0 PROVE Undisturbed'
    BY <1>3 DEF Undisturbed
  <2>1. \A g \in Handler : handler'[g] # Idle => lease'[handler'[g].message] = "leased"
    BY <1>3, <1>6 DEF IInv, Undisturbed
  <2>2. \A f, g \in Handler :
          /\ handler'[f] # Idle /\ handler'[g] # Idle
          /\ handler'[f].message = handler'[g].message
          => f = g
    BY <1>6 DEF IInv, Undisturbed
  <2>. QED
    BY <1>3, <2>1, <2>2 DEF IInv, Undisturbed
<1>. QED
  BY <1>3, <1>4, <1>7, <1>8, PublisherFrame DEF IInv

\* What is processed is acked at once, unless the ack is lost.
LEMMA SucceedInv ==
  ASSUME IInv, NEW h \in Handler, Succeed(h)
  PROVE  IInv'
<1>. DEFINE m == handler[h].message
<1>1. /\ handler[h] # Idle /\ m \in MessageId /\ m \in 1 .. published
  BY DEF Succeed, IInv, TypeOK, LeaseSound, Delivery, MessageId
<1>2. /\ \/ lease' = [lease EXCEPT ![m] = "acked"] /\ faults' = faults
         \/ lease' = lease /\ faults' = faults + 1
      /\ count' = count + 1
      /\ processed' = processed \union {m}
      /\ handler' = [handler EXCEPT ![h] = Idle]
      /\ cError' = FALSE
      /\ UNCHANGED <<published, job, rounds, consumer>>
  BY DEF Succeed, Ack, Fault, publisherVars
<1>3. TypeOK'
  BY <1>1, <1>2 DEF IInv, TypeOK
<1>4. handler'[h] = Idle /\ \A g \in Handler \ {h} : handler'[g] = handler[g]
  BY <1>2 DEF IInv, TypeOK
<1>5. \A n \in MessageId : lease'[n] = lease[n] \/ (n = m /\ lease'[n] = "acked")
  BY <1>1, <1>2 DEF IInv, TypeOK
<1>6. LeaseSound'
  <2>1. \A n \in MessageId : lease'[n] = "none" <=> n > published
    BY <1>1, <1>5 DEF IInv, LeaseSound, TypeOK
  <2>. QED
    BY <1>1, <1>2, <1>4, <1>5, <2>1 DEF IInv, LeaseSound
<1>7. Undisturbed'
  <2>. SUFFICES ASSUME faults' = 0 PROVE Undisturbed'
    BY DEF Undisturbed
  <2>1. faults = 0 /\ lease' = [lease EXCEPT ![m] = "acked"]
    BY <1>2 DEF IInv, TypeOK
  <2>2. lease[m] = "leased" /\ m \notin processed
    BY <1>1, <2>1 DEF IInv, Undisturbed
  <2>3. \A g \in Handler \ {h} : handler[g] # Idle =>
          handler[g].message # m /\ handler[g].message \in MessageId
    BY <1>1, <2>1 DEF IInv, Undisturbed, TypeOK, Delivery
  <2>4. /\ lease'[m] = "acked"
        /\ \A n \in MessageId \ {m} : lease'[n] = lease[n]
    BY <1>1, <2>1 DEF IInv, TypeOK
  <2>5. \A n \in processed : n \in MessageId
    BY ProcessedType
  <2>6. count' = Cardinality(processed')
    <3>1. Cardinality(processed \union {m}) = Cardinality(processed) + 1
      BY <2>2, ProcessedType, FS_AddElement
    <3>2. count = Cardinality(processed)
      BY <2>1 DEF IInv, Undisturbed
    <3>. QED
      BY <1>2, <3>1, <3>2
  <2>7. \A n \in processed' : lease'[n] = "acked"
    BY <1>2, <2>1, <2>4, <2>5 DEF IInv, Undisturbed
  <2>8. \A g \in Handler : handler'[g] # Idle => lease'[handler'[g].message] = "leased"
    BY <1>4, <2>1, <2>3, <2>4 DEF IInv, Undisturbed
  <2>. QED
    BY <1>2, <1>4, <2>1, <2>6, <2>7, <2>8 DEF IInv, Undisturbed
<1>. QED
  BY <1>2, <1>3, <1>6, <1>7, PublisherFrame DEF IInv

\* A handler fails only when something else has.
LEMMA FailInv ==
  ASSUME IInv, NEW h \in Handler, Fail(h)
  PROVE  IInv'
<1>. DEFINE m == handler[h].message
            l == IF lease[m] = "acked" THEN "acked" ELSE "available"
<1>1. handler[h] # Idle /\ handler[h] \in Delivery /\ m \in MessageId /\ m <= published
  BY DEF Fail, IInv, TypeOK, LeaseSound, Delivery
<1>2. /\ lease' = [lease EXCEPT ![m] = l]
      /\ handler' = [handler EXCEPT ![h] = Idle]
      /\ UNCHANGED <<published, job, rounds, consumer, count, processed>>
      /\ faults' \in {faults, faults + 1}
  BY DEF Fail, Nack, Fault, publisherVars
<1>3. TypeOK'
  BY <1>1, <1>2 DEF IInv, TypeOK
<1>4. handler'[h] = Idle /\ \A g \in Handler \ {h} : handler'[g] = handler[g]
  BY <1>2 DEF IInv, TypeOK
<1>5. lease'[m] = l /\ \A n \in MessageId \ {m} : lease'[n] = lease[n]
  BY <1>1, <1>2 DEF IInv, TypeOK
<1>6. LeaseSound'
  <2>1. lease[m] # "none"
    BY <1>1 DEF IInv, TypeOK, LeaseSound, MessageId
  <2>2. \A n \in MessageId : lease'[n] = "none" <=> n > published
    BY <1>5, <2>1 DEF IInv, LeaseSound
  <2>3. \A n \in MessageId : lease'[n] = "acked" => n \in processed
    BY <1>5 DEF IInv, LeaseSound
  <2>. QED
    BY <1>2, <1>4, <2>2, <2>3 DEF IInv, LeaseSound
<1>7. faults' # 0
  <2>1. CASE handler[h].phase = "delay"
    BY <2>1, <1>1, <1>2 DEF Fail, IInv, TypeOK, Undisturbed
  <2>2. CASE handler[h].phase # "delay"
    BY <2>2 DEF Fail, Fault, IInv, TypeOK
  <2>. QED
    BY <2>1, <2>2
<1>. QED
  BY <1>2, <1>3, <1>6, <1>7, PublisherFrame DEF IInv, Undisturbed

\* While nothing fails a lease runs out only after the handler has acked, and
\* then there is nothing to expire.
LEMMA ExpireInv ==
  ASSUME IInv, NEW m \in MessageId, Expire(m)
  PROVE  IInv'
<1>1. /\ lease[m] = "leased"
      /\ lease' = [lease EXCEPT ![m] = "available"]
      /\ UNCHANGED <<published, job, rounds, handler, consumer, cError, count, processed>>
      /\ \/ faults' = faults /\ \A h \in Handler : handler[h] # Idle => handler[h].message # m
         \/ faults' = faults + 1
  BY DEF Expire, Fault, publisherVars, consumerVars
<1>2. TypeOK'
  BY <1>1 DEF IInv, TypeOK
<1>3. lease'[m] = "available" /\ \A n \in MessageId \ {m} : lease'[n] = lease[n]
  BY <1>1 DEF IInv, TypeOK
<1>4. LeaseSound'
  BY <1>1, <1>3 DEF IInv, TypeOK, LeaseSound
<1>5. Undisturbed'
  <2>. SUFFICES ASSUME faults' = 0 PROVE Undisturbed'
    BY DEF Undisturbed
  <2>1. faults = 0 /\ \A h \in Handler : handler[h] # Idle => handler[h].message # m
    BY <1>1 DEF IInv, TypeOK
  <2>2. \A n \in processed : n \in MessageId /\ n # m
    BY <1>1, <2>1, ProcessedType DEF IInv, Undisturbed
  <2>3. \A h \in Handler : handler[h] # Idle => handler[h].message \in MessageId
    BY DEF IInv, TypeOK, Delivery
  <2>. QED
    BY <1>1, <1>3, <2>1, <2>2, <2>3 DEF IInv, Undisturbed
<1>. QED
  BY <1>1, <1>2, <1>4, <1>5, PublisherFrame DEF IInv

\* A consumer is told to stop only after an error or as a fault.
LEMMA ConsumerSigtermInv ==
  ASSUME IInv, ConsumerSigterm,
         (cError /\ faults' = faults) \/ faults' = faults + 1
  PROVE  IInv'
<1>1. /\ UNCHANGED <<published, lease, job, rounds, handler, cError, count, processed>>
      /\ consumer' = "closing"
  BY DEF ConsumerSigterm, publisherVars
<1>2. TypeOK'
  BY <1>1 DEF IInv, TypeOK
<1>3. LeaseSound'
  BY <1>1 DEF IInv, LeaseSound
<1>4. faults' # 0
  BY DEF IInv, TypeOK, Undisturbed
<1>. QED
  BY <1>1, <1>2, <1>3, <1>4, PublisherFrame DEF IInv, Undisturbed

\* The counter starts again from nothing, but only after a fault.
LEMMA ConsumerGoneInv ==
  ASSUME IInv, ConsumerGone,
         (consumer = "closing" /\ faults' = faults) \/ faults' = faults + 1
  PROVE  IInv'
<1>1. /\ UNCHANGED <<published, lease, job, rounds, processed>>
      /\ handler' = [h \in Handler |-> Idle]
      /\ consumer' = "starting" /\ count' = 0
  BY DEF ConsumerGone, publisherVars
<1>2. TypeOK'
  BY <1>1 DEF IInv, TypeOK
<1>3. LeaseSound'
  BY <1>1 DEF IInv, LeaseSound
<1>4. faults' # 0
  BY DEF IInv, TypeOK, Undisturbed
<1>. QED
  BY <1>1, <1>2, <1>3, <1>4, PublisherFrame DEF IInv, Undisturbed

\* Starting up and errors of the subscription only set a flag.
LEMMA FlagInv ==
  ASSUME IInv, Ready \/ SubscriptionError
  PROVE  IInv'
<1>1. /\ UNCHANGED <<published, lease, job, rounds, handler, count, processed>>
      /\ \/ consumer' = "ready" /\ cError' = cError /\ faults' = faults
         \/ consumer' = consumer /\ faults' = faults + 1
  BY DEF Ready, SubscriptionError, Fault, publisherVars
<1>2. TypeOK'
  BY <1>1 DEF IInv, TypeOK
<1>3. LeaseSound'
  BY <1>1 DEF IInv, LeaseSound
<1>4. Undisturbed'
  <2>1. CASE faults' = faults + 1
    BY <2>1 DEF IInv, TypeOK, Undisturbed
  <2>2. CASE consumer' = "ready" /\ cError' = cError /\ faults' = faults
    BY <1>1, <2>2 DEF IInv, Undisturbed
  <2>. QED
    BY <1>1, <2>1, <2>2
<1>. QED
  BY <1>1, <1>2, <1>3, <1>4, PublisherFrame DEF IInv

-----------------------------------------------------------------------------
(* Theorems. *)

LEMMA NextInv == IInv /\ [Next]_vars => IInv'
<1>. SUFFICES ASSUME IInv, [Next]_vars PROVE IInv'
  OBVIOUS
<1>1. CASE PublisherStep
  BY <1>1, BeginInv, PublishInv, PublisherGoneInv
  DEF PublisherStep, FirstTick, PublisherExit, Api
<1>2. CASE \E j \in Job : Tick(j) \/ \E api \in Api : Request(j, api)
  BY <1>2, BeginInv DEF Tick, Request, Api
<1>3. CASE ConsumerStep
  BY <1>3, DeliverInv, CallInv, SucceedInv, FailInv, ExpireInv, ConsumerGoneInv, FlagInv
  DEF ConsumerStep, ConsumerExit
<1>4. CASE LivenessKill
  BY <1>4, PublisherSigtermInv, ConsumerSigtermInv DEF LivenessKill
<1>5. CASE Disruption
  BY <1>5, PublisherSigtermInv, ConsumerSigtermInv, PublisherGoneInv, ConsumerGoneInv
  DEF Disruption, Fault
<1>6. CASE UNCHANGED vars
  <2>1. UNCHANGED <<published, lease, job, rounds, handler, consumer, cError, count, processed,
                    faults>>
    BY <1>6 DEF vars, publisherVars, consumerVars
  <2>. QED
    BY <2>1, PublisherFrame DEF IInv, TypeOK, LeaseSound, Undisturbed
<1>. QED
  BY <1>1, <1>2, <1>3, <1>4, <1>5, <1>6, FlagInv DEF Next

LEMMA Inductive == Spec => []IInv
BY InitInv, NextInv, PTL DEF Spec

-----------------------------------------------------------------------------
(* Deliveries are counted: each message has one to come, each fault adds one. *)

Handling == {h \in Handler : handler[h] # Idle}

Held(m) == \E h \in Handling : handler[h].message = m

\* Messages the service will hand out again: available, or leased to nobody.
Waiting == {m \in 1 .. published :
              lease[m] = "available" \/ (lease[m] = "leased" /\ ~Held(m))}

DeliveriesCounted ==
  /\ IsFiniteSet(Handling)
  /\ count + Cardinality(Handling) + Cardinality(Waiting) <= published + faults

LEMMA OneMoreAtMost ==
  ASSUME NEW S, IsFiniteSet(S), NEW T, NEW x, T \subseteq S \union {x}
  PROVE  IsFiniteSet(T) /\ Cardinality(T) <= Cardinality(S) + 1
<1>0. Cardinality(S) \in Nat
  BY FS_CardinalityType
<1>1. IsFiniteSet(S \union {x}) /\ Cardinality(S \union {x}) <= Cardinality(S) + 1
  <2>1. CASE x \in S
    <3>1. S \union {x} = S
      BY <2>1
    <3>. QED
      BY <1>0, <3>1
  <2>2. CASE x \notin S
    <3>1. IsFiniteSet(S \union {x}) /\ Cardinality(S \union {x}) = Cardinality(S) + 1
      BY <2>2, FS_AddElement
    <3>. QED
      BY <1>0, <3>1
  <2>. QED
    BY <2>1, <2>2
<1>2. IsFiniteSet(T) /\ Cardinality(T) <= Cardinality(S \union {x})
  BY <1>1, FS_Subset
<1>3. Cardinality(S \union {x}) \in Nat /\ Cardinality(T) \in Nat
  BY <1>1, <1>2, FS_CardinalityType
<1>. QED
  BY <1>0, <1>1, <1>2, <1>3

LEMMA WaitingType ==
  ASSUME IInv
  PROVE  IsFiniteSet(Waiting) /\ Waiting \subseteq MessageId
<1>1. published \in Nat /\ published <= MaxRounds
  BY FS_CardinalityType, BoundAssumption DEF IInv, TypeOK, RoundsSuffice
<1>2. IsFiniteSet(1 .. published)
  BY <1>1, FS_Interval
<1>. QED
  BY <1>1, <1>2, FS_Subset, BoundAssumption DEF Waiting, MessageId

\* The arithmetic of a step: what it adds to the left, it adds to the right.
LEMMA SumGrows ==
  ASSUME NEW a \in Nat, NEW b \in Nat, NEW c \in Nat, NEW d \in Nat, a + b + c <= d,
         NEW i \in Int, NEW k \in Int, NEW l \in Int, NEW n \in Nat, i + k + l <= n,
         NEW bb \in Nat, NEW cc \in Nat, bb <= b + k, cc <= c + l
  PROVE  (a + i) + bb + cc <= d + n
OBVIOUS

LEMMA Accounting ==
  ASSUME IInv, DeliveriesCounted,
         NEW i \in Int, NEW k \in Int, NEW l \in Int, NEW n \in Nat, i + k + l <= n,
         IsFiniteSet(Handling'), Cardinality(Handling') <= Cardinality(Handling) + k,
         IsFiniteSet(Waiting'), Cardinality(Waiting') <= Cardinality(Waiting) + l,
         count' = count + i, published' + faults' = published + faults + n
  PROVE  DeliveriesCounted'
<1>1. /\ Cardinality(Handling) \in Nat /\ Cardinality(Waiting) \in Nat
      /\ Cardinality(Handling') \in Nat /\ Cardinality(Waiting') \in Nat
  <2>1. IsFiniteSet(Handling) /\ IsFiniteSet(Waiting)
    BY WaitingType DEF DeliveriesCounted
  <2>. QED
    BY <2>1, FS_CardinalityType
<1>2. count \in Nat /\ published + faults \in Nat
  BY DEF IInv, TypeOK
<1>3. count + Cardinality(Handling) + Cardinality(Waiting) <= published + faults
  BY DEF DeliveriesCounted
<1>4. (count + i) + Cardinality(Handling') + Cardinality(Waiting') <= (published + faults) + n
  BY <1>1, <1>2, <1>3, SumGrows
<1>. QED
  BY <1>4 DEF DeliveriesCounted

\* A set mapped onto another is at least as large.
LEMMA ImageBound ==
  ASSUME NEW S, IsFiniteSet(S), NEW f
  PROVE  LET T == {f[x] : x \in S}
         IN  IsFiniteSet(T) /\ Cardinality(T) <= Cardinality(S)
<1>. DEFINE T == {f[x] : x \in S}
            g == [x \in S |-> f[x]]
<1>1. g \in Surjection(S, T)
  BY DEF Surjection
<1>. HIDE DEF T, g
<1>2. IsFiniteSet(T) /\ Cardinality(T) <= Cardinality(S)
  BY <1>1, FS_Surjection
<1>. QED
  BY <1>2 DEF T

\* A step that may add one message to those that wait, and changes nothing else
\* that is counted.
LEMMA WaitCounted ==
  ASSUME IInv, DeliveriesCounted, NEW x, NEW n \in Nat,
         Waiting' \subseteq Waiting \union {x}, Waiting' \subseteq Waiting \/ n >= 1,
         UNCHANGED <<handler, count>>, published' + faults' = published + faults + n
  PROVE  DeliveriesCounted'
<1>1. IsFiniteSet(Waiting) /\ IsFiniteSet(Handling)
  BY WaitingType DEF DeliveriesCounted
<1>2. Handling' = Handling
  BY DEF Handling
<1>3. IsFiniteSet(Waiting') /\ Cardinality(Waiting') <= Cardinality(Waiting) + 1
  BY <1>1, OneMoreAtMost
<1>4. Cardinality(Waiting) \in Nat /\ Cardinality(Handling) \in Nat /\ count \in Nat
  BY <1>1, FS_CardinalityType DEF IInv, TypeOK
<1>5. CASE Waiting' \subseteq Waiting
  <2>1. Cardinality(Waiting') <= Cardinality(Waiting) + 0
    BY <1>1, <1>4, <1>5, FS_Subset
  <2>2. Cardinality(Handling') <= Cardinality(Handling) + 0 /\ count' = count + 0
    BY <1>2, <1>4
  <2>. QED
    BY <1>1, <1>2, <1>3, <2>1, <2>2, Accounting
<1>6. CASE n >= 1
  <2>1. Cardinality(Handling') <= Cardinality(Handling) + 0 /\ count' = count + 0
    BY <1>2, <1>4
  <2>. QED
    BY <1>1, <1>2, <1>3, <1>6, <2>1, Accounting
<1>. QED
  BY <1>5, <1>6

\* A step that counts nothing and moves no lease.
LEMMA SameCounted ==
  ASSUME IInv, DeliveriesCounted, UNCHANGED <<published, lease, handler, count>>,
         faults' \in {faults, faults + 1}
  PROVE  DeliveriesCounted'
<1>1. Waiting' = Waiting
  BY DEF Waiting, Held, Handling
<1>2. PICK n \in {0, 1} : faults' = faults + n
  BY DEF IInv, TypeOK
<1>3. published' + faults' = published + faults + n
  BY <1>2 DEF IInv, TypeOK
<1>. QED
  BY <1>1, <1>2, <1>3, WaitCounted

\* A message stored is one more to deliver.
LEMMA StoreCounted ==
  ASSUME IInv, DeliveriesCounted, Store, UNCHANGED <<handler, count>>,
         faults' \in {faults, faults + 1}
  PROVE  DeliveriesCounted'
<1>1. published \in Nat /\ faults \in Nat /\ published' = published + 1
  BY DEF IInv, TypeOK, Store
<1>2. Handling' = Handling /\ \A m : Held(m)' = Held(m)
  BY DEF Handling, Held
<1>3. \A m \in 1 .. published : m \in MessageId /\ lease'[m] = lease[m]
  <2>1. published <= MaxRounds
    BY FS_CardinalityType, BoundAssumption DEF IInv, TypeOK, RoundsSuffice
  <2>. QED
    BY <1>1, <2>1, BoundAssumption DEF Store, MessageId, IInv, TypeOK
<1>4. Waiting' \subseteq Waiting \union {published + 1}
  BY <1>1, <1>2, <1>3 DEF Waiting
<1>5. PICK n \in {1, 2} : published' + faults' = published + faults + n
  <2>1. CASE faults' = faults
    BY <1>1, <2>1
  <2>2. CASE faults' = faults + 1
    BY <1>1, <2>2
  <2>. QED
    BY <2>1, <2>2
<1>. QED
  BY <1>4, <1>5, WaitCounted

\* A lease that runs out under its handler costs a fault; one that nobody holds was
\* waiting already.
LEMMA ExpireCounted ==
  ASSUME IInv, DeliveriesCounted, NEW m \in MessageId, Expire(m)
  PROVE  DeliveriesCounted'
<1>1. /\ UNCHANGED <<published, handler, count>> /\ lease[m] = "leased"
      /\ lease' = [lease EXCEPT ![m] = "available"]
      /\ published \in Nat /\ faults \in Nat
  BY DEF Expire, consumerVars, IInv, TypeOK
<1>2. Handling' = Handling /\ \A x : Held(x)' = Held(x)
  BY <1>1 DEF Handling, Held
<1>3. m \in 1 .. published
  BY <1>1 DEF IInv, TypeOK, LeaseSound, MessageId
<1>4. \A x \in 1 .. published : x # m => lease'[x] = lease[x]
  BY <1>1 DEF IInv, TypeOK
<1>5. Waiting' \subseteq Waiting \union {m}
  BY <1>1, <1>2, <1>4 DEF Waiting
<1>6. CASE Held(m)
  <2>1. faults' = faults + 1
    BY <1>6 DEF Expire, Fault, Held, Handling
  <2>. QED
    BY <1>1, <1>5, <2>1, WaitCounted
<1>7. CASE ~Held(m)
  <2>1. faults' = faults
    BY <1>7 DEF Expire, Held, Handling
  <2>2. m \in Waiting
    BY <1>1, <1>3, <1>7 DEF Waiting
  <2>3. published' + faults' = published + faults + 0
    BY <1>1, <2>1
  <2>. QED
    BY <1>1, <1>5, <2>2, <2>3, WaitCounted
<1>. QED
  BY <1>6, <1>7

\* A delivery moves its message from those that wait to those under way.
LEMMA DeliverCounted ==
  ASSUME IInv, DeliveriesCounted, NEW h \in Handler, NEW m \in MessageId, Deliver(h, m)
  PROVE  DeliveriesCounted'
<1>. DEFINE d == [message |-> m, phase |-> "delay"]
<1>1. /\ UNCHANGED <<published, count, faults>> /\ lease[m] = "available"
      /\ lease' = [lease EXCEPT ![m] = "leased"]
      /\ handler[h] = Idle /\ handler' = [handler EXCEPT ![h] = d]
      /\ published \in Nat /\ faults \in Nat /\ count \in Nat
  BY DEF Deliver, IInv, TypeOK
<1>2. d \in Delivery /\ d # Idle /\ d.message = m
  BY IdleAssumption DEF Delivery
<1>. HIDE DEF d
<1>3. m \in 1 .. published
  BY <1>1 DEF IInv, TypeOK, LeaseSound, MessageId
<1>4. m \in Waiting
  BY <1>1, <1>3 DEF Waiting
<1>5. handler'[h] = d /\ \A g \in Handler : g # h => handler'[g] = handler[g]
  BY <1>1 DEF IInv, TypeOK
<1>6. Handling' = Handling \union {h}
  BY <1>2, <1>5 DEF Handling
<1>7. Held(m)' /\ \A x : Held(x) => Held(x)'
  BY <1>1, <1>2, <1>5, <1>6 DEF Handling, Held
<1>8. lease'[m] = "leased" /\ \A x \in 1 .. published : x # m => lease'[x] = lease[x]
  BY <1>1 DEF IInv, TypeOK
<1>9. Waiting' \subseteq Waiting \ {m}
  BY <1>1, <1>7, <1>8 DEF Waiting
<1>10. IsFiniteSet(Waiting) /\ IsFiniteSet(Handling)
  BY WaitingType DEF DeliveriesCounted
<1>11. Cardinality(Waiting) \in Nat /\ Cardinality(Handling) \in Nat
  BY <1>10, FS_CardinalityType
<1>12. IsFiniteSet(Handling') /\ Cardinality(Handling') <= Cardinality(Handling) + 1
  BY <1>6, <1>10, OneMoreAtMost
<1>13. IsFiniteSet(Waiting') /\ Cardinality(Waiting') <= Cardinality(Waiting) + (-1)
  <2>1. IsFiniteSet(Waiting \ {m}) /\ Cardinality(Waiting \ {m}) = Cardinality(Waiting) - 1
    BY <1>4, <1>10, FS_RemoveElement
  <2>2. IsFiniteSet(Waiting') /\ Cardinality(Waiting') <= Cardinality(Waiting \ {m})
    BY <1>9, <2>1, FS_Subset
  <2>. QED
    BY <1>11, <2>1, <2>2
<1>14. count' = count + 0 /\ published' + faults' = published + faults + 0
  BY <1>1
<1>15. 0 + 1 + (-1) <= 0
  OBVIOUS
<1>. QED
  BY <1>12, <1>13, <1>14, <1>15, Accounting

\* The end of a handler: its message waits again, unless it is acked.
LEMMA DoneCounted ==
  ASSUME IInv, DeliveriesCounted, NEW h \in Handler, handler[h] # Idle,
         handler' = [handler EXCEPT ![h] = Idle], published' = published,
         lease' \in [MessageId -> {"none", "available", "leased", "acked"}],
         \A x \in MessageId : x # handler[h].message => lease'[x] = lease[x],
         NEW i \in {0, 1}, NEW n \in {0, 1}, count' = count + i, faults' = faults + n,
         i = 1 => n = 1 \/ lease'[handler[h].message] = "acked"
  PROVE  DeliveriesCounted'
<1>. DEFINE m == handler[h].message
<1>1. m \in MessageId /\ published \in Nat /\ faults \in Nat /\ count \in Nat
  BY HandlerType DEF IInv, TypeOK
<1>2. handler'[h] = Idle /\ \A g \in Handler : g # h => handler'[g] = handler[g]
  BY DEF IInv, TypeOK
<1>3. Handling' = Handling \ {h} /\ h \in Handling
  BY <1>2 DEF Handling
<1>4. \A x : Held(x) /\ x # m => Held(x)'
  BY <1>2, <1>3 DEF Handling, Held
<1>5. 1 .. published \subseteq MessageId
  <2>1. published <= MaxRounds
    BY FS_CardinalityType, BoundAssumption DEF IInv, TypeOK, RoundsSuffice
  <2>. QED
    BY <1>1, <2>1, BoundAssumption DEF MessageId
<1>6. Waiting' \subseteq Waiting \union {m}
  BY <1>4, <1>5 DEF Waiting
<1>7. lease'[m] = "acked" => Waiting' \subseteq Waiting
  BY <1>6 DEF Waiting
<1>. HIDE DEF m
<1>8. IsFiniteSet(Waiting) /\ IsFiniteSet(Handling)
  BY WaitingType DEF DeliveriesCounted
<1>9. Cardinality(Waiting) \in Nat /\ Cardinality(Handling) \in Nat
  BY <1>8, FS_CardinalityType
<1>10. IsFiniteSet(Handling') /\ Cardinality(Handling') <= Cardinality(Handling) + (-1)
  <2>1. /\ IsFiniteSet(Handling \ {h})
        /\ Cardinality(Handling \ {h}) = Cardinality(Handling) - 1
    BY <1>3, <1>8, FS_RemoveElement
  <2>. QED
    BY <1>3, <1>9, <2>1
<1>11. IsFiniteSet(Waiting') /\ Cardinality(Waiting') <= Cardinality(Waiting) + 1
  BY <1>6, <1>8, OneMoreAtMost
<1>12. published' + faults' = published + faults + n
  BY <1>1
<1>13. CASE i = 0 \/ n = 1
  <2>1. i + (-1) + 1 <= n
    BY <1>13
  <2>. QED
    BY <1>10, <1>11, <1>12, <2>1, Accounting
<1>14. CASE lease'[m] = "acked"
  <2>1. Cardinality(Waiting') <= Cardinality(Waiting) + 0
    BY <1>7, <1>8, <1>9, <1>14, FS_Subset
  <2>2. i + (-1) + 0 <= n
    OBVIOUS
  <2>. QED
    BY <1>10, <1>11, <1>12, <2>1, <2>2, Accounting
<1>. QED
  BY <1>13, <1>14 DEF m

LEMMA SucceedCounted ==
  ASSUME IInv, DeliveriesCounted, NEW h \in Handler, Succeed(h)
  PROVE  DeliveriesCounted'
<1>1. /\ handler[h] # Idle /\ handler' = [handler EXCEPT ![h] = Idle]
      /\ published' = published /\ count' = count + 1
      /\ handler[h].message \in MessageId
      /\ lease \in [MessageId -> {"none", "available", "leased", "acked"}]
      /\ faults \in Nat
  BY HandlerType DEF Succeed, IInv, TypeOK
<1>2. CASE lease' = [lease EXCEPT ![handler[h].message] = "acked"] /\ faults' = faults
  <2>1. /\ lease' \in [MessageId -> {"none", "available", "leased", "acked"}]
        /\ \A x \in MessageId : x # handler[h].message => lease'[x] = lease[x]
        /\ lease'[handler[h].message] = "acked"
        /\ faults' = faults + 0
    BY <1>1, <1>2
  <2>. QED
    BY <1>1, <2>1, DoneCounted
<1>3. CASE lease' = lease /\ faults' = faults + 1
  BY <1>1, <1>3, DoneCounted
<1>. QED
  BY <1>2, <1>3 DEF Succeed, Ack, Fault

LEMMA FailCounted ==
  ASSUME IInv, DeliveriesCounted, NEW h \in Handler, Fail(h)
  PROVE  DeliveriesCounted'
<1>. DEFINE m == handler[h].message
<1>1. /\ handler[h] # Idle /\ handler' = [handler EXCEPT ![h] = Idle]
      /\ published' = published /\ count' = count + 0
      /\ m \in MessageId
      /\ lease \in [MessageId -> {"none", "available", "leased", "acked"}]
      /\ lease' = [lease EXCEPT ![m] = IF @ = "acked" THEN @ ELSE "available"]
      /\ faults \in Nat
  BY HandlerType DEF Fail, Nack, IInv, TypeOK
<1>2. /\ lease' \in [MessageId -> {"none", "available", "leased", "acked"}]
      /\ \A x \in MessageId : x # m => lease'[x] = lease[x]
  BY <1>1
<1>3. faults' = faults + 0 \/ faults' = faults + 1
  BY <1>1 DEF Fail, Fault
<1>. QED
  BY <1>1, <1>2, <1>3, DoneCounted

\* A consumer that starts again has everything under way still to come, and has
\* counted nothing yet.
LEMMA ConsumerGoneCounted ==
  ASSUME IInv, DeliveriesCounted, ConsumerGone, faults' \in {faults, faults + 1}
  PROVE  DeliveriesCounted'
<1>. DEFINE f == [h \in Handling |-> handler[h].message]
            M == {f[h] : h \in Handling}
            c == Cardinality(Handling)
<1>1. /\ UNCHANGED <<published, lease>> /\ count' = 0
      /\ handler' = [h \in Handler |-> Idle]
      /\ published \in Nat /\ faults \in Nat /\ count \in Nat
  BY DEF ConsumerGone, IInv, TypeOK
<1>2. Handling' = {}
  BY <1>1 DEF Handling
<1>3. \A x : Held(x) => x \in M
  BY DEF Held
<1>4. Waiting' \subseteq Waiting \union M
  BY <1>1, <1>3 DEF Waiting
<1>5. IsFiniteSet(Waiting) /\ IsFiniteSet(Handling)
  BY WaitingType DEF DeliveriesCounted
<1>6. IsFiniteSet(M) /\ Cardinality(M) <= c
  BY <1>5, ImageBound
<1>. HIDE DEF M
<1>7. Cardinality(Waiting) \in Nat /\ c \in Nat /\ Cardinality(M) \in Nat
  BY <1>5, <1>6, FS_CardinalityType
<1>8. IsFiniteSet(Waiting') /\ Cardinality(Waiting') <= Cardinality(Waiting) + c
  <2>1. /\ IsFiniteSet(Waiting \union M)
        /\ Cardinality(Waiting \union M)
             = Cardinality(Waiting) + Cardinality(M) - Cardinality(Waiting \cap M)
    BY <1>5, <1>6, FS_Union
  <2>2. IsFiniteSet(Waiting \cap M) /\ Cardinality(Waiting \cap M) \in Nat
    BY <1>5, FS_Intersection, FS_CardinalityType
  <2>3. IsFiniteSet(Waiting') /\ Cardinality(Waiting') <= Cardinality(Waiting \union M)
    BY <1>4, <2>1, FS_Subset
  <2>4. Cardinality(Waiting') \in Nat /\ Cardinality(Waiting \union M) \in Nat
    BY <2>1, <2>3, FS_CardinalityType
  <2>. QED
    BY <1>6, <1>7, <2>1, <2>2, <2>3, <2>4
<1>9. IsFiniteSet(Handling') /\ Cardinality(Handling') <= c + (-c)
  BY <1>2, <1>7, FS_EmptySet
<1>10. PICK n \in {0, 1} : faults' = faults + n
  BY <1>1
<1>11. count' = count + (-count) /\ published' + faults' = published + faults + n
  BY <1>1, <1>10
<1>12. (-count) + (-c) + c <= n /\ -count \in Int /\ -c \in Int /\ c \in Int
  BY <1>1, <1>7
<1>. QED
  BY <1>8, <1>9, <1>11, <1>12, Accounting

LEMMA InitCounted == Init => DeliveriesCounted
<1>. SUFFICES ASSUME Init PROVE DeliveriesCounted
  OBVIOUS
<1>1. Handling = {} /\ Waiting = {}
  BY DEF Init, Handling, Waiting
<1>. QED
  BY <1>1, FS_EmptySet DEF Init, DeliveriesCounted

LEMMA NextCounted == IInv /\ DeliveriesCounted /\ [Next]_vars => DeliveriesCounted'
<1>. SUFFICES ASSUME IInv, DeliveriesCounted, [Next]_vars PROVE DeliveriesCounted'
  OBVIOUS
<1>1. CASE UNCHANGED <<published, lease, handler, count>> /\ faults' \in {faults, faults + 1}
  BY <1>1, SameCounted
<1>2. ASSUME NEW j \in Job, PublishSucceeds(j) \/ PublishFails(j)
      PROVE  DeliveriesCounted'
  <2>1. UNCHANGED <<handler, count>> /\ faults' \in {faults, faults + 1}
    BY <1>2 DEF PublishSucceeds, PublishFails, Fault, consumerVars
  <2>. QED
    BY <1>1, <1>2, <2>1, PublishInv, StoreCounted
<1>3. CASE PublisherStep
  BY <1>1, <1>2, <1>3
  DEF PublisherStep, FirstTick, Begin, PublisherExit, PublisherGone, consumerVars
<1>4. CASE \E j \in Job : Tick(j) \/ \E api \in Api : Request(j, api)
  BY <1>1, <1>4 DEF Tick, Request, Begin, consumerVars
<1>5. CASE ConsumerStep
  <2>1. CASE Ready
    BY <1>1, <2>1 DEF Ready
  <2>2. CASE ConsumerExit
    BY <2>2, ConsumerGoneCounted DEF ConsumerExit
  <2>3. ASSUME NEW h \in Handler, Call(h)
        PROVE  DeliveriesCounted'
    <3>1. /\ UNCHANGED <<published, lease, count, faults>>
          /\ handler[h] # Idle /\ handler' = [handler EXCEPT ![h].phase = "call"]
      BY <2>3 DEF Call
    <3>2. /\ handler'[h] # Idle /\ handler'[h].message = handler[h].message
          /\ \A g \in Handler : g # h => handler'[g] = handler[g]
      BY <3>1, HandlerType, IdleAssumption DEF Delivery, IInv, TypeOK
    <3>3. Handling' = Handling
      BY <3>1, <3>2 DEF Handling
    <3>4. \A x : Held(x)' = Held(x)
      BY <3>2, <3>3 DEF Held, Handling
    <3>5. Waiting' = Waiting
      BY <3>1, <3>4 DEF Waiting
    <3>. QED
      BY <3>1, <3>3, <3>5 DEF DeliveriesCounted
  <2>. QED
    BY <1>5, <2>1, <2>2, <2>3, SucceedCounted, FailCounted, ExpireCounted, DeliverCounted
    DEF ConsumerStep
<1>6. CASE SubscriptionError \/ LivenessKill
  BY <1>1, <1>6
  DEF SubscriptionError, LivenessKill, PublisherSigterm, ConsumerSigterm, Fault, consumerVars
<1>7. CASE Disruption
  BY <1>1, <1>7, ConsumerGoneCounted
  DEF Disruption, PublisherSigterm, ConsumerSigterm, PublisherGone, Fault, consumerVars
<1>8. CASE UNCHANGED vars
  BY <1>1, <1>8 DEF vars, consumerVars
<1>. QED
  BY <1>3, <1>4, <1>5, <1>6, <1>7, <1>8 DEF Next

LEMMA AlwaysCounted == Spec => [](IInv /\ DeliveriesCounted)
<1>1. Spec => []IInv
  BY Inductive
<1>2. Spec /\ []IInv => []DeliveriesCounted
  BY InitCounted, NextCounted, PTL DEF Spec
<1>. QED
  BY <1>1, <1>2, PTL

\* What is not processed still waits or is under way, so what is counted beyond the
\* messages processed is paid for by faults.
LEMMA CountedEnough == IInv /\ DeliveriesCounted => count <= Cardinality(processed) + faults
<1>. SUFFICES ASSUME IInv, DeliveriesCounted PROVE count <= Cardinality(processed) + faults
  OBVIOUS
<1>. DEFINE Undone == (1 .. published) \ processed
            f == [h \in Handling |-> handler[h].message]
            M == {f[h] : h \in Handling}
            a == Cardinality(Handling)
            b == Cardinality(Waiting)
            p == Cardinality(processed)
            u == Cardinality(Undone)
<1>1. count \in Nat /\ published \in Nat /\ faults \in Nat /\ published <= MaxRounds
  BY FS_CardinalityType, BoundAssumption DEF IInv, TypeOK, RoundsSuffice
<1>2. /\ IsFiniteSet(Waiting) /\ IsFiniteSet(Handling) /\ IsFiniteSet(processed)
      /\ count + a + b <= published + faults
  BY WaitingType, ProcessedType DEF DeliveriesCounted
<1>3. a \in Nat /\ b \in Nat /\ p \in Nat
  BY <1>2, FS_CardinalityType
<1>4. Undone \subseteq Waiting \union M
  <2>. SUFFICES ASSUME NEW m \in Undone PROVE m \in Waiting \union M
    OBVIOUS
  <2>1. m \in MessageId /\ m <= published /\ m \in 1 .. published /\ m \notin processed
    BY <1>1, BoundAssumption DEF MessageId
  <2>2. lease[m] \in {"available", "leased"}
    BY <2>1, <1>1 DEF IInv, TypeOK, LeaseSound, MessageId
  <2>. QED
    BY <2>1, <2>2 DEF Waiting, Held
<1>5. IsFiniteSet(M) /\ Cardinality(M) <= a
  BY <1>2, ImageBound
<1>6. IsFiniteSet(1 .. published) /\ Cardinality(1 .. published) = published
  BY <1>1, FS_Interval
<1>7. IsFiniteSet(Undone) /\ u = published - p
  <2>1. (1 .. published) \cap processed = processed
    BY DEF IInv, LeaseSound
  <2>2. /\ IsFiniteSet(Undone)
        /\ u = Cardinality(1 .. published) - Cardinality((1 .. published) \cap processed)
    BY <1>6, FS_Difference
  <2>. QED
    BY <1>6, <2>1, <2>2
<1>. HIDE DEF M, Undone
<1>8. u \in Nat /\ Cardinality(M) \in Nat
  BY <1>5, <1>7, FS_CardinalityType
<1>9. u <= b + a
  <2>1. /\ IsFiniteSet(Waiting \union M)
        /\ Cardinality(Waiting \union M)
             = b + Cardinality(M) - Cardinality(Waiting \cap M)
    BY <1>2, <1>5, FS_Union
  <2>2. Cardinality(Waiting \cap M) \in Nat
    <3>1. IsFiniteSet(Waiting \cap M)
      BY <1>2, FS_Intersection
    <3>. QED
      BY <3>1, FS_CardinalityType
  <2>3. u <= Cardinality(Waiting \union M)
    BY <1>4, <2>1, FS_Subset
  <2>. QED
    BY <1>3, <1>5, <1>8, <2>1, <2>2, <2>3
<1>10. count + a + b <= published + faults
  BY <1>2
<1>. HIDE DEF a, b, p, u
<1>11. u = published - p
  BY <1>7
<1>. QED
  BY <1>1, <1>3, <1>8, <1>9, <1>10, <1>11 DEF p

\* The counter of processed messages exceeds the messages processed by at most one for
\* every failure, lost ack, expired lease or restart, although publishes and handlers
\* overlap and leases run; while nothing fails every message is processed exactly once.
THEOREM ProcessedOnce == Spec => []RepeatsBounded
<1>1. IInv /\ DeliveriesCounted => RepeatsBounded
  BY CountedEnough DEF IInv, Undisturbed, RepeatsBounded
<1>. QED
  BY <1>1, AlwaysCounted, PTL

-----------------------------------------------------------------------------
(* The subscription implements the work queue. *)

Acked == {m \in MessageId : lease[m] = "acked"}

\* Storing a message is a Send.
LEMMA SendStep ==
  ASSUME IInv, Store, published + 1 \in MessageId, UNCHANGED processed
  PROVE  Queue!Next
<1>1. published \in Nat /\ lease[published + 1] = "none"
  BY DEF IInv, TypeOK, LeaseSound
<1>2. Acked' = Acked
  BY <1>1 DEF Store, IInv, TypeOK, Acked
<1>3. (1 .. published)' = (1 .. published) \union {published + 1}
  BY <1>1 DEF Store
<1>4. published + 1 \notin 1 .. published
  BY <1>1
<1>5. Queue!Send(published + 1)
  BY <1>2, <1>3, <1>4 DEF Queue!Send, Acked
<1>. QED
  BY <1>5 DEF Queue!Next

\* The end of a handler is a Handle, with or without its Forget, unless another
\* handler has processed and acked the message before.
LEMMA SucceedStep ==
  ASSUME IInv, NEW h \in Handler, Succeed(h)
  PROVE  [Queue!Next]_(Queue!queue)
<1>. DEFINE m == handler[h].message
<1>1. /\ m \in MessageId /\ m \in 1 .. published
      /\ published' = published
      /\ processed' = processed \union {m}
      /\ \/ lease' = [lease EXCEPT ![m] = "acked"]
         \/ lease' = lease
  BY HandlerType DEF Succeed, Ack, MessageId
<1>2. Acked' = Acked \/ Acked' = Acked \union {m}
  BY <1>1 DEF IInv, TypeOK, Acked
<1>. HIDE DEF m
<1>3. CASE m \in Acked
  <2>1. Acked' = Acked /\ processed' = processed
    BY <1>1, <1>2, <1>3 DEF IInv, LeaseSound, Acked
  <2>. QED
    BY <1>1, <2>1 DEF Queue!queue, Acked
<1>4. CASE m \notin Acked /\ Acked' = Acked
  <2>1. Queue!Handle({m})
    BY <1>1, <1>4 DEF Queue!Handle, Acked
  <2>. QED
    BY <1>1, <2>1 DEF Queue!Next
<1>5. CASE m \notin Acked /\ Acked' = Acked \union {m}
  <2>1. PICK i \in MessageId : i = m
    BY <1>1
  <2>2. Queue!HandleAndForget(i)
    BY <1>1, <1>5, <2>1 DEF Queue!HandleAndForget, Acked
  <2>. QED
    BY <2>2 DEF Queue!Next
<1>. QED
  BY <1>2, <1>3, <1>4, <1>5

\* Everything else only moves leases of what is not acked.
LEMMA LeaseStep ==
  ASSUME IInv, UNCHANGED <<published, processed>>,
         \/ UNCHANGED lease
         \/ \E m \in MessageId, l \in {"available", "leased"} :
              lease[m] # "acked" /\ lease' = [lease EXCEPT ![m] = l]
  PROVE  [Queue!Next]_(Queue!queue)
<1>1. Acked' = Acked
  BY DEF IInv, TypeOK, Acked
<1>. QED
  BY <1>1 DEF Queue!queue, Acked

\* The message of a handler that fails is available again, unless it was acked.
LEMMA FailStep ==
  ASSUME IInv, NEW h \in Handler, Fail(h)
  PROVE  [Queue!Next]_(Queue!queue)
<1>. DEFINE m == handler[h].message
<1>1. m \in MessageId /\ UNCHANGED <<published, processed>>
  BY HandlerType DEF Fail
<1>2. lease' = [lease EXCEPT ![m] = IF lease[m] = "acked" THEN lease[m] ELSE "available"]
  BY DEF Fail, Nack
<1>3. UNCHANGED lease \/ (lease[m] # "acked" /\ lease' = [lease EXCEPT ![m] = "available"])
  BY <1>1, <1>2 DEF IInv, TypeOK
<1>. QED
  BY <1>1, <1>3, LeaseStep

LEMMA QueueNext == IInv /\ [Next]_vars => [Queue!Next]_(Queue!queue)
<1>. SUFFICES ASSUME IInv, [Next]_vars PROVE [Queue!Next]_(Queue!queue)
  OBVIOUS
<1>1. CASE UNCHANGED <<published, lease, processed>>
  BY <1>1, LeaseStep
<1>2. ASSUME NEW j \in Job, PublishSucceeds(j) \/ PublishFails(j)
      PROVE  [Queue!Next]_(Queue!queue)
  BY <1>1, <1>2, PublishInv, SendStep
<1>3. CASE PublisherStep
  BY <1>1, <1>2, <1>3
  DEF PublisherStep, FirstTick, Begin, PublisherExit, PublisherGone, consumerVars
<1>4. CASE \E j \in Job : Tick(j) \/ \E api \in Api : Request(j, api)
  BY <1>1, <1>4 DEF Tick, Request, Begin, consumerVars
<1>5. CASE ConsumerStep
  <2>1. ASSUME NEW h \in Handler, NEW m \in MessageId, Deliver(h, m)
        PROVE  [Queue!Next]_(Queue!queue)
    <3>1. /\ UNCHANGED <<published, processed>>
          /\ lease[m] # "acked" /\ lease' = [lease EXCEPT ![m] = "leased"]
      BY <2>1 DEF Deliver
    <3>. QED
      BY <3>1, LeaseStep
  <2>2. ASSUME NEW m \in MessageId, Expire(m)
        PROVE  [Queue!Next]_(Queue!queue)
    <3>1. /\ UNCHANGED <<published, processed>>
          /\ lease[m] # "acked" /\ lease' = [lease EXCEPT ![m] = "available"]
      BY <2>2 DEF Expire, consumerVars
    <3>. QED
      BY <3>1, LeaseStep
  <2>3. ASSUME NEW h \in Handler, Call(h)
        PROVE  [Queue!Next]_(Queue!queue)
    BY <1>1, <2>3 DEF Call
  <2>4. ASSUME Ready \/ ConsumerExit
        PROVE  [Queue!Next]_(Queue!queue)
    BY <1>1, <2>4 DEF Ready, ConsumerExit, ConsumerGone
  <2>. QED
    BY <1>5, <2>1, <2>2, <2>3, <2>4, SucceedStep, FailStep DEF ConsumerStep
<1>6. CASE SubscriptionError \/ LivenessKill \/ Disruption
  BY <1>1, <1>6
  DEF SubscriptionError, LivenessKill, Disruption, PublisherSigterm, ConsumerSigterm,
      PublisherGone, ConsumerGone, consumerVars
<1>7. CASE UNCHANGED vars
  BY <1>1, <1>7 DEF vars, consumerVars
<1>. QED
  BY <1>3, <1>4, <1>5, <1>6, <1>7 DEF Next

\* The subscription and its consumer are a work queue: it forgets only what a
\* handler has processed, whatever fails, expires or restarts.
THEOREM QueueKept == Spec => KeepsQueue
<1>1. Init => Queue!Init
  BY DEF Init, Queue!Init
<1>. QED
  BY <1>1, QueueNext, Inductive, PTL DEF Spec, KeepsQueue, Queue!Spec
=============================================================================
