-------------------------- MODULE StackWorkersProofs --------------------------
(***************************************************************************)
(* Proofs about the services behind the gateway that work off what others  *)
(* have queued.  EventRelay, for any number of events and faults: each of  *)
(* the three consumer groups keeps the promise of a work queue, an event   *)
(* is relayed again at most once for every failure, and while nothing      *)
(* fails relay-nodejs and processor-java count the same events.            *)
(* RedisStack, for any number of clients, requests and failures: the       *)
(* worker handles notifications in their order and none twice, a restart   *)
(* loses at most one, and while nothing fails every cached value is        *)
(* announced.                                                              *)
(***************************************************************************)
EXTENDS EventRelay, RedisStack, FiniteSetTheorems, SequenceTheorems, TLAPS

-----------------------------------------------------------------------------
(* What makes the properties of the relay inductive. *)

TypeOK ==
  /\ topic \in 0 .. MaxEvents
  /\ first \in [Group -> Nat]
  /\ position \in [Group -> Nat]
  /\ committed \in [Group -> Nat \union {NoOffset}]
  /\ at \in [Group -> {"down", "idle", "handling", "calling", "called", "dead"}]
  /\ relayed \in Nat
  /\ received \in Nat
  /\ relays \in [Event -> Nat]
  /\ analyzed \subseteq Event
  /\ reported \subseteq Event
  /\ missed \subseteq 1 .. topic
  /\ faults \in Nat

\* What the work queue of each group counts as handled.
Handled(g) == CASE g = "relay"     -> {e \in Event : relays[e] > 0} \union missed
                [] g = "listener"  -> reported
                [] g = "analytics" -> analyzed

\* The last event that the consumer of g is done with.
Upto(g) == IF at[g] = "idle" THEN position[g] ELSE position[g] - 1

\* A consumer has handled everything up to its position, also what was handled
\* before it joined, so that whatever it commits has been handled.
Sound(g) ==
  /\ committed[g] <= topic
  /\ Committed(g) \subseteq Handled(g)
  /\ position[g] <= topic
  /\ at[g] \notin {"down", "dead"} =>
       committed[g] <= Upto(g) /\ 1 .. Upto(g) \subseteq Handled(g)
  /\ at[g] \in {"handling", "calling", "called"} => position[g] >= 1
  /\ at[g] = "called" => position[g] \in Handled(g)

\* relay-nodejs has had an answer for e since it joined, or is about to see it.
Answered(e) ==
  /\ at["relay"] # "down"
  /\ \/ e < position["relay"]
     \/ e = position["relay"] /\ at["relay"] \in {"called", "idle"}

\* An event that reached processor-java once more than there were faults is not
\* relayed again unless something fails; and while nothing fails relay-nodejs is at
\* most one event ahead of processor-java.
CallsCounted ==
  /\ \A e \in Event : /\ relays[e] <= faults + 1
                      /\ relays[e] = faults + 1 => Answered(e)
  /\ faults = 0 => relayed = received + (IF at["relay"] = "calling" THEN 1 ELSE 0)

IInv == TypeOK /\ (\A g \in Group : Sound(g)) /\ CallsCounted

\* What the work queue of g sees of a step.
SeesNothing(g) == UNCHANGED <<topic, Handled(g), Committed(g)>>

SeesSend(g) ==
  /\ topic' = topic + 1 /\ topic + 1 \in Event
  /\ UNCHANGED <<Handled(g), Committed(g)>>

SeesHandle(g) ==
  \E items \in SUBSET Event :
    /\ items \subseteq (1 .. topic) \ Committed(g)
    /\ Handled(g)' = Handled(g) \union items
    /\ UNCHANGED <<topic, Committed(g)>>

SeesForget(g) ==
  \E items \in SUBSET Event :
    /\ items \subseteq Handled(g)
    /\ Committed(g)' = Committed(g) \union items
    /\ UNCHANGED <<topic, Handled(g)>>

QueueStep(g) == SeesNothing(g) \/ SeesSend(g) \/ SeesHandle(g) \/ SeesForget(g)

-----------------------------------------------------------------------------
(* Each step concerns one group *)

LEMMA InitInv == Init => IInv
<1>. SUFFICES ASSUME Init PROVE IInv
  OBVIOUS
<1>1. TypeOK
  BY BoundAssumption DEF Init, TypeOK, NoOffset
<1>2. ASSUME NEW g \in Group PROVE Sound(g)
  BY DEF Init, Sound, Committed, NoOffset
<1>3. CallsCounted
  BY DEF Init, CallsCounted, Answered, Group
<1>. QED
  BY <1>1, <1>2, <1>3 DEF IInv

\* A fault allows for one more call of each event.
LEMMA FaultAllows ==
  ASSUME TypeOK, CallsCounted, faults' = faults + 1, UNCHANGED relays
  PROVE  CallsCounted'
<1>1. \A e \in Event : relays'[e] <= faults + 1 /\ relays[e] \in Nat
  BY DEF TypeOK, CallsCounted
<1>2. faults \in Nat
  BY DEF TypeOK
<1>3. \A e \in Event : relays'[e] < faults' + 1
  BY <1>1, <1>2
<1>. QED
  BY <1>1, <1>2, <1>3 DEF CallsCounted

\* The counters apart, the other groups do not notice a step of g.
LEMMA GroupFrame ==
  ASSUME IInv, NEW g \in Group,
         TypeOK', CallsCounted', Sound(g)', QueueStep(g), UNCHANGED topic,
         \A h \in Group \ {g} : /\ position'[h] = position[h]
                                /\ committed'[h] = committed[h]
                                /\ at'[h] = at[h]
                                /\ Handled(h)' = Handled(h)
  PROVE  IInv' /\ \A h \in Group : QueueStep(h)
<1>1. ASSUME NEW h \in Group \ {g}
      PROVE  Sound(h)' /\ QueueStep(h)
  <2>1. Sound(h)
    BY DEF IInv
  <2>2. Committed(h)' = Committed(h) /\ Upto(h)' = Upto(h)
    BY DEF Committed, Upto
  <2>. QED
    BY <2>1, <2>2 DEF Sound, QueueStep, SeesNothing
<1>. QED
  BY <1>1 DEF IInv

LEMMA ProduceInv ==
  ASSUME IInv, Produce
  PROVE  IInv' /\ \A g \in Group : QueueStep(g)
<1>1. /\ topic' = topic + 1 /\ topic + 1 \in 1 .. MaxEvents
      /\ UNCHANGED <<first, position, committed, at, relayed, received, relays, analyzed,
                     reported, missed, faults>>
  BY BoundAssumption DEF Produce, groupVars, countVars, history, IInv, TypeOK
<1>2. TypeOK'
  BY <1>1, BoundAssumption DEF IInv, TypeOK
<1>3. ASSUME NEW g \in Group
      PROVE  Sound(g)' /\ QueueStep(g)
  <2>1. Handled(g)' = Handled(g) /\ Committed(g)' = Committed(g) /\ Upto(g)' = Upto(g)
    BY <1>1 DEF Handled, Committed, Upto
  <2>2. Sound(g) /\ topic \in Int /\ committed[g] \in Int /\ position[g] \in Int
    BY DEF IInv, TypeOK, NoOffset
  <2>. QED
    BY <1>1, <2>1, <2>2 DEF Sound, QueueStep, SeesSend, Event
<1>4. CallsCounted'
  <2>1. Event' = Event
    BY DEF Event
  <2>. QED
    BY <1>1, <2>1 DEF IInv, CallsCounted, Answered
<1>. QED
  BY <1>2, <1>3, <1>4 DEF IInv

\* A consumer that joins goes on where its group has committed.  Without an offset
\* the relay starts at the end, and what is older is missed.
LEMMA JoinInv ==
  ASSUME IInv, NEW g \in Group, Join(g)
  PROVE  IInv' /\ \A h \in Group : QueueStep(h)
<1>. DEFINE start == IF committed[g] # NoOffset THEN committed[g]
                     ELSE IF g = "relay" THEN topic ELSE 0
            late == g = "relay" /\ committed[g] = NoOffset
<1>1. /\ at[g] = "down"
      /\ first' = [first EXCEPT ![g] = start]
      /\ position' = [position EXCEPT ![g] = start]
      /\ missed' = IF late THEN 1 .. topic ELSE missed
      /\ at' = [at EXCEPT ![g] = "idle"]
      /\ UNCHANGED <<topic, committed, relayed, received, relays, analyzed, reported, faults>>
  BY DEF Join, countVars
<1>2. /\ topic \in Nat /\ committed[g] \in Nat \union {NoOffset} /\ committed[g] <= topic
      /\ start \in Nat /\ start <= topic /\ committed[g] <= start
  BY BoundAssumption DEF IInv, TypeOK, Sound, NoOffset
<1>. HIDE DEF start
<1>3. TypeOK'
  BY <1>1, <1>2 DEF IInv, TypeOK
<1>4. /\ position'[g] = start /\ at'[g] = "idle" /\ committed' = committed
      /\ \A h \in Group \ {g} : position'[h] = position[h] /\ at'[h] = at[h]
  BY <1>1 DEF IInv, TypeOK
<1>5. Committed(g)' = Committed(g) /\ Upto(g)' = start
  BY <1>4 DEF Committed, Upto
<1>6. \A h \in Group \ {g} : Handled(h)' = Handled(h)
  BY <1>1 DEF Handled, Group
<1>7. /\ late => Committed(g) = {} /\ Handled(g)' = Handled(g) \union 1 .. topic
      /\ ~late => Handled(g)' = Handled(g)
  <2>1. CASE late
    <3>1. Committed(g) = {}
      BY <2>1 DEF Committed, NoOffset
    <3>2. missed \subseteq 1 .. topic /\ missed' = 1 .. topic
      BY <1>1, <2>1 DEF IInv, TypeOK
    <3>3. Handled(g)' = Handled(g) \union 1 .. topic
      BY <1>1, <2>1, <3>2 DEF Handled
    <3>. QED
      BY <2>1, <3>1, <3>3
  <2>2. CASE ~late
    BY <1>1, <2>2 DEF Handled
  <2>. QED
    BY <2>1, <2>2
<1>8. 1 .. start \subseteq Handled(g)' /\ Committed(g) \subseteq Handled(g)'
  <2>1. Committed(g) \subseteq Handled(g)
    BY DEF IInv, Sound
  <2>. QED
    BY <1>1, <1>2, <1>7, <2>1 DEF Committed, start, Handled, Group
<1>9. Sound(g)'
  <2>1. committed'[g] <= topic' /\ position'[g] <= topic'
    BY <1>1, <1>2, <1>4
  <2>2. at'[g] \notin {"down", "dead", "handling", "calling", "called"}
    BY <1>4
  <2>3. committed'[g] <= Upto(g)'
    BY <1>2, <1>4, <1>5
  <2>. QED
    BY <1>5, <1>8, <2>1, <2>2, <2>3 DEF Sound
<1>10. QueueStep(g)
  <2>1. CASE late
    <3>1. 1 .. topic \in SUBSET Event
      BY BoundAssumption DEF IInv, TypeOK, Event
    <3>2. SeesHandle(g)
      BY <1>1, <1>5, <1>7, <2>1, <3>1 DEF SeesHandle
    <3>. QED
      BY <3>2 DEF QueueStep
  <2>2. CASE ~late
    BY <1>1, <1>5, <1>7, <2>2 DEF QueueStep, SeesNothing
  <2>. QED
    BY <2>1, <2>2
<1>11. CallsCounted'
  BY <1>1, <1>4 DEF IInv, CallsCounted, Answered, Group
<1>. QED
  BY <1>1, <1>3, <1>4, <1>6, <1>9, <1>10, <1>11, GroupFrame

LEMMA FetchInv ==
  ASSUME IInv, NEW g \in Group, Fetch(g)
  PROVE  IInv' /\ \A h \in Group : QueueStep(h)
<1>1. /\ at[g] = "idle" /\ position[g] < topic
      /\ position' = [position EXCEPT ![g] = @ + 1]
      /\ at' = [at EXCEPT ![g] = "handling"]
      /\ UNCHANGED <<topic, first, committed, relayed, received, relays, analyzed, reported, missed,
                     faults>>
  BY DEF Fetch, countVars, history
<1>2. TypeOK'
  BY <1>1 DEF IInv, TypeOK
<1>3. /\ position[g] \in Nat /\ position'[g] = position[g] + 1 /\ at'[g] = "handling"
      /\ \A h \in Group \ {g} : position'[h] = position[h] /\ at'[h] = at[h]
      /\ topic \in Nat
  BY <1>1 DEF IInv, TypeOK
<1>4. \A h \in Group : Handled(h)' = Handled(h) /\ Committed(h)' = Committed(h)
  BY <1>1 DEF Handled, Committed
<1>5. Upto(g)' = Upto(g)
  BY <1>1, <1>3 DEF Upto
<1>6. Sound(g)'
  BY <1>1, <1>3, <1>4, <1>5 DEF IInv, Sound
<1>7. CallsCounted'
  BY <1>1, <1>3 DEF IInv, CallsCounted, Answered, Group, TypeOK, Event
<1>8. QueueStep(g)
  BY <1>1, <1>4 DEF QueueStep, SeesNothing
<1>. QED
  BY <1>1, <1>2, <1>3, <1>4, <1>6, <1>7, <1>8, GroupFrame

\* What is committed has been handled, and offsets do not move back.
LEMMA CommitInv ==
  ASSUME IInv, NEW g \in Group, Commit(g)
  PROVE  IInv' /\ \A h \in Group : QueueStep(h)
<1>1. /\ at[g] \notin {"down", "dead"} /\ committed[g] < Upto(g) /\ first[g] < Upto(g)
      /\ committed' = [committed EXCEPT ![g] = Upto(g)]
      /\ UNCHANGED <<topic, first, position, at, relayed, received, relays, analyzed, reported,
                     missed, faults>>
  BY DEF Commit, Upto, countVars, history
<1>2. /\ Upto(g) \in Nat /\ Upto(g) <= topic /\ topic \in Nat
      /\ committed[g] \in Nat \union {NoOffset}
  BY <1>1 DEF IInv, TypeOK, Sound, Upto
<1>3. TypeOK'
  BY <1>1, <1>2 DEF IInv, TypeOK
<1>4. committed'[g] = Upto(g) /\ \A h \in Group \ {g} : committed'[h] = committed[h]
  BY <1>1 DEF IInv, TypeOK
<1>5. \A h \in Group : Handled(h)' = Handled(h) /\ Upto(h)' = Upto(h)
  BY <1>1 DEF Handled, Upto
<1>6. 1 .. Upto(g) \subseteq Handled(g)
  BY <1>1 DEF IInv, Sound
<1>7. Committed(g)' = 1 .. Upto(g)
  BY <1>4 DEF Committed
<1>8. Sound(g)'
  BY <1>1, <1>2, <1>4, <1>5, <1>6, <1>7 DEF IInv, Sound
<1>9. QueueStep(g)
  <2>1. Committed(g)' = Committed(g) \union 1 .. Upto(g)
    BY <1>1, <1>2, <1>7 DEF Committed, NoOffset
  <2>2. 1 .. Upto(g) \in SUBSET Event
    BY <1>2, BoundAssumption DEF IInv, TypeOK, Event
  <2>3. SeesForget(g)
    BY <1>1, <1>5, <1>6, <2>1, <2>2 DEF SeesForget
  <2>. QED
    BY <2>3 DEF QueueStep
<1>10. CallsCounted'
  BY <1>1 DEF IInv, CallsCounted, Answered
<1>. QED
  BY <1>1, <1>3, <1>4, <1>5, <1>8, <1>9, <1>10, GroupFrame

-----------------------------------------------------------------------------
(* The handlers *)

\* A step of the handler of g that does not end it, or ends it after its event has
\* been handled.
LEMMA WithinInv ==
  ASSUME IInv, NEW g \in Group, TypeOK', CallsCounted',
         NEW where \in {"handling", "calling", "called", "idle"},
         at[g] \in {"handling", "calling", "called"},
         at' = [at EXCEPT ![g] = where],
         where \in {"called", "idle"} => position[g] \in Handled(g),
         UNCHANGED <<topic, position, committed, relays, analyzed, reported, missed>>
  PROVE  IInv' /\ \A h \in Group : QueueStep(h)
<1>1. /\ at'[g] = where /\ \A h \in Group \ {g} : at'[h] = at[h]
      /\ position[g] \in Nat
  BY DEF IInv, TypeOK
<1>2. \A h \in Group : Handled(h)' = Handled(h) /\ Committed(h)' = Committed(h)
  BY DEF Handled, Committed
<1>3. /\ Upto(g) = position[g] - 1 /\ position[g] >= 1
      /\ committed[g] <= Upto(g) /\ 1 .. Upto(g) \subseteq Handled(g)
      /\ committed[g] \in Int
  BY DEF IInv, Sound, Upto, TypeOK, NoOffset
<1>4. Sound(g)'
  <2>1. CASE where = "idle"
    <3>1. Upto(g)' = position[g] /\ at'[g] = "idle"
      BY <1>1, <2>1 DEF Upto
    <3>2. 1 .. position[g] \subseteq Handled(g)
      BY <1>1, <1>3, <2>1
    <3>. QED
      BY <1>1, <1>2, <1>3, <3>1, <3>2 DEF IInv, Sound
  <2>2. CASE where # "idle"
    <3>1. Upto(g)' = Upto(g)
      BY <1>1, <2>2 DEF Upto
    <3>. QED
      BY <1>1, <1>2, <1>3, <2>2, <3>1 DEF IInv, Sound
  <2>. QED
    BY <2>1, <2>2
<1>5. QueueStep(g)
  BY <1>2 DEF QueueStep, SeesNothing
<1>. QED
  BY <1>1, <1>2, <1>4, <1>5, GroupFrame

\* A step of the handler of g that handles its event.
LEMMA HandlesInv ==
  ASSUME IInv, NEW g \in Group, TypeOK', CallsCounted',
         NEW where \in {"called", "idle"},
         at[g] \in {"handling", "calling", "called"},
         at' = [at EXCEPT ![g] = where],
         Handled(g)' = Handled(g) \union {position[g]},
         \A h \in Group \ {g} : Handled(h)' = Handled(h),
         UNCHANGED <<topic, position, committed>>
  PROVE  IInv' /\ \A h \in Group : QueueStep(h)
<1>1. /\ at'[g] = where /\ \A h \in Group \ {g} : at'[h] = at[h]
      /\ position[g] \in Nat
  BY DEF IInv, TypeOK
<1>2. Committed(g)' = Committed(g)
  BY DEF Committed
<1>3. /\ Upto(g) = position[g] - 1 /\ position[g] >= 1 /\ position[g] <= topic
      /\ committed[g] <= Upto(g) /\ 1 .. Upto(g) \subseteq Handled(g)
      /\ committed[g] \in Int /\ topic \in Nat /\ topic <= MaxEvents
  BY BoundAssumption DEF IInv, Sound, Upto, TypeOK, NoOffset
<1>4. Sound(g)'
  <2>1. Upto(g)' \in {position[g], position[g] - 1}
    BY <1>1 DEF Upto
  <2>2. 1 .. position[g] \subseteq Handled(g)'
    BY <1>1, <1>3
  <2>3. committed'[g] <= Upto(g)' /\ 1 .. Upto(g)' \subseteq Handled(g)'
    BY <1>1, <1>3, <2>1, <2>2
  <2>4. position'[g] \in Handled(g)' /\ Committed(g)' \subseteq Handled(g)'
    BY <1>2 DEF IInv, Sound
  <2>. QED
    BY <1>1, <1>2, <1>3, <2>3, <2>4 DEF IInv, Sound
<1>5. QueueStep(g)
  <2>1. {position[g]} \in SUBSET Event
    BY <1>1, <1>3, BoundAssumption DEF Event
  <2>2. {position[g]} \subseteq (1 .. topic) \ Committed(g)
    BY <1>1, <1>3 DEF Committed
  <2>3. SeesHandle(g)
    BY <1>2, <2>1, <2>2 DEF SeesHandle
  <2>. QED
    BY <2>3 DEF QueueStep
<1>. QED
  BY <1>1, <1>4, <1>5, GroupFrame

\* relay-nodejs waits for processor-java, which counts while it does.
LEMMA RelayInv ==
  ASSUME IInv, Relay \/ RelayFails
  PROVE  IInv' /\ \A h \in Group : QueueStep(h)
<1>0. "relay" \in Group
  BY DEF Group
<1>1. CASE RelayCount
  <2>1. /\ at["relay"] = "handling" /\ relayed' = relayed + 1
        /\ at' = [at EXCEPT !["relay"] = "calling"]
        /\ UNCHANGED <<topic, first, position, committed, received, relays, analyzed, reported, missed,
                       faults>>
    BY <1>1 DEF RelayCount, Goto, history
  <2>2. TypeOK'
    <3>1. relayed' \in Nat
      BY <2>1 DEF IInv, TypeOK
    <3>. QED
      BY <2>1, <3>1 DEF IInv, TypeOK
  <2>3. CallsCounted'
    BY <1>0, <2>1 DEF IInv, CallsCounted, Answered, TypeOK
  <2>. QED
    BY <1>0, <2>1, <2>2, <2>3, WithinInv
<1>2. CASE RelayReceived
  <2>. DEFINE p == position["relay"]
  <2>1. /\ at["relay"] = "calling" /\ received' = received + 1
        /\ relays' = [relays EXCEPT ![p] = @ + 1]
        /\ at' = [at EXCEPT !["relay"] = "called"]
        /\ UNCHANGED <<topic, first, position, committed, relayed, analyzed, reported, missed, faults>>
    BY <1>2 DEF RelayReceived, Goto
  <2>2. p \in Event
    BY <1>0, <2>1, BoundAssumption DEF IInv, TypeOK, Sound, Event
  <2>3. TypeOK'
    <3>1. received' \in Nat
      BY <2>1 DEF IInv, TypeOK
    <3>2. relays' \in [Event -> Nat]
      BY <2>1, <2>2 DEF IInv, TypeOK
    <3>. QED
      BY <2>1, <3>1, <3>2 DEF IInv, TypeOK
  <2>4. /\ relays'[p] = relays[p] + 1 /\ relays[p] \in Nat
        /\ \A e \in Event \ {p} : relays'[e] = relays[e]
        /\ at'["relay"] = "called"
    BY <1>0, <2>1, <2>2 DEF IInv, TypeOK
  <2>5. CallsCounted'
    <3>1. relays[p] <= faults /\ faults \in Nat
      BY <2>1, <2>2, <2>4 DEF IInv, CallsCounted, Answered, TypeOK, Event
    <3>2. \A e \in Event \ {p} : relays[e] <= faults + 1 /\ (relays[e] = faults + 1 => e < p)
      BY <2>1 DEF IInv, CallsCounted, Answered
    <3>3. faults = 0 => relayed' = received'
      BY <2>1 DEF IInv, CallsCounted, TypeOK
    <3>4. \A e \in Event : relays'[e] <= faults + 1 /\ (relays'[e] = faults + 1 => Answered(e)')
      BY <2>1, <2>4, <3>1, <3>2 DEF Answered
    <3>. QED
      BY <2>1, <2>4, <3>3, <3>4 DEF CallsCounted
  <2>6. Handled("relay")' = Handled("relay") \union {p}
    BY <2>1, <2>2, <2>3, <2>4 DEF Handled, TypeOK, IInv
  <2>7. \A h \in Group \ {"relay"} : Handled(h)' = Handled(h)
    BY <2>1 DEF Handled, Group
  <2>. QED
    BY <1>0, <2>1, <2>3, <2>5, <2>6, <2>7, HandlesInv
<1>3. CASE RelayDone
  <2>1. /\ at["relay"] = "called"
        /\ at' = [at EXCEPT !["relay"] = "idle"]
        /\ UNCHANGED <<topic, first, position, committed, relayed, received, relays, analyzed,
                       reported, missed, faults>>
    BY <1>3 DEF RelayDone, Goto, countVars, history
  <2>2. TypeOK'
    BY <2>1 DEF IInv, TypeOK
  <2>3. CallsCounted'
    BY <1>0, <2>1 DEF IInv, CallsCounted, Answered, TypeOK
  <2>4. position["relay"] \in Handled("relay")
    BY <1>0, <2>1 DEF IInv, Sound
  <2>. QED
    BY <1>0, <2>1, <2>2, <2>3, <2>4, WithinInv
<1>4. CASE RelayFails
  <2>1. /\ at["relay"] \in {"calling", "called"} /\ faults' = faults + 1
        /\ at' = [at EXCEPT !["relay"] = "handling"]
        /\ UNCHANGED <<topic, first, position, committed, relayed, received, relays, analyzed,
                       reported, missed>>
    BY <1>4 DEF RelayFails, Fault, Goto, countVars, history
  <2>2. TypeOK'
    <3>1. faults' \in Nat
      BY <2>1 DEF IInv, TypeOK
    <3>. QED
      BY <2>1, <3>1 DEF IInv, TypeOK
  <2>3. CallsCounted'
    BY <2>1, FaultAllows DEF IInv
  <2>. QED
    BY <1>0, <2>1, <2>2, <2>3, WithinInv
<1>. QED
  BY <1>1, <1>2, <1>3, <1>4 DEF Relay

\* processor-java's listener goes on whether or not its report was received.
LEMMA ListenerInv ==
  ASSUME IInv, Listener \/ ListenerReportFails
  PROVE  IInv' /\ \A h \in Group : QueueStep(h)
<1>0. "listener" \in Group
  BY DEF Group
<1>1. CASE ListenerCount
  <2>1. /\ at["listener"] = "handling"
        /\ at' = [at EXCEPT !["listener"] = "calling"]
        /\ UNCHANGED <<topic, first, position, committed, relayed, received, relays, analyzed,
                       reported, missed, faults>>
    BY <1>1 DEF ListenerCount, Goto, history
  <2>2. TypeOK'
    BY <2>1 DEF IInv, TypeOK
  <2>3. CallsCounted'
    BY <2>1 DEF IInv, CallsCounted, Answered, TypeOK
  <2>. QED
    BY <1>0, <2>1, <2>2, <2>3, WithinInv
<1>2. CASE ListenerReports \/ ListenerReportFails
  <2>1. /\ at["listener"] = "calling" /\ faults' \in {faults, faults + 1}
        /\ at' = [at EXCEPT !["listener"] = "idle"]
        /\ reported' = reported \union {position["listener"]}
        /\ UNCHANGED <<topic, first, position, committed, relayed, received, relays, analyzed, missed>>
    BY <1>2 DEF ListenerReports, ListenerReportFails, Fault, Goto
  <2>2. position["listener"] \in Event
    BY <1>0, <2>1, BoundAssumption DEF IInv, TypeOK, Sound, Event
  <2>3. TypeOK'
    <3>1. faults' \in Nat
      BY <2>1 DEF IInv, TypeOK
    <3>. QED
      BY <2>1, <3>1, <2>2 DEF IInv, TypeOK
  <2>4. CallsCounted'
    <3>1. CASE faults' = faults
      BY <2>1, <3>1 DEF IInv, CallsCounted, Answered, TypeOK
    <3>2. CASE faults' = faults + 1
      BY <2>1, <3>2, FaultAllows DEF IInv
    <3>. QED
      BY <2>1, <3>1, <3>2
  <2>5. /\ Handled("listener")' = Handled("listener") \union {position["listener"]}
        /\ \A h \in Group \ {"listener"} : Handled(h)' = Handled(h)
    BY <2>1 DEF Handled, Group
  <2>. QED
    BY <1>0, <2>1, <2>3, <2>4, <2>5, HandlesInv
<1>. QED
  BY <1>1, <1>2 DEF Listener

LEMMA AnalyticsInv ==
  ASSUME IInv, Analytics
  PROVE  IInv' /\ \A h \in Group : QueueStep(h)
<1>0. "analytics" \in Group
  BY DEF Group
<1>1. CASE AnalyticsCount
  <2>1. /\ at["analytics"] = "handling"
        /\ at' = [at EXCEPT !["analytics"] = "calling"]
        /\ UNCHANGED <<topic, first, position, committed, relayed, received, relays, analyzed,
                       reported, missed, faults>>
    BY <1>1 DEF AnalyticsCount, Goto, history
  <2>2. TypeOK'
    BY <2>1 DEF IInv, TypeOK
  <2>3. CallsCounted'
    BY <2>1 DEF IInv, CallsCounted, Answered, TypeOK
  <2>. QED
    BY <1>0, <2>1, <2>2, <2>3, WithinInv
<1>2. CASE AnalyticsRecord
  <2>1. /\ at["analytics"] = "calling"
        /\ at' = [at EXCEPT !["analytics"] = "idle"]
        /\ analyzed' = analyzed \union {position["analytics"]}
        /\ UNCHANGED <<topic, first, position, committed, relayed, received, relays, reported, missed,
                       faults>>
    BY <1>2 DEF AnalyticsRecord, Goto
  <2>2. position["analytics"] \in Event
    BY <1>0, <2>1, BoundAssumption DEF IInv, TypeOK, Sound, Event
  <2>3. TypeOK'
    BY <2>1, <2>2 DEF IInv, TypeOK
  <2>4. CallsCounted'
    BY <2>1 DEF IInv, CallsCounted, Answered, TypeOK
  <2>5. /\ Handled("analytics")' = Handled("analytics") \union {position["analytics"]}
        /\ \A h \in Group \ {"analytics"} : Handled(h)' = Handled(h)
    BY <2>1 DEF Handled, Group
  <2>. QED
    BY <1>0, <2>1, <2>3, <2>4, <2>5, HandlesInv
<1>. QED
  BY <1>1, <1>2 DEF Analytics

-----------------------------------------------------------------------------
(* Restarts *)

\* A consumer that is gone leaves what its group has committed.
LEMMA GoneInv ==
  ASSUME IInv, NEW g \in Group, NEW where \in {"down", "dead"},
         at' = [at EXCEPT ![g] = where],
         faults' = faults + 1, relayed' \in Nat, received' \in Nat,
         UNCHANGED <<topic, first, position, committed, relays, analyzed, reported, missed>>
  PROVE  IInv' /\ \A h \in Group : QueueStep(h)
<1>1. at'[g] = where /\ \A h \in Group \ {g} : at'[h] = at[h]
  BY DEF IInv, TypeOK
<1>2. TypeOK'
  BY DEF IInv, TypeOK
<1>3. CallsCounted'
  BY FaultAllows DEF IInv
<1>4. \A h \in Group : Handled(h)' = Handled(h) /\ Committed(h)' = Committed(h)
  BY DEF Handled, Committed
<1>5. Sound(g)'
  BY <1>1, <1>4 DEF IInv, Sound
<1>6. QueueStep(g)
  BY <1>4 DEF QueueStep, SeesNothing
<1>. QED
  BY <1>1, <1>2, <1>3, <1>4, <1>5, <1>6, GroupFrame

LEMMA RestartInv ==
  ASSUME IInv, \/ ThreadDies \/ RelayRejoins
               \/ RestartRelay \/ RestartProcessor \/ RestartAnalytics
  PROVE  IInv' /\ \A h \in Group : QueueStep(h)
<1>1. PICK g \in Group, where \in {"down", "dead"} :
        /\ at' = [at EXCEPT ![g] = where] /\ faults' = faults + 1
        /\ relayed' \in {relayed, 0} /\ received' \in {received, 0}
        /\ UNCHANGED <<topic, first, position, committed, relays, analyzed, reported, missed>>
  <2>1. "relay" \in Group /\ "listener" \in Group /\ "analytics" \in Group
    BY DEF Group
  <2>2. CASE ThreadDies
    BY <2>1, <2>2 DEF ThreadDies, Fault, countVars, history
  <2>3. CASE RelayRejoins
    BY <2>1, <2>3 DEF RelayRejoins, Fault, Down, countVars, history
  <2>4. CASE RestartRelay
    BY <2>1, <2>4 DEF RestartRelay, Fault, Down, history
  <2>5. CASE RestartProcessor
    BY <2>1, <2>5 DEF RestartProcessor, Fault, Down, history
  <2>6. CASE RestartAnalytics
    BY <2>1, <2>6 DEF RestartAnalytics, Fault, Down, history
  <2>. QED
    BY <2>2, <2>3, <2>4, <2>5, <2>6
<1>2. relayed' \in Nat /\ received' \in Nat
  BY <1>1 DEF IInv, TypeOK
<1>. QED
  BY <1>1, <1>2, GoneInv

-----------------------------------------------------------------------------
(* Theorems. *)

LEMMA StutterInv ==
  ASSUME IInv, UNCHANGED vars
  PROVE  IInv' /\ \A h \in Group : QueueStep(h)
<1>1. UNCHANGED <<topic, first, position, committed, at, relayed, received, relays, analyzed,
                  reported, missed, faults>>
  BY DEF vars, groupVars, countVars, history
<1>2. \A h \in Group : /\ Handled(h)' = Handled(h)
                       /\ Committed(h)' = Committed(h)
                       /\ Upto(h)' = Upto(h)
  BY <1>1 DEF Handled, Committed, Upto
<1>3. \A h \in Group : Sound(h)' /\ QueueStep(h)
  BY <1>1, <1>2 DEF IInv, Sound, QueueStep, SeesNothing
<1>. QED
  BY <1>1, <1>3 DEF IInv, TypeOK, CallsCounted, Answered

LEMMA NextInv == IInv /\ [Next]_vars => IInv' /\ \A g \in Group : QueueStep(g)
BY ProduceInv, JoinInv, FetchInv, CommitInv, RelayInv, ListenerInv, AnalyticsInv, RestartInv,
   StutterInv DEF Next

LEMMA Inductive == Spec => []IInv
<1>1. IInv /\ [Next]_vars => IInv'
  BY NextInv
<1>. QED
  BY <1>1, InitInv, PTL DEF Spec

\* What the work queue of a group sees is a step of it.
LEMMA OneMore ==
  ASSUME IInv, topic' = topic + 1
  PROVE  topic + 1 \notin 1 .. topic /\ 1 .. topic' = 1 .. topic \union {topic + 1}
BY BoundAssumption DEF IInv, TypeOK

LEMMA RelayQueueStep ==
  ASSUME IInv, QueueStep("relay")
  PROVE  [RelayQueue!Next]_(RelayQueue!queue)
<1>. DEFINE dealt == {e \in Event : relays[e] > 0} \union missed
<1>1. Handled("relay") = dealt /\ Handled("relay")' = dealt'
  BY DEF Handled
<1>2. CASE SeesNothing("relay")
  BY <1>1, <1>2 DEF SeesNothing, RelayQueue!queue
<1>3. CASE SeesSend("relay")
  <2>1. topic + 1 \in Event /\ topic' = topic + 1 /\ UNCHANGED <<dealt, Committed("relay")>>
    BY <1>1, <1>3 DEF SeesSend
  <2>2. RelayQueue!Send(topic + 1)
    BY <2>1, OneMore DEF RelayQueue!Send
  <2>. QED
    BY <2>1, <2>2 DEF RelayQueue!Next
<1>4. CASE SeesHandle("relay")
  <2>1. PICK items \in SUBSET Event :
          /\ items \subseteq (1 .. topic) \ Committed("relay")
          /\ dealt' = dealt \union items
          /\ UNCHANGED <<topic, Committed("relay")>>
    BY <1>1, <1>4 DEF SeesHandle
  <2>2. RelayQueue!Handle(items)
    BY <2>1 DEF RelayQueue!Handle
  <2>. QED
    BY <2>2 DEF RelayQueue!Next
<1>5. CASE SeesForget("relay")
  <2>1. PICK items \in SUBSET Event :
          /\ items \subseteq dealt
          /\ Committed("relay")' = Committed("relay") \union items
          /\ UNCHANGED <<topic, dealt>>
    BY <1>1, <1>5 DEF SeesForget
  <2>2. RelayQueue!Forget(items)
    BY <2>1 DEF RelayQueue!Forget
  <2>. QED
    BY <2>2 DEF RelayQueue!Next
<1>. QED
  BY <1>2, <1>3, <1>4, <1>5 DEF QueueStep

LEMMA ListenerQueueStep ==
  ASSUME IInv, QueueStep("listener")
  PROVE  [ListenerQueue!Next]_(ListenerQueue!queue)
<1>. DEFINE dealt == reported
<1>1. Handled("listener") = dealt /\ Handled("listener")' = dealt'
  BY DEF Handled
<1>2. CASE SeesNothing("listener")
  BY <1>1, <1>2 DEF SeesNothing, ListenerQueue!queue
<1>3. CASE SeesSend("listener")
  <2>1. topic + 1 \in Event /\ topic' = topic + 1 /\ UNCHANGED <<dealt, Committed("listener")>>
    BY <1>1, <1>3 DEF SeesSend
  <2>2. ListenerQueue!Send(topic + 1)
    BY <2>1, OneMore DEF ListenerQueue!Send
  <2>. QED
    BY <2>1, <2>2 DEF ListenerQueue!Next
<1>4. CASE SeesHandle("listener")
  <2>1. PICK items \in SUBSET Event :
          /\ items \subseteq (1 .. topic) \ Committed("listener")
          /\ dealt' = dealt \union items
          /\ UNCHANGED <<topic, Committed("listener")>>
    BY <1>1, <1>4 DEF SeesHandle
  <2>2. ListenerQueue!Handle(items)
    BY <2>1 DEF ListenerQueue!Handle
  <2>. QED
    BY <2>2 DEF ListenerQueue!Next
<1>5. CASE SeesForget("listener")
  <2>1. PICK items \in SUBSET Event :
          /\ items \subseteq dealt
          /\ Committed("listener")' = Committed("listener") \union items
          /\ UNCHANGED <<topic, dealt>>
    BY <1>1, <1>5 DEF SeesForget
  <2>2. ListenerQueue!Forget(items)
    BY <2>1 DEF ListenerQueue!Forget
  <2>. QED
    BY <2>2 DEF ListenerQueue!Next
<1>. QED
  BY <1>2, <1>3, <1>4, <1>5 DEF QueueStep

LEMMA AnalyticsQueueStep ==
  ASSUME IInv, QueueStep("analytics")
  PROVE  [AnalyticsQueue!Next]_(AnalyticsQueue!queue)
<1>. DEFINE dealt == analyzed
<1>1. Handled("analytics") = dealt /\ Handled("analytics")' = dealt'
  BY DEF Handled
<1>2. CASE SeesNothing("analytics")
  BY <1>1, <1>2 DEF SeesNothing, AnalyticsQueue!queue
<1>3. CASE SeesSend("analytics")
  <2>1. topic + 1 \in Event /\ topic' = topic + 1 /\ UNCHANGED <<dealt, Committed("analytics")>>
    BY <1>1, <1>3 DEF SeesSend
  <2>2. AnalyticsQueue!Send(topic + 1)
    BY <2>1, OneMore DEF AnalyticsQueue!Send
  <2>. QED
    BY <2>1, <2>2 DEF AnalyticsQueue!Next
<1>4. CASE SeesHandle("analytics")
  <2>1. PICK items \in SUBSET Event :
          /\ items \subseteq (1 .. topic) \ Committed("analytics")
          /\ dealt' = dealt \union items
          /\ UNCHANGED <<topic, Committed("analytics")>>
    BY <1>1, <1>4 DEF SeesHandle
  <2>2. AnalyticsQueue!Handle(items)
    BY <2>1 DEF AnalyticsQueue!Handle
  <2>. QED
    BY <2>2 DEF AnalyticsQueue!Next
<1>5. CASE SeesForget("analytics")
  <2>1. PICK items \in SUBSET Event :
          /\ items \subseteq dealt
          /\ Committed("analytics")' = Committed("analytics") \union items
          /\ UNCHANGED <<topic, dealt>>
    BY <1>1, <1>5 DEF SeesForget
  <2>2. AnalyticsQueue!Forget(items)
    BY <2>1 DEF AnalyticsQueue!Forget
  <2>. QED
    BY <2>2 DEF AnalyticsQueue!Next
<1>. QED
  BY <1>2, <1>3, <1>4, <1>5 DEF QueueStep

LEMMA InitQueues == Init => RelayQueue!Init /\ ListenerQueue!Init /\ AnalyticsQueue!Init
BY BoundAssumption
   DEF Init, Group, Committed, NoOffset, RelayQueue!Init, ListenerQueue!Init, AnalyticsQueue!Init

LEMMA CountsFollow == IInv => CountsAgree
<1>1. IInv => \A e \in Event : relays[e] <= faults + 1
  BY DEF IInv, CallsCounted
<1>2. IInv /\ faults = 0 => relayed - received \in {0, 1}
  BY DEF IInv, TypeOK, CallsCounted
<1>. QED
  BY <1>1, <1>2 DEF CountsAgree

\* A consumer group promises what a work queue does: whatever fails, restarts or
\* is committed late, no committed event is unhandled and no offset moves back; an
\* event reaches processor-java again only as often as something has failed; and as
\* long as nothing fails the two agree on what they have counted.
THEOREM QueuesKept == Spec => KeepQueues
<1>1. /\ IInv /\ [Next]_vars => [RelayQueue!Next]_(RelayQueue!queue)
      /\ IInv /\ [Next]_vars => [ListenerQueue!Next]_(ListenerQueue!queue)
      /\ IInv /\ [Next]_vars => [AnalyticsQueue!Next]_(AnalyticsQueue!queue)
  BY NextInv, RelayQueueStep, ListenerQueueStep, AnalyticsQueueStep DEF Group
<1>. QED
  BY <1>1, InitQueues, Inductive, CountsFollow, PTL
     DEF Spec, KeepQueues, RelayQueue!Spec, ListenerQueue!Spec, AnalyticsQueue!Spec

-----------------------------------------------------------------------------
(* What makes the properties of the Redis stack inductive. *)

Task == [kind : {"none", "session", "cache", "notify"}, key : Key \union {"none"},
         value : Nat, at : {"none", "store", "warm", "set", "push"}]

RedisTyped ==
  /\ cache \in [Key -> Nat]
  /\ queue \in Seq(Nat)
  /\ task \in [Client -> Task]
  /\ requests \in Nat
  /\ pushed \in Seq(Nat)
  /\ popped \in Seq(Nat)
  /\ handled \in Seq(Nat)
  /\ IsFiniteSet(lost)
  /\ failures \in Nat

\* The number of messages that a worker has got, or nobody.
Taken == Len(pushed) - Len(queue) - Len(popped)

\* The list holds the messages pushed last, the newest first, and the reply on its
\* way is the message before them.
ListSound ==
  /\ Len(popped) <= 1
  /\ Taken >= 0
  /\ \A i \in 1 .. Len(queue) : queue[i] = pushed[Len(pushed) + 1 - i]
  /\ popped # <<>> => popped[1] = pushed[Taken + 1]

\* What was handled was pushed before what is on its way or in the list.
HandledSound ==
  /\ \A i \in DOMAIN handled : \E n \in 1 .. Taken : pushed[n] = handled[i]
  /\ \A i, j \in DOMAIN handled : i < j =>
       \E m, n \in 1 .. Taken : m < n /\ pushed[m] = handled[i] /\ pushed[n] = handled[j]

\* A request's value is its own: no other request has it, and it is in no message
\* before its LPUSH.
ValuesApart ==
  /\ \A n \in DOMAIN pushed : pushed[n] <= requests
  /\ \A m, n \in DOMAIN pushed : m # n => pushed[m] # pushed[n]
  /\ \A c \in Client : task[c].at # "none" =>
       /\ task[c].value <= requests
       /\ \A n \in DOMAIN pushed : pushed[n] # task[c].value
       /\ \A d \in Client \ {c} : task[d].at # "none" => task[d].value # task[c].value

LossCounted == Cardinality(lost) <= failures

RedisSound == RedisTyped /\ ListSound /\ HandledSound /\ ValuesApart /\ LossCounted /\ CachedIsAnnounced

\* No notification is handled twice.
HandledOnce == \A i, j \in DOMAIN handled : i # j => handled[i] # handled[j]

-----------------------------------------------------------------------------
(* The list *)

LEMMA TakenIsPushed ==
  ASSUME RedisTyped, ListSound
  PROVE  1 .. Taken \subseteq DOMAIN pushed
BY DEF RedisTyped, ListSound, Taken

LEMMA AppendSet ==
  ASSUME NEW s \in Seq(Nat), NEW v \in Nat
  PROVE  ToSet(Append(s, v)) = ToSet(s) \union {v}
<1>1. /\ DOMAIN Append(s, v) = (DOMAIN s) \union {Len(s) + 1}
      /\ Append(s, v)[Len(s) + 1] = v
      /\ \A i \in DOMAIN s : Append(s, v)[i] = s[i]
  OBVIOUS
<1>. QED
  BY <1>1 DEF ToSet

LEMMA ListFrame ==
  ASSUME ListSound, HandledSound, UNCHANGED <<queue, pushed, popped, handled>>
  PROVE  ListSound' /\ HandledSound'
BY DEF ListSound, HandledSound, Taken

\* What was handled stays in its order while no message moves.
LEMMA HandledFrame ==
  ASSUME HandledSound, UNCHANGED handled, 1 .. Taken \subseteq 1 .. Taken',
         \A n \in 1 .. Taken : pushed'[n] = pushed[n]
  PROVE  HandledSound'
<1>1. ASSUME NEW i \in DOMAIN handled'
      PROVE  \E n \in 1 .. Taken' : pushed'[n] = handled'[i]
  <2>1. PICK n \in 1 .. Taken : pushed[n] = handled[i]
    BY DEF HandledSound
  <2>. QED
    BY <2>1
<1>2. ASSUME NEW i \in DOMAIN handled', NEW j \in DOMAIN handled', i < j
      PROVE  \E m, n \in 1 .. Taken' : m < n /\ pushed'[m] = handled'[i] /\ pushed'[n] = handled'[j]
  <2>1. PICK m \in 1 .. Taken, n \in 1 .. Taken :
          m < n /\ pushed[m] = handled[i] /\ pushed[n] = handled[j]
    BY <1>2 DEF HandledSound
  <2>. QED
    BY <2>1
<1>. QED
  BY <1>1, <1>2 DEF HandledSound

\* LPUSH puts the message in front of the list, and nothing behind it moves.
LEMMA EnqueueList ==
  ASSUME RedisTyped, ListSound, HandledSound, NEW v \in Nat,
         queue' = <<v>> \o queue, pushed' = Append(pushed, v), UNCHANGED <<popped, handled>>
  PROVE  ListSound' /\ HandledSound'
<1>1. /\ queue \in Seq(Nat) /\ pushed \in Seq(Nat) /\ popped \in Seq(Nat)
      /\ Len(queue) \in Nat /\ Len(pushed) \in Nat /\ Len(popped) \in Nat
  BY DEF RedisTyped
<1>2. /\ Len(queue') = Len(queue) + 1 /\ Len(pushed') = Len(pushed) + 1
      /\ pushed'[Len(pushed) + 1] = v
      /\ \A n \in 1 .. Len(pushed) : pushed'[n] = pushed[n]
      /\ queue'[1] = v
      /\ \A i \in 1 .. Len(queue) : queue'[i + 1] = queue[i]
  BY <1>1
<1>3. Taken' = Taken /\ Taken \in Nat /\ Taken + Len(popped) <= Len(pushed)
  BY <1>1, <1>2 DEF Taken, ListSound
<1>4. \A n \in 1 .. Taken : pushed'[n] = pushed[n]
  BY <1>1, <1>2, <1>3
<1>5. ASSUME NEW i \in 1 .. Len(queue')
      PROVE  queue'[i] = pushed'[Len(pushed') + 1 - i]
  <2>1. CASE i = 1
    BY <1>1, <1>2, <2>1
  <2>2. CASE i # 1
    <3>1. i - 1 \in 1 .. Len(queue) /\ (i - 1) + 1 = i
      BY <1>1, <1>2, <2>2
    <3>2. queue'[i] = queue[i - 1]
      BY <1>2, <3>1
    <3>3. queue[i - 1] = pushed[Len(pushed) + 1 - (i - 1)]
      BY <3>1 DEF ListSound
    <3>4. /\ Len(pushed) + 1 - (i - 1) \in 1 .. Len(pushed)
          /\ Len(pushed) + 1 - (i - 1) = Len(pushed') + 1 - i
      BY <1>1, <1>2, <1>3, <3>1 DEF Taken
    <3>. QED
      BY <1>2, <3>2, <3>3, <3>4
  <2>. QED
    BY <2>1, <2>2
<1>6. popped # <<>> => popped[1] = pushed'[Taken + 1]
  <2>. SUFFICES ASSUME popped # <<>> PROVE Taken + 1 \in 1 .. Len(pushed)
    BY <1>2 DEF ListSound
  <2>1. Len(popped) # 0
    BY <1>1
  <2>. QED
    BY <1>1, <1>3, <2>1
<1>7. ListSound'
  BY <1>3, <1>5, <1>6 DEF ListSound
<1>8. HandledSound'
  BY <1>3, <1>4, HandledFrame
<1>. QED
  BY <1>7, <1>8

\* BRPOP takes the oldest message of the list.
LEMMA PopList ==
  ASSUME RedisTyped, ListSound, HandledSound, popped = <<>>, queue # <<>>,
         popped' = <<Last(queue)>>, queue' = Front(queue), UNCHANGED <<pushed, handled>>
  PROVE  ListSound' /\ HandledSound'
<1>1. /\ queue \in Seq(Nat) /\ Len(queue) \in Nat \ {0} /\ Len(pushed) \in Nat
      /\ Len(popped) = 0
  BY DEF RedisTyped
<1>2. /\ popped'[1] = queue[Len(queue)] /\ Len(popped') = 1
      /\ Len(queue') = Len(queue) - 1
      /\ \A i \in 1 .. Len(queue') : queue'[i] = queue[i]
  BY <1>1 DEF Last, Front
<1>3. Taken' = Taken
  BY <1>1, <1>2 DEF Taken
<1>4. popped'[1] = pushed[Taken + 1]
  <2>1. Len(queue) \in 1 .. Len(queue) /\ Len(pushed) + 1 - Len(queue) = Taken + 1
    BY <1>1 DEF Taken
  <2>. QED
    BY <1>2, <2>1 DEF ListSound
<1>5. ListSound'
  <2>1. ASSUME NEW i \in 1 .. Len(queue')
        PROVE  queue'[i] = pushed'[Len(pushed') + 1 - i]
    <3>1. i \in 1 .. Len(queue)
      BY <1>1, <1>2
    <3>. QED
      BY <1>2, <3>1 DEF ListSound
  <2>2. Taken' >= 0
    BY <1>3 DEF ListSound
  <2>. QED
    BY <1>2, <1>3, <1>4, <2>1, <2>2 DEF ListSound
<1>6. HandledSound'
  BY <1>3, HandledFrame
<1>. QED
  BY <1>5, <1>6

\* At most one reply is on its way.
LEMMA OneReply ==
  ASSUME RedisTyped, ListSound, popped # <<>>
  PROVE  Len(popped) = 1 /\ DOMAIN popped = {1}
<1>1. popped \in Seq(Nat) /\ Len(popped) \in Nat /\ Len(popped) <= 1
  BY DEF RedisTyped, ListSound
<1>2. Len(popped) # 0
  BY <1>1
<1>3. \A n \in Nat : n <= 1 /\ n # 0 => n = 1
  OBVIOUS
<1>4. Len(popped) = 1
  BY <1>1, <1>2, <1>3, Zenon
<1>. QED
  BY <1>1, <1>4

LEMMA ConcatOne ==
  ASSUME NEW s \in Seq(Nat), NEW t \in Seq(Nat), Len(t) = 1
  PROVE  /\ DOMAIN (s \o t) = 1 .. (Len(s) + 1)
         /\ (s \o t)[Len(s) + 1] = t[1]
         /\ \A i \in 1 .. Len(s) : (s \o t)[i] = s[i]
<1>1. /\ s \o t \in Seq(Nat) /\ Len(s \o t) = Len(s) + Len(t)
      /\ \A i \in 1 .. Len(s) + Len(t) :
           (s \o t)[i] = IF i <= Len(s) THEN s[i] ELSE t[i - Len(s)]
  BY ConcatProperties
<1>2. DOMAIN (s \o t) = 1 .. (Len(s) + 1) /\ Len(s) \in Nat
  BY <1>1
<1>. QED
  BY <1>1, <1>2

\* The worker handles the message after all it has handled.
LEMMA ProcessList ==
  ASSUME RedisTyped, ListSound, HandledSound, popped # <<>>,
         handled' = handled \o popped, popped' = <<>>, UNCHANGED <<queue, pushed>>
  PROVE  ListSound' /\ HandledSound'
<1>1. /\ handled \in Seq(Nat) /\ popped \in Seq(Nat) /\ Len(handled) \in Nat
      /\ Len(popped) = 1 /\ Len(pushed) \in Nat /\ Len(queue) \in Nat
  BY OneReply DEF RedisTyped
<1>2. /\ DOMAIN handled = 1 .. Len(handled) /\ DOMAIN handled' = 1 .. (Len(handled) + 1)
      /\ handled'[Len(handled) + 1] = popped[1]
      /\ \A i \in 1 .. Len(handled) : handled'[i] = handled[i]
      /\ Len(popped') = 0
  BY <1>1, ConcatOne
<1>3. Taken' = Taken + 1 /\ Taken \in Nat
  BY <1>1, <1>2 DEF Taken, ListSound
<1>4. pushed[Taken + 1] = popped[1]
  BY DEF ListSound
<1>5. ListSound'
  BY <1>1, <1>2, <1>3 DEF ListSound
<1>6. ASSUME NEW i \in DOMAIN handled'
      PROVE  \E n \in 1 .. Taken' : pushed'[n] = handled'[i]
  <2>1. CASE i = Len(handled) + 1
    BY <1>2, <1>3, <1>4, <2>1
  <2>2. CASE i # Len(handled) + 1
    <3>1. i \in DOMAIN handled
      BY <1>1, <1>2, <2>2
    <3>2. PICK n \in 1 .. Taken : pushed[n] = handled[i]
      BY <3>1 DEF HandledSound
    <3>. QED
      BY <1>2, <1>3, <3>1, <3>2
  <2>. QED
    BY <2>1, <2>2
<1>7. ASSUME NEW i \in DOMAIN handled', NEW j \in DOMAIN handled', i < j
      PROVE  \E m, n \in 1 .. Taken' : m < n /\ pushed'[m] = handled'[i] /\ pushed'[n] = handled'[j]
  <2>1. i \in DOMAIN handled
    BY <1>1, <1>2, <1>7
  <2>2. CASE j = Len(handled) + 1
    <3>1. PICK m \in 1 .. Taken : pushed[m] = handled[i]
      BY <2>1 DEF HandledSound
    <3>2. m < Taken + 1 /\ m \in 1 .. Taken' /\ Taken + 1 \in 1 .. Taken'
      BY <1>3
    <3>. QED
      BY <1>2, <1>4, <2>1, <2>2, <3>1, <3>2
  <2>3. CASE j # Len(handled) + 1
    <3>1. j \in DOMAIN handled
      BY <1>1, <1>2, <2>3
    <3>2. PICK m \in 1 .. Taken, n \in 1 .. Taken :
            m < n /\ pushed[m] = handled[i] /\ pushed[n] = handled[j]
      BY <1>7, <2>1, <3>1 DEF HandledSound
    <3>. QED
      BY <1>2, <1>3, <2>1, <3>1, <3>2
  <2>. QED
    BY <2>2, <2>3
<1>8. HandledSound'
  BY <1>6, <1>7 DEF HandledSound
<1>. QED
  BY <1>5, <1>8

\* A reply that is lost leaves a gap, not a message out of order.
LEMMA LossList ==
  ASSUME RedisTyped, ListSound, HandledSound, popped' = <<>>, UNCHANGED <<queue, pushed, handled>>
  PROVE  ListSound' /\ HandledSound'
<1>1. /\ Len(popped) \in Nat /\ Len(popped') = 0 /\ Len(pushed) \in Nat /\ Len(queue) \in Nat
  BY DEF RedisTyped
<1>2. Taken' >= Taken /\ Taken \in Nat /\ Taken' \in Nat
  BY <1>1 DEF Taken, ListSound
<1>3. ListSound'
  BY <1>1, <1>2 DEF ListSound
<1>4. 1 .. Taken \subseteq 1 .. Taken'
  BY <1>2
<1>5. HandledSound'
  BY <1>4, HandledFrame
<1>. QED
  BY <1>3, <1>5

-----------------------------------------------------------------------------
(* The requests *)

LEMMA IdleTask == Idle \in Task /\ Idle.at = "none" /\ Idle.at # "push"
BY DEF Idle, Task, Miss

LEMMA GotoTask ==
  ASSUME RedisTyped, NEW c \in Client, NEW where \in {"warm", "push"}, Proceed(c, where)
  PROVE  \E t \in Task : /\ task' = [task EXCEPT ![c] = t]
                         /\ t.value = task[c].value /\ t.at = where
<1>1. task[c] \in Task
  BY DEF RedisTyped
<1>2. [task[c] EXCEPT !.at = where] \in Task
  BY <1>1 DEF Task
<1>. QED
  BY <1>1, <1>2 DEF Proceed, Task

\* A request keeps its value to its end.
LEMMA TaskApart ==
  ASSUME RedisSound, NEW c \in Client, NEW t \in Task, task' = [task EXCEPT ![c] = t],
         t.at # "none" => task[c].at # "none" /\ t.value = task[c].value,
         UNCHANGED <<requests, pushed>>
  PROVE  ValuesApart'
<1>1. task'[c] = t /\ \A d \in Client \ {c} : task'[d] = task[d]
  BY DEF RedisSound, RedisTyped
<1>2. \A d \in Client : task'[d].at # "none" =>
        task[d].at # "none" /\ task'[d].value = task[d].value
  BY <1>1
<1>. QED
  BY <1>2 DEF RedisSound, ValuesApart

\* A new request carries a value that nobody has seen.
LEMMA RequestApart ==
  ASSUME RedisSound, NEW c \in Client, NEW t \in Task, task' = [task EXCEPT ![c] = t],
         t.value = requests + 1, requests' = requests + 1, UNCHANGED pushed
  PROVE  ValuesApart'
<1>1. task'[c] = t /\ \A d \in Client \ {c} : task'[d] = task[d]
  BY DEF RedisSound, RedisTyped
<1>2. requests \in Nat /\ pushed \in Seq(Nat)
  BY DEF RedisSound, RedisTyped
<1>3. \A n \in DOMAIN pushed : /\ pushed[n] \in Nat /\ pushed[n] <= requests
                              /\ pushed[n] < requests' /\ pushed[n] # t.value
  <2>1. \A n \in DOMAIN pushed : pushed[n] \in Nat
    BY <1>2
  <2>. QED
    BY <1>2, <2>1 DEF RedisSound, ValuesApart
<1>4. ASSUME NEW d \in Client \ {c}, task'[d].at # "none"
      PROVE  /\ task'[d].value <= requests' /\ task'[d].value # t.value
             /\ \A n \in DOMAIN pushed : pushed[n] # task'[d].value
  <2>1. task[d].value \in Nat
    BY DEF RedisSound, RedisTyped, Task
  <2>. QED
    BY <1>1, <1>2, <1>4, <2>1 DEF RedisSound, ValuesApart
<1>5. ASSUME NEW d \in Client, task'[d].at # "none"
      PROVE  /\ task'[d].value <= requests'
             /\ \A n \in DOMAIN pushed' : pushed'[n] # task'[d].value
             /\ \A e \in Client \ {d} : task'[e].at # "none" => task'[e].value # task'[d].value
  <2>1. CASE d = c
    BY <1>1, <1>2, <1>3, <1>4, <2>1
  <2>2. CASE d # c
    <3>1. \A e \in Client \ {d, c} : task'[e].at # "none" => task'[e].value # task'[d].value
      BY <1>1, <1>5, <2>2 DEF RedisSound, ValuesApart
    <3>. QED
      BY <1>1, <1>4, <1>5, <2>2, <3>1
  <2>. QED
    BY <2>1, <2>2
<1>6. \A n \in DOMAIN pushed' : pushed'[n] <= requests'
  BY <1>2, <1>3
<1>. QED
  BY <1>5, <1>6 DEF RedisSound, ValuesApart

\* The value moves from the request to the list.
LEMMA PushApart ==
  ASSUME RedisSound, NEW c \in Client, task[c].at = "push", task' = [task EXCEPT ![c] = Idle],
         pushed' = Append(pushed, task[c].value), UNCHANGED requests
  PROVE  ValuesApart'
<1>1. task'[c].at = "none" /\ \A d \in Client \ {c} : task'[d] = task[d]
  BY DEF RedisSound, RedisTyped, Idle
<1>. DEFINE v == task[c].value
<1>2. v \in Nat /\ pushed \in Seq(Nat)
  BY DEF RedisSound, RedisTyped, Task
<1>3. /\ DOMAIN pushed' = (DOMAIN pushed) \union {Len(pushed) + 1}
      /\ pushed'[Len(pushed) + 1] = v
      /\ \A n \in DOMAIN pushed : pushed'[n] = pushed[n]
  BY <1>2
<1>4. v <= requests /\ \A n \in DOMAIN pushed : pushed[n] # v
  BY DEF RedisSound, ValuesApart
<1>5. ASSUME NEW m \in DOMAIN pushed', NEW n \in DOMAIN pushed', m # n
      PROVE  pushed'[m] # pushed'[n]
  BY <1>3, <1>4, <1>5 DEF RedisSound, ValuesApart
<1>6. \A n \in DOMAIN pushed' : pushed'[n] <= requests
  BY <1>3, <1>4 DEF RedisSound, ValuesApart
<1>7. ASSUME NEW d \in Client, task'[d].at # "none"
      PROVE  /\ d # c /\ task'[d] = task[d] /\ task[d].value <= requests
             /\ \A n \in DOMAIN pushed' : pushed'[n] # task[d].value
             /\ \A e \in Client \ {d, c} : task[e].at # "none" => task[e].value # task[d].value
  <2>1. d # c /\ task'[d] = task[d]
    BY <1>1, <1>7
  <2>2. /\ task[d].value <= requests /\ task[d].value # v
        /\ \A n \in DOMAIN pushed : pushed[n] # task[d].value
        /\ \A e \in Client \ {d} : task[e].at # "none" => task[e].value # task[d].value
    BY <1>7, <2>1 DEF RedisSound, ValuesApart
  <2>. QED
    BY <1>3, <2>1, <2>2
<1>. QED
  BY <1>1, <1>5, <1>6, <1>7 DEF ValuesApart

\* Announced(k) is what CachedIsAnnounced asks of a key.
Announced(k) ==
  \/ cache[k] = Miss
  \/ cache[k] \in ToSet(pushed)
  \/ \E c \in Client : task[c].at = "push" /\ task[c].value = cache[k]

LEMMA AllAnnounced == CachedIsAnnounced <=> (failures = 0 => \A k \in Key : Announced(k))
BY DEF CachedIsAnnounced, Announced

\* A cached value stays announced while the request that has set it has not pushed it.
LEMMA StaysAnnounced ==
  ASSUME RedisSound, NEW c \in Client, NEW t \in Task, task' = [task EXCEPT ![c] = t],
         task[c].at # "push", NEW k \in Key, cache'[k] \in {cache[k], Miss}, UNCHANGED pushed,
         Announced(k)
  PROVE  Announced(k)'
<1>1. \A d \in Client \ {c} : task'[d] = task[d]
  BY DEF RedisSound, RedisTyped
<1>. QED
  BY <1>1 DEF Announced

\* A step of a request that neither caches nor pushes.
LEMMA QuietTask ==
  ASSUME RedisSound, NEW c \in Client, NEW t \in Task, task' = [task EXCEPT ![c] = t],
         task[c].at # "push", t.at # "none" => task[c].at # "none" /\ t.value = task[c].value,
         failures' \in {failures, failures + 1},
         UNCHANGED <<cache, queue, requests, pushed, popped, handled, lost>>
  PROVE  RedisSound'
<1>1. failures \in Nat /\ failures' \in Nat /\ failures <= failures' /\ (failures' = 0 => failures = 0)
  BY DEF RedisSound, RedisTyped
<1>2. RedisTyped'
  BY <1>1 DEF RedisSound, RedisTyped
<1>3. ListSound' /\ HandledSound'
  BY ListFrame DEF RedisSound
<1>4. ValuesApart'
  BY TaskApart
<1>5. LossCounted'
  <2>1. Cardinality(lost) \in Nat
    BY FS_CardinalityType DEF RedisSound, RedisTyped
  <2>. QED
    BY <1>1, <2>1 DEF RedisSound, LossCounted
<1>6. CachedIsAnnounced'
  <2>. SUFFICES ASSUME failures' = 0, NEW k \in Key PROVE Announced(k)'
    BY DEF CachedIsAnnounced, Announced
  <2>1. Announced(k)
    BY <1>1, AllAnnounced DEF RedisSound
  <2>. QED
    BY <2>1, StaysAnnounced
<1>. QED
  BY <1>2, <1>3, <1>4, <1>5, <1>6 DEF RedisSound

LEMMA RequestInv ==
  ASSUME RedisSound, NEW c \in Client, NEW kind \in {"session", "cache", "notify"}, NEW k \in Key,
         Request(c, kind, k)
  PROVE  RedisSound'
<1>. DEFINE t == [kind |-> kind, key |-> k, value |-> requests + 1, at |-> First(kind)]
<1>1. First(kind) \in {"store", "set", "push"}
  BY Zenon DEF First
<1>2. /\ task[c] = Idle /\ requests' = requests + 1
      /\ task' = [task EXCEPT ![c] = t]
      /\ UNCHANGED <<cache, queue, pushed, popped, handled, lost, failures>>
  BY DEF Request, redisVars, workerVars
<1>3. t \in Task /\ t.value = requests + 1
  BY <1>1 DEF Task, RedisSound, RedisTyped
<1>. HIDE DEF t
<1>4. RedisTyped'
  BY <1>2, <1>3 DEF RedisSound, RedisTyped
<1>5. ListSound' /\ HandledSound'
  BY <1>2, ListFrame DEF RedisSound
<1>6. ValuesApart'
  BY <1>2, <1>3, RequestApart
<1>7. LossCounted'
  BY <1>2 DEF RedisSound, LossCounted
<1>8. CachedIsAnnounced'
  <2>. SUFFICES ASSUME failures = 0, NEW l \in Key PROVE Announced(l)'
    BY <1>2 DEF CachedIsAnnounced, Announced
  <2>1. Announced(l)
    BY AllAnnounced DEF RedisSound
  <2>. QED
    BY <1>2, <1>3, <2>1, IdleTask, StaysAnnounced
<1>. QED
  BY <1>4, <1>5, <1>6, <1>7, <1>8 DEF RedisSound

LEMMA QuietInv ==
  ASSUME RedisSound, NEW c \in Client, StoreSession(c) \/ WarmCache(c) \/ StoreFails(c)
  PROVE  RedisSound'
<1>1. CASE StoreSession(c)
  <2>1. task[c].at = "store" /\ Proceed(c, "warm")
    BY <1>1 DEF StoreSession
  <2>2. PICK t \in Task : /\ task' = [task EXCEPT ![c] = t]
                          /\ t.value = task[c].value /\ t.at = "warm"
    BY <2>1, GotoTask DEF RedisSound
  <2>3. UNCHANGED <<cache, queue, requests, pushed, popped, handled, lost, failures>>
    BY <1>1 DEF StoreSession, workerVars
  <2>. QED
    BY <2>1, <2>2, <2>3, QuietTask
<1>2. CASE WarmCache(c) \/ StoreFails(c)
  <2>1. /\ task[c].at \in {"store", "warm"} /\ task' = [task EXCEPT ![c] = Idle]
        /\ failures' \in {failures, failures + 1}
        /\ UNCHANGED <<cache, queue, requests, pushed, popped, handled, lost>>
    BY <1>2 DEF WarmCache, StoreFails, Reply, Failure, redisVars, workerVars
  <2>. QED
    BY <2>1, IdleTask, QuietTask
<1>. QED
  BY <1>1, <1>2

\* The request that caches a value goes on to announce it.
LEMMA SetCacheInv ==
  ASSUME RedisSound, NEW c \in Client, SetCache(c)
  PROVE  RedisSound'
<1>1. /\ task[c].at = "set" /\ Proceed(c, "push")
      /\ \/ cache' = [cache EXCEPT ![task[c].key] = task[c].value] /\ failures' = failures
         \/ cache' = cache /\ failures' = failures + 1
      /\ UNCHANGED <<queue, requests, pushed, popped, handled, lost>>
  BY DEF SetCache, Failure, workerVars
<1>2. PICK t \in Task : /\ task' = [task EXCEPT ![c] = t]
                        /\ t.value = task[c].value /\ t.at = "push"
  BY <1>1, GotoTask DEF RedisSound
<1>3. task'[c] = t /\ task[c].value \in Nat
  BY <1>2 DEF RedisSound, RedisTyped, Task
<1>4. failures \in Nat /\ failures' \in Nat /\ failures <= failures' /\ (failures' = 0 => failures = 0)
  BY <1>1 DEF RedisSound, RedisTyped
<1>5. cache' \in [Key -> Nat]
  BY <1>1, <1>3 DEF RedisSound, RedisTyped
<1>6. RedisTyped'
  BY <1>1, <1>2, <1>4, <1>5 DEF RedisSound, RedisTyped
<1>7. ListSound' /\ HandledSound'
  BY <1>1, ListFrame DEF RedisSound
<1>8. ValuesApart'
  BY <1>1, <1>2, TaskApart
<1>9. LossCounted'
  <2>1. Cardinality(lost) \in Nat
    BY FS_CardinalityType DEF RedisSound, RedisTyped
  <2>. QED
    BY <1>1, <1>4, <2>1 DEF RedisSound, LossCounted
<1>10. CachedIsAnnounced'
  <2>. SUFFICES ASSUME failures' = 0, NEW k \in Key PROVE Announced(k)'
    BY DEF CachedIsAnnounced, Announced
  <2>1. Announced(k)
    BY <1>4, AllAnnounced DEF RedisSound
  <2>2. CASE cache'[k] = cache[k]
    BY <1>1, <1>2, <2>1, <2>2, StaysAnnounced
  <2>3. CASE cache'[k] # cache[k]
    <3>1. cache'[k] = task[c].value
      BY <1>1, <2>3 DEF RedisSound, RedisTyped
    <3>. QED
      BY <1>2, <1>3, <3>1 DEF Announced
  <2>. QED
    BY <2>2, <2>3
<1>. QED
  BY <1>6, <1>7, <1>8, <1>9, <1>10 DEF RedisSound

LEMMA PushInv ==
  ASSUME RedisSound, NEW c \in Client, task[c].at = "push", Enqueue(c), Reply(c),
         failures' \in {failures, failures + 1},
         UNCHANGED <<cache, requests, popped, handled, lost>>
  PROVE  RedisSound'
<1>. DEFINE v == task[c].value
<1>1. /\ queue' = <<v>> \o queue /\ pushed' = Append(pushed, v)
      /\ task' = [task EXCEPT ![c] = Idle]
  BY DEF Enqueue, Reply
<1>2. v \in Nat /\ pushed \in Seq(Nat) /\ queue \in Seq(Nat)
  BY DEF RedisSound, RedisTyped, Task
<1>. HIDE DEF v
<1>3. failures \in Nat /\ failures' \in Nat /\ failures <= failures' /\ (failures' = 0 => failures = 0)
  BY DEF RedisSound, RedisTyped
<1>4. RedisTyped'
  <2>1. queue' \in Seq(Nat) /\ pushed' \in Seq(Nat)
    BY <1>1, <1>2
  <2>2. task' \in [Client -> Task]
    BY <1>1, IdleTask DEF RedisSound, RedisTyped
  <2>. QED
    BY <1>3, <2>1, <2>2 DEF RedisSound, RedisTyped
<1>5. ListSound' /\ HandledSound'
  BY <1>1, <1>2, EnqueueList DEF RedisSound
<1>6. ValuesApart'
  BY <1>1, PushApart DEF v
<1>7. LossCounted'
  <2>1. Cardinality(lost) \in Nat
    BY FS_CardinalityType DEF RedisSound, RedisTyped
  <2>. QED
    BY <1>3, <2>1 DEF RedisSound, LossCounted
<1>8. CachedIsAnnounced'
  <2>. SUFFICES ASSUME failures' = 0, NEW k \in Key PROVE Announced(k)'
    BY DEF CachedIsAnnounced, Announced
  <2>1. Announced(k)
    BY <1>3, AllAnnounced DEF RedisSound
  <2>2. ToSet(pushed)' = ToSet(pushed) \union {v}
    BY <1>1, <1>2, AppendSet
  <2>3. \A d \in Client \ {c} : task'[d] = task[d]
    BY <1>1 DEF RedisSound, RedisTyped
  <2>. QED
    BY <2>1, <2>2, <2>3 DEF Announced, v
<1>. QED
  BY <1>4, <1>5, <1>6, <1>7, <1>8 DEF RedisSound

\* A call to the notifier that fails may have pushed all the same.
LEMMA PushFailsInv ==
  ASSUME RedisSound, NEW c \in Client, PushFails(c)
  PROVE  RedisSound'
<1>1. /\ task[c].at = "push" /\ failures' = failures + 1 /\ Reply(c)
      /\ Enqueue(c) \/ UNCHANGED <<queue, pushed>>
      /\ UNCHANGED <<cache, requests, popped, handled, lost>>
  BY DEF PushFails, Failure, workerVars
<1>2. CASE Enqueue(c)
  BY <1>1, <1>2, PushInv
<1>3. CASE UNCHANGED <<queue, pushed>>
  <2>1. task' = [task EXCEPT ![c] = Idle]
    BY <1>1 DEF Reply
  <2>2. failures \in Nat /\ failures' \in Nat /\ failures' # 0
    BY <1>1 DEF RedisSound, RedisTyped
  <2>3. RedisTyped'
    BY <1>1, <1>3, <2>1, <2>2, IdleTask DEF RedisSound, RedisTyped
  <2>4. ListSound' /\ HandledSound'
    BY <1>1, <1>3, ListFrame DEF RedisSound
  <2>5. ValuesApart'
    BY <1>1, <1>3, <2>1, IdleTask, TaskApart
  <2>6. LossCounted'
    <3>1. Cardinality(lost) \in Nat
      BY FS_CardinalityType DEF RedisSound, RedisTyped
    <3>. QED
      BY <1>1, <2>2, <3>1 DEF RedisSound, LossCounted
  <2>7. CachedIsAnnounced'
    BY <2>2 DEF CachedIsAnnounced
  <2>. QED
    BY <2>3, <2>4, <2>5, <2>6, <2>7 DEF RedisSound
<1>. QED
  BY <1>1, <1>2, <1>3

LEMMA ServeInv ==
  ASSUME RedisSound, NEW c \in Client, Serve(c)
  PROVE  RedisSound'
<1>1. CASE Push(c)
  <2>1. /\ task[c].at = "push" /\ Enqueue(c) /\ Reply(c)
        /\ UNCHANGED <<cache, requests, popped, handled, lost, failures>>
    BY <1>1 DEF Push, workerVars
  <2>. QED
    BY <2>1, PushInv
<1>. QED
  BY <1>1, QuietInv, SetCacheInv, PushFailsInv DEF Serve

-----------------------------------------------------------------------------
(* Redis and the worker *)

LEMMA ExpireInv ==
  ASSUME RedisSound, NEW k \in Key, Expire(k)
  PROVE  RedisSound'
<1>1. /\ cache' = [cache EXCEPT ![k] = Miss]
      /\ UNCHANGED <<queue, task, requests, pushed, popped, handled, lost, failures>>
  BY DEF Expire, workerVars
<1>2. RedisTyped'
  BY <1>1 DEF RedisSound, RedisTyped, Miss
<1>3. ListSound' /\ HandledSound'
  BY <1>1, ListFrame DEF RedisSound
<1>4. ValuesApart' /\ LossCounted'
  BY <1>1 DEF RedisSound, ValuesApart, LossCounted
<1>5. CachedIsAnnounced'
  <2>. SUFFICES ASSUME failures = 0, NEW l \in Key PROVE Announced(l)'
    BY <1>1 DEF CachedIsAnnounced, Announced
  <2>1. Announced(l)
    BY AllAnnounced DEF RedisSound
  <2>2. cache'[l] \in {cache[l], Miss}
    BY <1>1 DEF RedisSound, RedisTyped
  <2>. QED
    BY <1>1, <2>1, <2>2 DEF Announced
<1>. QED
  BY <1>2, <1>3, <1>4, <1>5 DEF RedisSound

LEMMA WorkInv ==
  ASSUME RedisSound, Work
  PROVE  RedisSound'
<1>1. UNCHANGED <<cache, task, requests, pushed, lost, failures>>
  BY DEF Work, Connect, Pop, Process, redisVars
<1>2. ValuesApart' /\ LossCounted' /\ CachedIsAnnounced'
  BY <1>1 DEF RedisSound, ValuesApart, LossCounted, CachedIsAnnounced
<1>3. CASE Connect
  <2>1. UNCHANGED <<queue, popped, handled>>
    BY <1>3 DEF Connect, redisVars
  <2>. QED
    BY <1>1, <1>2, <2>1, ListFrame DEF RedisSound, RedisTyped
<1>4. CASE Pop
  <2>1. /\ popped = <<>> /\ queue # <<>> /\ popped' = <<Last(queue)>> /\ queue' = Front(queue)
        /\ UNCHANGED handled
    BY <1>4 DEF Pop
  <2>2. ListSound' /\ HandledSound'
    BY <1>1, <2>1, PopList DEF RedisSound
  <2>3. queue \in Seq(Nat) /\ Len(queue) \in Nat \ {0}
    BY <2>1 DEF RedisSound, RedisTyped
  <2>4. popped' \in Seq(Nat) /\ queue' \in Seq(Nat)
    BY <2>1, <2>3 DEF Last, Front
  <2>. QED
    BY <1>1, <1>2, <2>1, <2>2, <2>4 DEF RedisSound, RedisTyped
<1>5. CASE Process
  <2>1. /\ popped # <<>> /\ handled' = handled \o popped /\ popped' = <<>>
        /\ UNCHANGED queue
    BY <1>5 DEF Process, redisVars
  <2>2. ListSound' /\ HandledSound'
    BY <1>1, <2>1, ProcessList DEF RedisSound
  <2>3. handled' \in Seq(Nat)
    BY <2>1, ConcatProperties DEF RedisSound, RedisTyped
  <2>. QED
    BY <1>1, <1>2, <2>1, <2>2, <2>3 DEF RedisSound, RedisTyped
<1>. QED
  BY <1>3, <1>4, <1>5 DEF Work

\* The loss of a reply is one fault.
LEMMA CrashInv ==
  ASSUME RedisSound, WorkerCrash
  PROVE  RedisSound'
<1>1. /\ failures' = failures + 1 /\ lost' = lost \union ToSet(popped) /\ popped' = <<>>
      /\ UNCHANGED <<cache, queue, task, requests, pushed, handled>>
  BY DEF WorkerCrash, Failure, redisVars
<1>2. ListSound' /\ HandledSound'
  BY <1>1, LossList DEF RedisSound
<1>3. ValuesApart'
  BY <1>1 DEF RedisSound, ValuesApart
<1>4. failures \in Nat /\ failures' # 0
  BY <1>1 DEF RedisSound, RedisTyped
<1>5. IsFiniteSet(lost') /\ Cardinality(lost') <= Cardinality(lost) + 1 /\ Cardinality(lost) \in Nat
  <2>1. IsFiniteSet(lost) /\ Cardinality(lost) \in Nat
    BY FS_CardinalityType DEF RedisSound, RedisTyped
  <2>2. CASE popped = <<>>
    <3>1. lost' = lost
      BY <1>1, <2>2 DEF ToSet
    <3>. QED
      BY <2>1, <3>1
  <2>3. CASE popped # <<>>
    <3>1. DOMAIN popped = {1}
      BY <2>3, OneReply DEF RedisSound
    <3>2. lost' = lost \union {popped[1]}
      BY <1>1, <3>1 DEF ToSet
    <3>3. /\ IsFiniteSet(lost \union {popped[1]})
          /\ Cardinality(lost \union {popped[1]})
               = IF popped[1] \in lost THEN Cardinality(lost) ELSE Cardinality(lost) + 1
      BY <2>1, FS_AddElement
    <3>. QED
      BY <2>1, <3>2, <3>3
  <2>. QED
    BY <2>2, <2>3
<1>6. RedisTyped'
  BY <1>1, <1>4, <1>5 DEF RedisSound, RedisTyped
<1>7. LossCounted'
  <2>1. Cardinality(lost') \in Nat
    BY <1>5, FS_CardinalityType
  <2>. QED
    BY <1>1, <1>4, <1>5, <2>1 DEF RedisSound, LossCounted
<1>8. CachedIsAnnounced'
  BY <1>4 DEF CachedIsAnnounced
<1>. QED
  BY <1>2, <1>3, <1>6, <1>7, <1>8 DEF RedisSound

-----------------------------------------------------------------------------
(* Theorems. *)

LEMMA RedisInitInv == RedisInit => RedisSound
<1>. SUFFICES ASSUME RedisInit PROVE RedisSound
  OBVIOUS
<1>1. RedisTyped
  BY IdleTask, FS_EmptySet DEF RedisInit, RedisTyped, Miss
<1>2. ListSound /\ HandledSound
  BY DEF RedisInit, ListSound, HandledSound, Taken
<1>3. ValuesApart
  BY IdleTask DEF RedisInit, ValuesApart
<1>4. LossCounted
  BY FS_EmptySet DEF RedisInit, LossCounted
<1>5. CachedIsAnnounced
  BY DEF RedisInit, CachedIsAnnounced
<1>. QED
  BY <1>1, <1>2, <1>3, <1>4, <1>5 DEF RedisSound

LEMMA RedisNextInv == RedisSound /\ [RedisNext]_redisStackVars => RedisSound'
<1>1. ASSUME RedisSound, UNCHANGED redisStackVars PROVE RedisSound'
  <2>1. UNCHANGED <<cache, queue, task, requests, pushed, popped, handled, lost, failures>>
    BY <1>1 DEF redisStackVars, redisVars, workerVars
  <2>2. ListSound' /\ HandledSound'
    BY <1>1, <2>1, ListFrame DEF RedisSound
  <2>. QED
    BY <1>1, <2>1, <2>2 DEF RedisSound, RedisTyped, ValuesApart, LossCounted, CachedIsAnnounced
<1>. QED
  BY <1>1, RequestInv, ServeInv, ExpireInv, WorkInv, CrashInv DEF RedisNext

LEMMA RedisInductive == RedisSpec => []RedisSound
BY RedisInitInv, RedisNextInv, PTL DEF RedisSpec

\* The worker handles notifications in the order of their LPUSH, however LPUSHes,
\* calls that fail and restarts interleave, and each restart costs at most the one
\* that Redis had already taken out of the list.
THEOREM WorkerInOrder == RedisSpec => []InOrderAtMostOnce
<1>1. RedisSound => InOrderAtMostOnce
  <2>. SUFFICES ASSUME RedisSound PROVE InOrderAtMostOnce
    OBVIOUS
  <2>1. Cardinality(lost) <= failures
    BY DEF RedisSound, LossCounted
  <2>2. 1 .. Taken \subseteq DOMAIN pushed
    BY TakenIsPushed DEF RedisSound
  <2>3. ASSUME NEW i \in DOMAIN handled, NEW j \in DOMAIN handled, i < j
        PROVE  \E m, n \in DOMAIN pushed : m < n /\ pushed[m] = handled[i] /\ pushed[n] = handled[j]
    <3>1. PICK m \in 1 .. Taken, n \in 1 .. Taken :
            m < n /\ pushed[m] = handled[i] /\ pushed[n] = handled[j]
      BY <2>3 DEF RedisSound, HandledSound
    <3>. QED
      BY <2>2, <3>1
  <2>. QED
    BY <2>1, <2>3 DEF InOrderAtMostOnce
<1>. QED
  BY <1>1, RedisInductive, PTL

\* The same message never reaches the worker's counter twice.
THEOREM WorkerOnce == RedisSpec => []HandledOnce
<1>1. RedisSound => HandledOnce
  <2>. SUFFICES ASSUME RedisSound, NEW i \in DOMAIN handled, NEW j \in DOMAIN handled, i < j
                PROVE  handled[i] # handled[j]
    BY DEF HandledOnce, RedisSound, RedisTyped
  <2>1. PICK m \in 1 .. Taken, n \in 1 .. Taken :
          m < n /\ pushed[m] = handled[i] /\ pushed[n] = handled[j]
    BY DEF RedisSound, HandledSound
  <2>2. m \in DOMAIN pushed /\ n \in DOMAIN pushed
    BY TakenIsPushed DEF RedisSound
  <2>. QED
    BY <2>1, <2>2 DEF RedisSound, ValuesApart
<1>. QED
  BY <1>1, RedisInductive, PTL

\* While nothing fails, every value in the cache is in a notification that has been
\* queued or belongs to a request about to queue it.
THEOREM CacheAnnounced == RedisSpec => []CachedIsAnnounced
<1>1. RedisSound => CachedIsAnnounced
  BY DEF RedisSound
<1>. QED
  BY <1>1, RedisInductive, PTL
=============================================================================
