--------------------------- MODULE ScenarioProofs ---------------------------
(***************************************************************************)
(* Proofs about two scenarios.  scenarios/tail-sampling, for any number of *)
(* clients, hops, rules and traces: the server fails the hops that the     *)
(* documents name (TailSampling), and a metrics test that passes has seen  *)
(* what it expects (SamplingMetrics).  scenarios/sql-query, for any number *)
(* of pods and queriers and lists of any length: the table is seeded once, *)
(* and the select list is exact (SqlQuery).                                *)
(***************************************************************************)
EXTENDS TailSamplingTest, SqlQuery, TLAPS

-----------------------------------------------------------------------------
(* What makes the properties of the server inductive. *)

Place == {"idle", "sent", "handling", "read", "negated", "answered"}

ServerTyped ==
  /\ lang \in {"node", "java", "python"}
  /\ toggle \in BOOLEAN
  /\ request \in [Client -> Requests \union {NoRequest}]
  /\ state \in [Client -> Place]
  /\ level \in [Client -> Nat]
  /\ status \in [Client -> Nat]
  /\ negation \in [Client -> BOOLEAN]
  /\ spans \in [Client -> [handled : Nat, failed : Nat]]
  /\ alternate \in [ok : Nat, error : Nat, overlap : BOOLEAN]

\* What the hops from the final one up to level n answer: how many fail, and the
\* status of the last.
FinalFails(r) == r.path = "/hops" \/ r.error
HopsFail(r)   == r.path = "/sampling/tail/hops" /\ r.error

FailedUpTo(r, n) == (IF FinalFails(r) THEN 1 ELSE 0) + (IF HopsFail(r) THEN n - 1 ELSE 0)

StatusAt(r, n) ==
  IF n = 1 THEN (IF FinalFails(r) THEN 500 ELSE 200) ELSE (IF HopsFail(r) THEN 500 ELSE 200)

\* A chain goes down hop by hop without an answer, and up again with one.
OnItsWay(c) ==
  /\ state[c] = "sent" =>
       spans[c].handled = request[c].hops - level[c] /\ spans[c].failed = 0
  /\ state[c] = "handling" =>
       spans[c].handled = request[c].hops - level[c] + 1 /\ spans[c].failed = 0
  /\ state[c] = "answered" =>
       /\ spans[c].handled = request[c].hops
       /\ spans[c].failed = FailedUpTo(request[c], level[c])
       /\ status[c] = StatusAt(request[c], level[c])

ChainSound(c) ==
  /\ state[c] = "idle" => spans[c].handled = 0 /\ spans[c].failed = 0
  /\ state[c] # "idle" => request[c] \in Requests /\ level[c] \in 1 .. request[c].hops
  /\ state[c] \in {"read", "negated"} => request[c].path = "/alternate" /\ lang # "node"
  /\ (server = "up" /\ request[c].path # "/alternate") => OnItsWay(c)

\* The flag tells whether the last answer of /alternate was a 200.
Balanced ==
  /\ toggle => alternate.ok = alternate.error + 1
  /\ ~toggle => alternate.ok = alternate.error

\* A request alone in /alternate stores the negation of what it answers.
Alone(c) ==
  /\ \A d \in Client : InAlternate(d) => d = c
  /\ state[c] = "read" => status[c] = ToggleStatus
  /\ state[c] = "negated" => /\ negation[c] <=> ~toggle
                             /\ lang = "python" => status[c] = ToggleStatus

FlagSound ==
  /\ (lang = "node" \/ ~alternate.overlap) => Balanced
  /\ (lang # "node" /\ ~alternate.overlap) => \A c \in Client : InAlternate(c) => Alone(c)

ServerSound == ServerTyped /\ (\A c \in Client : ChainSound(c)) /\ FlagSound

-----------------------------------------------------------------------------
(* What makes the properties of the metrics test inductive. *)

Rule     == DOMAIN expected
Counters == [match : Nat, keep : Nat, drop : Nat]

TestTyped ==
  /\ expected \in Tests
  /\ counter \in [Rule -> Counters] /\ stored \in [Rule -> Counters]
  /\ baseline \in [Rule -> Counters]
  /\ early \in [Rule -> Nat] /\ due \in [Rule -> Nat] /\ triggered \in [Rule -> Nat]
  /\ step \in {"record", "trigger", "assert", "passed", "failed", "timeout"}
  /\ next \in [rule : Rule, query : 1 .. 4]
  /\ step = "record" => next.query # 4
  /\ step = "trigger" => next = [rule |-> 1, query |-> 1]
  /\ current \in Counters /\ scraped \in Counters
  /\ torn \in BOOLEAN

Sums(c) == c.match = c.keep + c.drop

\* Every trace that matches is kept or dropped.
CountersSum == (\A r \in Rule : Sums(counter[r]) /\ Sums(stored[r])) /\ Sums(scraped)

\* Nothing is sent before the trigger.
NoneDue ==
  step \in {"record", "trigger"} => \A r \in Rule : due[r] = 0 /\ triggered[r] = 0

\* Queries q of the rules that are in the baseline file.
Recorded(r, q) ==
  \/ step \in {"trigger", "assert", "passed", "timeout"}
  \/ step = "record" /\ (r < next.rule \/ (r = next.rule /\ q < next.query))

\* What a rule that is not blind can have matched since its baseline are the traces of
\* the trigger.
Bounded(r) ==
  /\ Recorded(r, 1) => /\ early[r] = 0
                       /\ counter[r].match + due[r] <= baseline[r].match + triggered[r]
                       /\ stored[r].match <= baseline[r].match + triggered[r]
  /\ Recorded(r, 2) => baseline[r].keep <= baseline[r].match
  /\ (Recorded(r, 2) /\ step = "record") =>
       baseline[r].keep + counter[r].drop <= baseline[r].match
  /\ Recorded(r, 3) => baseline[r].keep + baseline[r].drop <= baseline[r].match

BaselinesBound == \A r \in Rule \ blind : Bounded(r)

\* What is read of a rule: no more than was sent, and no less than the scrape that the
\* attempt began with.
ReadingSound ==
  (step = "assert" /\ next.query > 1) =>
    /\ next.rule \notin blind =>
         current.match <= baseline[next.rule].match + triggered[next.rule]
    /\ ~torn =>
         /\ current.match = scraped.match
         /\ \A m \in {"keep", "drop"} : scraped[m] <= stored[next.rule][m]
         /\ next.query > 2 => scraped.keep <= current.keep
         /\ next.query > 3 => scraped.drop <= current.drop

\* The rules that have passed in this attempt.
PassedSound ==
  \A r \in Rule \ blind :
    (step = "passed" \/ (step = "assert" /\ r < next.rule)) =>
      triggered[r] >= expected[r].match

TestSound ==
  TestTyped /\ CountersSum /\ NoneDue /\ BaselinesBound /\ ReadingSound /\ PassedSound

-----------------------------------------------------------------------------
(* The metrics test *)

LEMMA RulesNumbered ==
  ASSUME expected \in Tests
  PROVE  /\ Rule = 1 .. Len(expected) /\ Len(expected) \in Nat \ {0}
         /\ expected \in [Rule -> [match : Nat \ {0}, keep : Nat \union {None},
                                   drop : Nat \union {None}]]
  <1>1. expected \in Seq(Metrics!Expectation) /\ Len(expected) > 0
    BY TestAssumption DEF Metrics!TestsTyped
  <1>2. /\ Rule = 1 .. Len(expected) /\ Len(expected) \in Nat \ {0}
        /\ expected \in [1 .. Len(expected) -> Metrics!Expectation]
    BY <1>1 DEF Rule
  <1>. QED  BY <1>2 DEF Metrics!Expectation

LEMMA TestStarts == Metrics!Init => TestSound
  <1>. SUFFICES ASSUME Metrics!Init PROVE TestSound
    OBVIOUS
  <1>. USE DEF Metrics!Init, Metrics!Rule, Metrics!Zero, Rule, Counters
  <1>1. expected \in Tests /\ 1 \in Rule
    BY RulesNumbered
  <1>2. early \in [Rule -> Nat]
    BY <1>1 DEF Metrics!Traces
  <1>3. /\ counter \in [Rule -> Counters] /\ stored \in [Rule -> Counters]
        /\ baseline \in [Rule -> Counters] /\ current \in Counters /\ scraped \in Counters
    OBVIOUS
  <1>7. next \in [rule : Rule, query : 1 .. 4] /\ next.query = 1
    BY <1>1
  <1>8. due \in [Rule -> Nat] /\ triggered \in [Rule -> Nat] /\ torn \in BOOLEAN /\ step = "record"
    OBVIOUS
  <1>9. TestTyped
    BY <1>1, <1>2, <1>3, <1>7, <1>8 DEF TestTyped
  <1>4. CountersSum /\ NoneDue
    BY <1>1 DEF CountersSum, Sums, NoneDue
  <1>5. BaselinesBound
    BY <1>1, RulesNumbered DEF BaselinesBound, Bounded, Recorded
  <1>6. ReadingSound /\ PassedSound
    BY DEF ReadingSound, PassedSound
  <1>. QED  BY <1>9, <1>4, <1>5, <1>6 DEF TestSound

\* The sampler counts a trace of a rule: one that was sent before, or one of the trigger.
LEMMA CountKeeps ==
  ASSUME TestSound, NEW r \in Rule, Metrics!Count(r)
  PROVE  TestSound'
  <1>. USE DEF TestSound, TestTyped, Metrics!Count, Metrics!reading, Rule, Counters
  <1>1. PICK decision \in {"keep", "drop"} :
          counter' = [counter EXCEPT ![r].match = @ + 1, ![r][decision] = @ + 1]
    OBVIOUS
  <1>2. /\ counter' \in [Rule -> Counters]
        /\ \A s \in Rule \ {r} : counter'[s] = counter[s]
        /\ counter'[r].match = counter[r].match + 1
        /\ counter'[r].keep + counter'[r].drop = counter[r].keep + counter[r].drop + 1
    BY <1>1
  <1>3. /\ early' \in [Rule -> Nat] /\ due' \in [Rule -> Nat]
        /\ \A s \in Rule \ {r} : early'[s] = early[s] /\ due'[s] = due[s]
        /\ \/ early[r] > 0 /\ due'[r] = due[r]
           \/ due[r] > 0 /\ due'[r] = due[r] - 1 /\ early'[r] = early[r]
    <2>1. \/ early[r] > 0 /\ early' = [early EXCEPT ![r] = early[r] - 1] /\ due' = due
          \/ due[r] > 0 /\ due' = [due EXCEPT ![r] = due[r] - 1] /\ early' = early
      BY Zenon
    <2>2. early \in [Rule -> Nat] /\ due \in [Rule -> Nat]
      OBVIOUS
    <2>. HIDE DEF TestSound, Metrics!Count
    <2>3. CASE early[r] > 0 /\ early' = [early EXCEPT ![r] = early[r] - 1] /\ due' = due
      BY <2>2, <2>3
    <2>4. CASE due[r] > 0 /\ due' = [due EXCEPT ![r] = due[r] - 1] /\ early' = early
      BY <2>2, <2>4
    <2>. QED  BY <2>1, <2>3, <2>4
  <1>4. TestTyped'
    BY <1>2, <1>3
  <1>5. CountersSum'
    BY <1>2 DEF CountersSum, Sums
  <1>6. NoneDue'
    BY <1>3 DEF NoneDue
  <1>7. ASSUME NEW s \in Rule \ blind PROVE Bounded(s)'
    BY <1>2, <1>3 DEF BaselinesBound, Bounded, Recorded, NoneDue
  <1>8. ReadingSound' /\ PassedSound'
    BY DEF ReadingSound, PassedSound
  <1>. QED  BY <1>4, <1>5, <1>6, <1>7, <1>8 DEF BaselinesBound

LEMMA ScrapeKeeps == TestSound /\ Metrics!Scrape => TestSound'
  <1>. SUFFICES ASSUME TestSound, Metrics!Scrape PROVE TestSound'
    OBVIOUS
  <1>. USE DEF TestSound, TestTyped, Metrics!Scrape, Metrics!Rule, Rule, Counters
  <1>1. TestTyped' /\ CountersSum' /\ NoneDue'
    BY DEF CountersSum, Sums, NoneDue
  <1>2. BaselinesBound'
    BY DEF BaselinesBound, Bounded, Recorded
  <1>3. ASSUME ~torn', NEW r \in Rule, NEW m \in {"keep", "drop"}
        PROVE  stored[r][m] <= stored'[r][m]
    <2>1. ~ \E s \in Rule, n \in DOMAIN Metrics!Zero : counter[s][n] < stored[s][n]
      BY <1>3, Zenon
    <2>2. m \in DOMAIN Metrics!Zero
      BY DEF Metrics!Zero
    <2>3. stored[r][m] \in Nat /\ counter[r][m] \in Nat
      OBVIOUS
    <2>4. ~(counter[r][m] < stored[r][m])
      BY <2>1, <2>2, Zenon
    <2>. QED  BY <2>3, <2>4
  <1>4. ReadingSound'
    BY <1>3 DEF ReadingSound
  <1>5. PassedSound'
    BY DEF PassedSound
  <1>. QED  BY <1>1, <1>2, <1>4, <1>5

LEMMA RestartKeeps == TestSound /\ Metrics!CollectorRestarts => TestSound'
  <1>. SUFFICES ASSUME TestSound, Metrics!CollectorRestarts PROVE TestSound'
    OBVIOUS
  <1>. USE DEF TestSound, TestTyped, Metrics!CollectorRestarts, Metrics!reading,
               Metrics!Rule, Metrics!Zero, Rule, Counters
  <1>1. TestTyped' /\ CountersSum' /\ NoneDue'
    BY DEF CountersSum, Sums, NoneDue
  <1>2. \A r \in Rule : due'[r] = due[r] \/ due'[r] = 0
    OBVIOUS
  <1>3. BaselinesBound'
    BY <1>2 DEF BaselinesBound, Bounded, Recorded, CountersSum, Sums
  <1>4. ReadingSound' /\ PassedSound'
    BY DEF ReadingSound, PassedSound
  <1>. QED  BY <1>1, <1>3, <1>4

\* A query of the baseline.
LEMMA RecordKeeps == TestSound /\ Metrics!Record => TestSound'
  <1>. SUFFICES ASSUME TestSound, Metrics!Record PROVE TestSound'
    OBVIOUS
  <1>. USE DEF TestSound, TestTyped, Metrics!pipeline, Rule, Counters
  <1>1. PICK r \in Rule, q \in 1 .. 3, m \in {"match", "keep", "drop"} :
          /\ r = next.rule /\ q = next.query /\ m = Metrics!Metric[q]
          /\ q = 1 => m = "match"
          /\ q = 2 => m = "keep"
          /\ q = 3 => m = "drop"
    <2>1. step = "record"
      BY DEF Metrics!Record
    <2>2. next.rule \in Rule /\ next.query \in 1 .. 3
      BY <2>1
    <2>3. next.query = 1 \/ next.query = 2 \/ next.query = 3
      BY <2>2
    <2>. QED  BY <2>2, <2>3 DEF Metrics!Metric
  <1>2. PICK value \in Nat :
          /\ baseline' = [baseline EXCEPT ![r][m] = value]
          /\ blind' = IF early[r] = 0 /\ \A n \in {counter, stored} : value = n[r][m]
                      THEN blind ELSE blind \union {r}
    <2>1. PICK a \in Metrics!Answers(r, q) :
            /\ baseline' = [baseline EXCEPT ![r][m] = a.value]
            /\ blind' = IF early[r] = 0 /\ \A n \in {counter, stored} : a.value = n[r][m]
                        THEN blind ELSE blind \union {r}
      BY <1>1 DEF Metrics!Record
    <2>2. a.value \in Nat
      BY <1>1 DEF Metrics!Answers
    <2>. QED  BY <2>1, <2>2, Zenon
  <1>3. /\ baseline' \in [Rule -> Counters]
        /\ \A s \in Rule \ {r} : baseline'[s] = baseline[s]
        /\ baseline'[r][m] = value
        /\ \A n \in {"match", "keep", "drop"} \ {m} : baseline'[r][n] = baseline[r][n]
    BY <1>1, <1>2
  <1>4. /\ r \notin blind' => early[r] = 0 /\ value = counter[r][m] /\ value = stored[r][m]
        /\ \A s \in Rule \ blind' : s \notin blind
    BY <1>2
  <1>5. /\ step = "record"
        /\ UNCHANGED <<expected, counter, early, due, stored, current, triggered, scraped, torn>>
    BY DEF Metrics!Record
  <1>6. \/ q < 3 /\ next' = [next EXCEPT !.query = q + 1] /\ step' = step
        \/ q = 3 /\ r < Len(expected) /\ next' = [rule |-> r + 1, query |-> 1] /\ step' = step
        \/ q = 3 /\ r = Len(expected) /\ next' = [rule |-> 1, query |-> 1] /\ step' = "trigger"
    <2>1. r \in 1 .. Len(expected) /\ Len(expected) \in Nat /\ q \in 1 .. 3
      BY <1>1, RulesNumbered
    <2>2. IF q < 3 THEN next' = [next EXCEPT !.query = q + 1] /\ step' = step
          ELSE IF r < Len(expected)
               THEN next' = [rule |-> r + 1, query |-> 1] /\ step' = step
               ELSE next' = [rule |-> 1, query |-> 1] /\ step' = "trigger"
      BY <1>1 DEF Metrics!Record
    <2>. HIDE DEF TestSound
    <2>3. (~(q < 3) => q = 3) /\ (~(r < Len(expected)) => r = Len(expected))
      BY <2>1
    <2>. QED  BY <2>2, <2>3
  <1>7. TestTyped'
    <2>1. r + 1 \in Rule \/ ~(r < Len(expected))
      <3>1. r \in 1 .. Len(expected) /\ Len(expected) \in Nat /\ Rule = 1 .. Len(expected)
        BY RulesNumbered
      <3>. HIDE DEF TestSound, Rule
      <3>. QED  BY <3>1
    <2>2. 1 \in Rule /\ next \in [rule : Rule, query : 1 .. 4]
      BY RulesNumbered
    <2>3. /\ next' \in [rule : Rule, query : 1 .. 4]
          /\ step' = step => next'.query # 4
          /\ step' = "trigger" => next' = [rule |-> 1, query |-> 1]
          /\ step' \in {"record", "trigger"}
      <3>. HIDE DEF TestSound, Rule, Counters
      <3>1. CASE q < 3 /\ next' = [next EXCEPT !.query = q + 1] /\ step' = step
        <4>1. next'.query = q + 1 /\ next' \in [rule : Rule, query : 1 .. 4]
          BY <3>1, <2>2
        <4>. QED  BY <4>1, <3>1, <1>5
      <3>2. CASE q = 3 /\ r < Len(expected) /\ next' = [rule |-> r + 1, query |-> 1] /\ step' = step
        BY <3>2, <2>1, <1>5
      <3>3. CASE q = 3 /\ r = Len(expected) /\ next' = [rule |-> 1, query |-> 1] /\ step' = "trigger"
        BY <3>3, <2>2
      <3>. QED  BY <3>1, <3>2, <3>3, <1>6
    <2>. QED  BY <2>3, <1>3, <1>5
  <1>8. CountersSum' /\ NoneDue'
    BY <1>5, <1>6 DEF CountersSum, Sums, NoneDue
  <1>9. ASSUME NEW s \in Rule, NEW p \in 1 .. 3, Recorded(s, p)'
        PROVE  Recorded(s, p) \/ (s = r /\ p = q)
    <2>1. r = next.rule /\ q = next.query /\ next \in [rule : Rule, query : 1 .. 4]
      BY <1>1
    <2>2. s \in 1 .. Len(expected) /\ r \in 1 .. Len(expected) /\ Len(expected) \in Nat
      BY <1>1, RulesNumbered
    <2>. HIDE DEF TestSound, TestTyped
    <2>3. CASE q < 3 /\ next' = [next EXCEPT !.query = q + 1] /\ step' = step
      <3>1. next'.rule = r /\ next'.query = q + 1
        BY <2>1, <2>3
      <3>. QED  BY <3>1, <2>1, <2>2, <2>3, <1>1, <1>5, <1>9 DEF Recorded
    <2>4. CASE q = 3 /\ r < Len(expected) /\ next' = [rule |-> r + 1, query |-> 1] /\ step' = step
      BY <2>1, <2>2, <2>4, <1>5, <1>9 DEF Recorded
    <2>5. CASE q = 3 /\ r = Len(expected) /\ next' = [rule |-> 1, query |-> 1] /\ step' = "trigger"
      BY <2>1, <2>2, <2>5, <1>5 DEF Recorded
    <2>. QED  BY <2>3, <2>4, <2>5, <1>6
  <1>10. ASSUME NEW s \in Rule \ blind' PROVE Bounded(s)'
    <2>1. CASE s # r
      BY <2>1, <1>3, <1>4, <1>5, <1>9 DEF Bounded, BaselinesBound
    <2>2. CASE s = r
      <3>1. /\ r \notin blind /\ Bounded(r) /\ CountersSum /\ NoneDue
            /\ Sums(counter[r])
        BY <2>2, <1>1, <1>4 DEF BaselinesBound, CountersSum
      <3>2. /\ counter[r] \in Counters /\ stored[r] \in Counters /\ baseline[r] \in Counters
            /\ baseline'[r] \in Counters /\ triggered[r] \in Nat /\ early[r] \in Nat /\ due[r] = 0
        BY <1>1, <1>3, <1>5 DEF NoneDue
      <3>3. \A p \in 1 .. 3 : Recorded(r, p) <=> p < q
        <4>1. r = next.rule /\ q = next.query
          BY <1>1
        <4>2. r \in 1 .. Len(expected) /\ Len(expected) \in Nat
          BY RulesNumbered
        <4>. HIDE DEF TestSound, TestTyped
        <4>. QED  BY <4>1, <4>2, <1>5 DEF Recorded
      <3>4. \A p \in 1 .. 3 : Recorded(r, p)' => p <= q
        <4>. SUFFICES ASSUME NEW p \in 1 .. 3, Recorded(r, p)' PROVE p <= q
          OBVIOUS
        <4>1. Recorded(r, p) \/ p = q
          BY <1>1, <1>9
        <4>. HIDE DEF TestSound, TestTyped
        <4>. QED  BY <4>1, <3>3, <1>1
      <3>. HIDE DEF TestSound, TestTyped
      <3>8. Bounded(r)'
        <4>8. triggered[r] = 0
          BY <3>1, <1>5 DEF NoneDue
        <4>5. CASE q = 1
          <5>1. /\ ~Recorded(r, 2)' /\ ~Recorded(r, 3)'
                /\ early'[r] = 0 /\ baseline'[r].match = counter[r].match
                /\ baseline'[r].match = stored[r].match
            BY <3>4, <4>5, <2>2, <1>1, <1>3, <1>4, <1>5
          <5>2. /\ counter'[r] = counter[r] /\ stored'[r] = stored[r] /\ due'[r] = 0
                /\ triggered'[r] = triggered[r]
            BY <3>2, <1>5
          <5>3. counter[r].match <= baseline'[r].match + triggered[r]
            BY <5>1, <3>2
          <5>4. counter'[r].match + due'[r] <= baseline'[r].match + triggered'[r]
            <6>1. counter'[r].match \in Nat /\ counter'[r].match <= baseline'[r].match + triggered[r]
              BY <5>2, <5>3, <3>2
            <6>. QED  BY <6>1, <5>2
          <5>5. stored'[r].match <= baseline'[r].match + triggered'[r]
            BY <5>1, <5>2, <3>2
          <5>. QED  BY <5>1, <5>4, <5>5 DEF Bounded
        <4>6. CASE q = 2
          <5>1. /\ ~Recorded(r, 3)' /\ Recorded(r, 1)
                /\ baseline'[r].keep = counter[r].keep /\ baseline'[r].match = baseline[r].match
            BY <3>3, <3>4, <4>6, <2>2, <1>1, <1>3, <1>4, <1>5
          <5>2. /\ counter'[r] = counter[r] /\ stored'[r] = stored[r] /\ due'[r] = 0
                /\ triggered'[r] = triggered[r] /\ early'[r] = early[r]
            BY <3>2, <1>5
          <5>3. /\ early[r] = 0 /\ counter[r].match <= baseline[r].match + triggered[r]
                /\ stored[r].match <= baseline[r].match + triggered[r]
            BY <5>1, <3>1, <3>2 DEF Bounded
          <5>4. /\ counter'[r].match + due'[r] <= baseline'[r].match + triggered'[r]
                /\ stored'[r].match <= baseline'[r].match + triggered'[r]
                /\ early'[r] = 0
            <6>1. counter'[r].match \in Nat /\ counter'[r].match <= baseline'[r].match + triggered[r]
              BY <5>1, <5>2, <5>3, <3>2
            <6>2. stored'[r].match \in Nat /\ stored'[r].match <= baseline'[r].match + triggered[r]
              BY <5>1, <5>2, <5>3, <3>2
            <6>. QED  BY <6>1, <6>2, <5>2, <5>3
          <5>5. counter[r].keep + counter[r].drop <= baseline[r].match
            BY <3>1, <3>2, <5>3, <4>8 DEF Sums
          <5>6. /\ baseline'[r].keep <= baseline'[r].match
                /\ baseline'[r].keep + counter'[r].drop <= baseline'[r].match
            BY <5>1, <5>2, <5>5, <3>2
          <5>. QED  BY <5>1, <5>4, <5>6 DEF Bounded
        <4>7. CASE q = 3
          <5>1. /\ Recorded(r, 1) /\ Recorded(r, 2)
                /\ baseline'[r].match = baseline[r].match /\ baseline'[r].keep = baseline[r].keep
                /\ baseline'[r].drop = counter[r].drop
            BY <3>3, <4>7, <2>2, <1>1, <1>3, <1>4
          <5>2. /\ counter'[r] = counter[r] /\ stored'[r] = stored[r] /\ due'[r] = 0
                /\ triggered'[r] = triggered[r] /\ early'[r] = early[r]
            BY <3>2, <1>5
          <5>3. /\ early[r] = 0 /\ counter[r].match <= baseline[r].match + triggered[r]
                /\ stored[r].match <= baseline[r].match + triggered[r]
            BY <5>1, <3>1, <3>2 DEF Bounded
          <5>4. /\ counter'[r].match + due'[r] <= baseline'[r].match + triggered'[r]
                /\ stored'[r].match <= baseline'[r].match + triggered'[r]
                /\ early'[r] = 0
            <6>1. counter'[r].match \in Nat /\ counter'[r].match <= baseline'[r].match + triggered[r]
              BY <5>1, <5>2, <5>3, <3>2
            <6>2. stored'[r].match \in Nat /\ stored'[r].match <= baseline'[r].match + triggered[r]
              BY <5>1, <5>2, <5>3, <3>2
            <6>. QED  BY <6>1, <6>2, <5>2, <5>3
          <5>6. baseline[r].keep + counter[r].drop <= baseline[r].match
            BY <5>1, <3>1, <1>5 DEF Bounded
          <5>7. /\ baseline'[r].keep <= baseline'[r].match
                /\ baseline'[r].keep + baseline'[r].drop <= baseline'[r].match
                /\ baseline'[r].keep + counter'[r].drop <= baseline'[r].match
            BY <5>1, <5>2, <5>6, <3>2
          <5>. QED  BY <5>1, <5>4, <5>7 DEF Bounded
        <4>. QED  BY <4>5, <4>6, <4>7, <1>1
      <3>. QED  BY <3>8, <2>2 DEF Bounded, Recorded
    <2>. QED  BY <2>1, <2>2
  <1>11. ReadingSound' /\ PassedSound'
    BY <1>5, <1>6 DEF ReadingSound, PassedSound
  <1>. QED  BY <1>5, <1>7, <1>8, <1>10, <1>11 DEF BaselinesBound

LEMMA TriggerKeeps == TestSound /\ Metrics!Trigger => TestSound'
  <1>. SUFFICES ASSUME TestSound, Metrics!Trigger PROVE TestSound'
    OBVIOUS
  <1>. USE DEF TestSound, TestTyped, Metrics!Trigger, Metrics!Rule, Rule
  <1>1. due' \in [Rule -> Nat] /\ triggered' = due'
    BY DEF Metrics!Traces
  <1>2. TestTyped'
    BY <1>1
  <1>3. CountersSum' /\ NoneDue' /\ ReadingSound'
    BY DEF CountersSum, Sums, NoneDue, ReadingSound
  <1>4. ASSUME NEW r \in Rule \ blind PROVE Bounded(r)'
    <2>1. /\ counter[r] \in Counters /\ stored[r] \in Counters /\ baseline[r] \in Counters
          /\ due'[r] \in Nat /\ triggered'[r] = due'[r] /\ due[r] = 0 /\ triggered[r] = 0
      BY <1>1 DEF NoneDue
    <2>2. /\ early[r] = 0 /\ baseline[r].keep + baseline[r].drop <= baseline[r].match
          /\ counter[r].match <= baseline[r].match /\ stored[r].match <= baseline[r].match
      BY <2>1 DEF BaselinesBound, Bounded, Recorded, Counters
    <2>3. /\ counter[r].match + due'[r] <= baseline[r].match + triggered'[r]
          /\ stored[r].match <= baseline[r].match + triggered'[r]
          /\ baseline[r].keep <= baseline[r].match
      BY <2>1, <2>2 DEF Counters
    <2>. QED  BY <2>2, <2>3 DEF Bounded
  <1>5. PassedSound'
    <2>1. next' = [rule |-> 1, query |-> 1] /\ step' = "assert" /\ \A r \in Rule : ~(r < 1)
      BY RulesNumbered
    <2>. QED  BY <2>1 DEF PassedSound
  <1>. QED  BY <1>2, <1>3, <1>4, <1>5 DEF BaselinesBound

\* The end of a test that has not passed.
LEMMA EndKeeps == TestSound /\ (Metrics!Abort \/ Metrics!Timeout) => TestSound'
  <1>. SUFFICES ASSUME TestSound, Metrics!Abort \/ Metrics!Timeout PROVE TestSound'
    OBVIOUS
  <1>. USE DEF TestSound, TestTyped, Metrics!Abort, Metrics!Timeout, Metrics!pipeline, Rule
  <1>1. TestTyped'
    OBVIOUS
  <1>2. CountersSum' /\ NoneDue'
    BY DEF CountersSum, Sums, NoneDue
  <1>3. ASSUME NEW r \in Rule, NEW q \in 1 .. 3, Recorded(r, q)' PROVE Recorded(r, q)
    BY <1>3 DEF Recorded
  <1>4. BaselinesBound'
    BY <1>3 DEF BaselinesBound, Bounded
  <1>5. ReadingSound' /\ PassedSound'
    BY DEF ReadingSound, PassedSound
  <1>. QED  BY <1>1, <1>2, <1>4, <1>5

\* A query of assert-delta.
LEMMA AskKeeps == TestSound /\ Metrics!Ask => TestSound'
  <1>. SUFFICES ASSUME TestSound, Metrics!Ask PROVE TestSound'
    OBVIOUS
  <1>. USE DEF TestSound, TestTyped, Metrics!pipeline, Rule
  <1>1. PICK r \in Rule, q \in 1 .. 3, m \in {"match", "keep", "drop"} :
          /\ r = next.rule /\ q = next.query /\ m = Metrics!Metric[q]
          /\ q = 1 => m = "match"
          /\ q = 2 => m = "keep"
          /\ q = 3 => m = "drop"
    <2>1. next.rule \in Rule /\ next.query \in 1 .. 3
      BY DEF Metrics!Ask
    <2>2. next.query = 1 \/ next.query = 2 \/ next.query = 3
      BY <2>1
    <2>. QED  BY <2>1, <2>2 DEF Metrics!Metric
  <1>2. PICK a \in Metrics!Answers(r, q) :
          /\ current' = [current EXCEPT ![m] = a.value]
          /\ torn' = (~a.ok \/ (torn /\ q > 1))
    BY <1>1 DEF Metrics!Ask
  <1>3. /\ a.value \in Nat /\ a.value <= stored[r][m]
        /\ a.ok => a.value = stored[r][m]
        /\ ~torn' => a.ok /\ (q > 1 => ~torn)
        /\ torn' \in BOOLEAN
    <2>1. a = [value |-> stored[r][m], ok |-> TRUE] \/ a = [value |-> 0, ok |-> FALSE]
      BY <1>1 DEF Metrics!Answers
    <2>2. stored[r][m] \in Nat
      BY DEF Counters
    <2>3. ~torn' => a.ok /\ (q > 1 => ~torn)
      BY <1>2, Zenon
    <2>4. torn' \in BOOLEAN
      BY <1>2, Zenon
    <2>5. CASE a = [value |-> stored[r][m], ok |-> TRUE]
      BY <2>2, <2>3, <2>4, <2>5
    <2>6. CASE a = [value |-> 0, ok |-> FALSE]
      BY <2>2, <2>3, <2>4, <2>6
    <2>. QED  BY <2>1, <2>5, <2>6
  <1>4. /\ step = "assert" /\ next' = [next EXCEPT !.query = q + 1]
        /\ scraped' = IF q = 1 THEN stored[r] ELSE scraped
        /\ UNCHANGED <<expected, counter, early, due, stored, step, baseline, triggered, blind>>
    BY <1>1 DEF Metrics!Ask
  <1>5. /\ current' \in Counters /\ current'[m] = a.value
        /\ \A n \in {"match", "keep", "drop"} \ {m} : current'[n] = current[n]
        /\ scraped' \in Counters
        /\ next' \in [rule : Rule, query : 1 .. 4] /\ next'.rule = r /\ next'.query = q + 1
    <2>1. current \in Counters /\ scraped \in Counters /\ stored[r] \in Counters
      OBVIOUS
    <2>2. next \in [rule : Rule, query : 1 .. 4] /\ r = next.rule
      BY <1>1
    <2>. HIDE DEF TestSound, Rule
    <2>3. /\ current' \in Counters /\ current'[m] = a.value
          /\ \A n \in {"match", "keep", "drop"} \ {m} : current'[n] = current[n]
      BY <1>2, <1>3, <2>1 DEF Counters
    <2>4. next' \in [rule : Rule, query : 1 .. 4] /\ next'.rule = r /\ next'.query = q + 1
      BY <1>4, <2>2
    <2>. QED  BY <1>4, <2>1, <2>3, <2>4
  <1>6. TestTyped'
    BY <1>3, <1>4, <1>5
  <1>7. CountersSum' /\ NoneDue'
    BY <1>1, <1>4 DEF CountersSum, NoneDue
  <1>8. BaselinesBound'
    BY <1>4 DEF BaselinesBound, Bounded, Recorded
  <1>9. PassedSound'
    BY <1>1, <1>4, <1>5 DEF PassedSound
  <1>10. ReadingSound'
    <2>3. /\ stored[r] \in Counters /\ current \in Counters /\ scraped \in Counters
          /\ q \in 1 .. 3
      OBVIOUS
    <2>1. r \notin blind => current'.match <= baseline[r].match + triggered[r]
      <3>. SUFFICES ASSUME r \notin blind
                    PROVE  current'.match <= baseline[r].match + triggered[r]
        OBVIOUS
      <3>1. CASE q = 1
        <4>1. current'.match <= stored[r].match /\ current'.match \in Nat
          BY <3>1, <1>1, <1>3, <1>5 DEF Counters
        <4>2. /\ stored[r].match <= baseline[r].match + triggered[r]
              /\ stored[r].match \in Nat /\ baseline[r].match \in Nat /\ triggered[r] \in Nat
          BY <1>4 DEF BaselinesBound, Bounded, Recorded, Counters
        <4>. QED  BY <4>1, <4>2
      <3>2. CASE q > 1
        BY <3>2, <1>1, <1>4, <1>5 DEF ReadingSound
      <3>. QED  BY <3>1, <3>2, <2>3
    <2>2. ASSUME ~torn'
          PROVE  /\ current'.match = scraped'.match
                 /\ \A n \in {"keep", "drop"} : scraped'[n] <= stored[r][n]
                 /\ q + 1 > 2 => scraped'.keep <= current'.keep
                 /\ q + 1 > 3 => scraped'.drop <= current'.drop
      <3>1. CASE q = 1
        BY <3>1, <2>2, <2>3, <1>1, <1>3, <1>4, <1>5 DEF Counters
      <3>2. ASSUME q > 1
            PROVE  /\ current.match = scraped.match /\ scraped' = scraped
                   /\ \A n \in {"keep", "drop"} : scraped[n] <= stored[r][n]
                   /\ q > 2 => scraped.keep <= current.keep
        BY <3>2, <2>2, <1>1, <1>3, <1>4 DEF ReadingSound
      <3>3. CASE q = 2
        BY <3>2, <3>3, <2>2, <2>3, <1>1, <1>3, <1>5 DEF Counters
      <3>4. CASE q = 3
        <4>1. /\ m = "drop" /\ a.value = stored[r].drop /\ q > 2
              /\ stored[r].drop \in Nat /\ stored[r].keep \in Nat
          BY <3>4, <2>2, <2>3, <1>1, <1>3 DEF Counters
        <4>2. /\ current'.match = current.match /\ current'.keep = current.keep
              /\ current'.drop = stored[r].drop
          BY <4>1, <1>5
        <4>. QED  BY <3>2, <3>4, <4>1, <4>2
      <3>. QED  BY <3>1, <3>3, <3>4, <2>3
    <2>. QED  BY <2>1, <2>2, <1>4, <1>5 DEF ReadingSound
  <1>. QED  BY <1>6, <1>7, <1>8, <1>9, <1>10

\* A rule that passes has matched what it expects.
LEMMA PassedHasMatched ==
  ASSUME TestSound, Metrics!Read, Metrics!Passes(next.rule, current), next.rule \notin blind
  PROVE  triggered[next.rule] >= expected[next.rule].match
  <1>. DEFINE r == next.rule
  <1>1. /\ r \in Rule /\ current.match \in Nat /\ baseline[r].match \in Nat
        /\ triggered[r] \in Nat
    BY DEF TestSound, TestTyped, Counters
  <1>2. expected[r].match \in Nat
    BY <1>1, RulesNumbered DEF TestSound, TestTyped
  <1>3. current.match <= baseline[r].match + triggered[r]
    BY DEF TestSound, ReadingSound, Metrics!Read
  <1>4. current.match - baseline[r].match = expected[r].match
    BY DEF Metrics!Passes, Metrics!Delta
  <1>. QED  BY <1>1, <1>2, <1>3, <1>4

\* Leaves the readings of a rule for those of another.
LEMMA FromKeeps ==
  ASSUME TestSound, NEW r \in Rule, Metrics!From(r),
         step = "assert", step' \in {"assert", "passed"},
         \A s \in Rule \ blind :
           (step' = "passed" \/ s < r) => triggered[s] >= expected[s].match,
         UNCHANGED <<expected, counter, early, due, stored, baseline, triggered, blind>>
  PROVE  TestSound'
  <1>. USE DEF TestSound, TestTyped, Metrics!From, Metrics!Zero, Rule, Counters
  <1>1. next' = [rule |-> r, query |-> 1] /\ next'.rule = r /\ next'.query = 1
    OBVIOUS
  <1>2. TestTyped'
    <2>1. /\ current' \in Counters /\ scraped' \in Counters /\ torn' \in BOOLEAN
      OBVIOUS
    <2>3. next' \in [rule : Rule, query : 1 .. 4]
      <3>. HIDE DEF TestSound, Rule
      <3>. QED  BY <1>1
    <2>2. step' # "record" /\ step' # "trigger"
      OBVIOUS
    <2>. QED  BY <2>1, <2>2, <2>3
  <1>3. CountersSum' /\ NoneDue'
    BY DEF CountersSum, Sums, NoneDue
  <1>4. BaselinesBound'
    BY DEF BaselinesBound, Bounded, Recorded
  <1>5. ReadingSound'
    BY <1>1 DEF ReadingSound
  <1>6. PassedSound'
    BY <1>1 DEF PassedSound
  <1>. QED  BY <1>2, <1>3, <1>4, <1>5, <1>6

LEMMA UnresolvedKeeps == TestSound /\ Metrics!Unresolved => TestSound'
  <1>. SUFFICES ASSUME TestSound, Metrics!Unresolved PROVE TestSound'
    OBVIOUS
  <1>1. /\ Metrics!From(1) /\ step = "assert" /\ step' = "assert"
        /\ UNCHANGED <<expected, counter, early, due, stored, baseline, triggered, blind>>
    BY DEF Metrics!Unresolved, Metrics!pipeline
  <1>2. 1 \in Rule /\ \A s \in Rule : ~(s < 1)
    BY RulesNumbered DEF TestSound, TestTyped
  <1>. QED  BY <1>1, <1>2, FromKeeps

LEMMA VerdictKeeps == TestSound /\ Metrics!Verdict => TestSound'
  <1>. SUFFICES ASSUME TestSound, Metrics!Verdict PROVE TestSound'
    OBVIOUS
  <1>. DEFINE r == next.rule
  <1>1. /\ Metrics!Read /\ step = "assert"
        /\ UNCHANGED <<expected, counter, early, due, stored, baseline, triggered, blind>>
    BY DEF Metrics!Verdict, Metrics!Read, Metrics!pipeline
  <1>2. /\ Rule = 1 .. Len(expected) /\ Len(expected) \in Nat \ {0} /\ r \in 1 .. Len(expected)
        /\ 1 \in Rule /\ \A s \in Rule : ~(s < 1)
    BY RulesNumbered DEF TestSound, TestTyped
  <1>3. \A s \in Rule \ blind : s < r => triggered[s] >= expected[s].match
    BY <1>1 DEF TestSound, PassedSound
  <1>4. CASE ~Metrics!Passes(r, current)
    <2>1. Metrics!From(1) /\ step' = "assert"
      BY <1>1, <1>4 DEF Metrics!Verdict
    <2>. QED  BY <2>1, <1>1, <1>2, FromKeeps
  <1>5. CASE Metrics!Passes(r, current) /\ r < Len(expected)
    <2>1. Metrics!From(r + 1) /\ step' = "assert"
      BY <1>1, <1>5 DEF Metrics!Verdict
    <2>2. r + 1 \in Rule /\ \A s \in Rule : s < r + 1 => s < r \/ s = r
      BY <1>2, <1>5
    <2>3. \A s \in Rule \ blind : s < r + 1 => triggered[s] >= expected[s].match
      BY <2>2, <1>1, <1>3, <1>5, PassedHasMatched
    <2>. QED  BY <2>1, <2>2, <2>3, <1>1, FromKeeps
  <1>6. CASE Metrics!Passes(r, current) /\ ~(r < Len(expected))
    <2>1. Metrics!From(1) /\ step' = "passed"
      BY <1>6 DEF Metrics!Verdict
    <2>2. \A s \in Rule : s < r \/ s = r
      BY <1>2, <1>6
    <2>3. \A s \in Rule \ blind : triggered[s] >= expected[s].match
      BY <2>2, <1>1, <1>3, <1>6, PassedHasMatched
    <2>. QED  BY <2>1, <2>3, <1>1, <1>2, FromKeeps
  <1>. QED  BY <1>4, <1>5, <1>6

LEMMA TestStepKeeps == TestSound /\ Metrics!Next => TestSound'
  BY CountKeeps, ScrapeKeeps, RestartKeeps, RecordKeeps, TriggerKeeps, EndKeeps, AskKeeps,
     UnresolvedKeeps, VerdictKeeps DEF Metrics!Next, Metrics!Rule, Rule

LEMMA TestIdleKeeps == TestSound /\ UNCHANGED testVars => TestSound'
  BY DEF TestSound, testVars, TestTyped, CountersSum, Sums, NoneDue, BaselinesBound, Bounded,
         Recorded, ReadingSound, PassedSound, Rule, Counters

LEMMA TestSoundEarnsPass == TestSound => PassIsEarned
  <1>. SUFFICES ASSUME TestSound PROVE Metrics!NothingMissed /\ Metrics!OneScrape
    BY DEF PassIsEarned
  <1>1. Metrics!NothingMissed
    BY DEF TestSound, PassedSound, Metrics!NothingMissed, Metrics!Rule, Rule
  <1>2. ASSUME Metrics!Read, Metrics!Passes(next.rule, current), next.rule \notin blind, ~torn
        PROVE  current = scraped
    <2>. DEFINE r == next.rule
                b == baseline[r]
    <2>1. /\ r \in Rule /\ current \in Counters /\ scraped \in Counters /\ b \in Counters
      BY DEF TestSound, TestTyped
    <2>2. b.keep + b.drop <= b.match
      BY <1>2, <2>1 DEF TestSound, BaselinesBound, Bounded, Recorded, Metrics!Read
    <2>3. /\ current.match = scraped.match /\ scraped.keep <= current.keep
          /\ scraped.drop <= current.drop
      BY <1>2 DEF TestSound, ReadingSound, Metrics!Read
    <2>4. scraped.match = scraped.keep + scraped.drop
      BY DEF TestSound, CountersSum, Sums
    <2>5. (current.keep - b.keep) + (current.drop - b.drop) = current.match - b.match
      BY <1>2 DEF Metrics!Passes, Metrics!Delta
    <2>. HIDE DEF r, b
    <2>6. current.keep = scraped.keep /\ current.drop = scraped.drop
      BY <2>1, <2>2, <2>3, <2>4, <2>5 DEF Counters
    <2>. QED  BY <2>1, <2>3, <2>6 DEF Counters
  <1>3. Metrics!OneScrape
    BY <1>2, Zenon DEF Metrics!OneScrape
  <1>. QED  BY <1>1, <1>3

\* A run of the metrics test that ends in PASSED for every rule has seen what it expects,
\* for any number of rules and traces, failed queries and restarts of the collector.
THEOREM PassEarned == ScenarioSpec => []PassIsEarned
  <1>1. ScenarioInit => TestSound
    BY TestStarts DEF ScenarioInit
  <1>2. TestSound /\ [ScenarioNext]_<<side, vars, testVars>> => TestSound'
    BY TestStepKeeps, TestIdleKeeps DEF ScenarioNext, ServerStep, TestStep
  <1>. QED  BY <1>1, <1>2, TestSoundEarnsPass, PTL DEF ScenarioSpec

-----------------------------------------------------------------------------
(* The server *)

Span == [handled : Nat, failed : Nat]

\* A step of client c leaves the others alone.
Only(c) ==
  /\ lang' = lang /\ server' = server
  /\ request' \in [Client -> Requests \union {NoRequest}]
  /\ state' \in [Client -> Place] /\ level' \in [Client -> Nat]
  /\ status' \in [Client -> Nat] /\ negation' \in [Client -> BOOLEAN]
  /\ spans' \in [Client -> Span]
  /\ \A d \in Client \ {c} :
       /\ request'[d] = request[d] /\ state'[d] = state[d] /\ level'[d] = level[d]
       /\ status'[d] = status[d] /\ negation'[d] = negation[d] /\ spans'[d] = spans[d]

LEMMA OthersKept ==
  ASSUME NEW c \in Client, Only(c), \A d \in Client : ChainSound(d), ChainSound(c)'
  PROVE  \A d \in Client : ChainSound(d)'
  <1>. SUFFICES ASSUME NEW d \in Client, d # c PROVE ChainSound(d)'
    BY DEF ChainSound, OnItsWay
  <1>. QED  BY DEF Only, ChainSound, OnItsWay

\* A step that neither touches the flag nor brings anybody to it.
LEMMA FlagKept ==
  ASSUME FlagSound, lang' = lang, toggle' = toggle, alternate' = alternate,
         \A d \in Client : InAlternate(d)' =>
           /\ InAlternate(d) /\ state'[d] = state[d] /\ status'[d] = status[d]
           /\ negation'[d] = negation[d]
  PROVE  FlagSound'
  <1>1. Balanced' <=> Balanced
    BY DEF Balanced
  <1>2. ASSUME NEW c \in Client, InAlternate(c)', Alone(c) PROVE Alone(c)'
    BY <1>2 DEF Alone, ToggleStatus
  <1>. QED  BY <1>1, <1>2 DEF FlagSound

LEMMA RequestKeeps ==
  ASSUME ServerSound, NEW c \in Client, NEW r \in Requests, Request(c, r)
  PROVE  ServerSound'
  <1>. USE DEF ServerSound, ServerTyped, Request
  <1>1. r.hops \in Nat \ {0} /\ r.hops \in 1 .. r.hops
    BY BoundAssumption DEF Requests
  <1>2. Only(c) /\ spans'[c] = spans[c]
    BY <1>1 DEF Only, Span, Place
  <1>3. request'[c] = r /\ state'[c] = "sent" /\ level'[c] = r.hops
    OBVIOUS
  <1>4. ChainSound(c)'
    BY <1>1, <1>2, <1>3 DEF ChainSound, OnItsWay, Span
  <1>5. FlagSound'
    BY <1>2, <1>3, FlagKept DEF Only, InAlternate
  <1>. QED  BY <1>2, <1>4, <1>5, OthersKept DEF Only, Span

LEMMA AcceptKeeps ==
  ASSUME ServerSound, NEW c \in Client, Accept(c)
  PROVE  ServerSound'
  <1>. USE DEF ServerSound, ServerTyped
  <1>1. /\ state[c] = "sent" /\ state' = [state EXCEPT ![c] = "handling"]
        /\ spans' = [spans EXCEPT ![c].handled = @ + 1]
        /\ UNCHANGED <<lang, server, toggle, request, level, status, negation>>
    BY DEF Accept
  <1>2. Only(c) /\ spans'[c] = [spans[c] EXCEPT !.handled = @ + 1] /\ state'[c] = "handling"
    BY <1>1 DEF Only, Span, Place
  <1>3. ChainSound(c)'
    <2>1. /\ request[c] \in Requests /\ level[c] \in 1 .. request[c].hops
          /\ spans[c] \in Span /\ request[c].hops \in Nat
      BY <1>1, BoundAssumption DEF ChainSound, Span, Requests
    <2>2. spans'[c].handled = spans[c].handled + 1 /\ spans'[c].failed = spans[c].failed
      BY <1>2, <2>1 DEF Span
    <2>. QED  BY <1>1, <1>2, <2>1, <2>2 DEF ChainSound, OnItsWay, Span
  <1>4. PICK b \in BOOLEAN :
          /\ alternate' = [alternate EXCEPT !.overlap = b]
          /\ b <=> (alternate.overlap
                    \/ (request[c].path = "/alternate" /\ \E d \in Client : InAlternate(d)))
    BY DEF Accept
  <1>5. /\ alternate' \in [ok : Nat, error : Nat, overlap : BOOLEAN]
        /\ alternate'.ok = alternate.ok /\ alternate'.error = alternate.error
        /\ alternate'.overlap = b
    BY <1>4
  <1>6. FlagSound'
    <2>1. Balanced' <=> Balanced
      BY <1>1, <1>5 DEF Balanced
    <2>2. ASSUME lang # "node", ~b, NEW d \in Client, InAlternate(d)'
          PROVE  Alone(d)'
      <3>1. ~alternate.overlap /\ (request[c].path = "/alternate" => \A e \in Client : ~InAlternate(e))
        BY <1>4, <2>2
      <3>2. CASE request[c].path = "/alternate"
        BY <1>1, <1>2, <2>2, <3>1, <3>2 DEF Alone, InAlternate, Only
      <3>3. CASE request[c].path # "/alternate"
        <4>1. Alone(d) /\ d # c
          BY <1>1, <2>2, <3>1, <3>3 DEF FlagSound, InAlternate, Only
        <4>. QED  BY <1>1, <1>2, <3>3, <4>1 DEF Alone, InAlternate, Only, ToggleStatus
      <3>. QED  BY <3>2, <3>3
    <2>. QED  BY <2>1, <2>2, <1>1, <1>4, <1>5 DEF FlagSound
  <1>. QED  BY <1>1, <1>2, <1>3, <1>5, <1>6, OthersKept DEF Only, Span

LEMMA Responded ==
  ASSUME ServerTyped, NEW c \in Client, NEW code \in Nat, Respond(c, code)
  PROVE  /\ state' \in [Client -> Place] /\ status' \in [Client -> Nat]
         /\ spans' \in [Client -> Span]
         /\ state'[c] = "answered" /\ status'[c] = code
         /\ spans'[c].handled = spans[c].handled
         /\ spans'[c].failed = spans[c].failed + (IF code >= 500 THEN 1 ELSE 0)
         /\ \A d \in Client \ {c} :
              state'[d] = state[d] /\ status'[d] = status[d] /\ spans'[d] = spans[d]
  <1>1. spans[c] \in Span /\ spans \in [Client -> Span]
    BY DEF ServerTyped, Span
  <1>. DEFINE n == IF code >= 500 THEN spans[c].failed + 1 ELSE spans[c].failed
  <1>2. n \in Nat /\ n = spans[c].failed + (IF code >= 500 THEN 1 ELSE 0)
    BY <1>1 DEF Span
  <1>3. spans' = [spans EXCEPT ![c].failed = n]
    BY DEF Respond
  <1>. HIDE DEF n
  <1>4. /\ spans' \in [Client -> Span] /\ spans'[c].handled = spans[c].handled
        /\ spans'[c].failed = n /\ \A d \in Client \ {c} : spans'[d] = spans[d]
    BY <1>1, <1>2, <1>3 DEF Span
  <1>. QED  BY <1>2, <1>4 DEF Respond, ServerTyped, Place

\* A step after which its client does not go through the flag, which stays as it is.
LEMMA ChainKeeps ==
  ASSUME ServerSound, NEW c \in Client, Only(c), ChainSound(c)', ~InAlternate(c)',
         UNCHANGED <<toggle, alternate>>
  PROVE  ServerSound'
  <1>1. FlagSound'
    BY FlagKept DEF Only, InAlternate, ServerSound
  <1>2. ServerTyped'
    BY DEF ServerSound, ServerTyped, Only, Span
  <1>. QED  BY <1>1, <1>2, OthersKept DEF ServerSound

LEMMA FinalHopKeeps ==
  ASSUME ServerSound, NEW c \in Client, FinalHop(c)
  PROVE  ServerSound'
  <1>1. /\ state[c] = "handling" /\ level[c] = 1 /\ request[c].path # "/alternate"
        /\ Respond(c, FinalStatus(c)) /\ FinalStatus(c) \in {200, 500}
        /\ UNCHANGED <<lang, server, toggle, request, level, negation, alternate>>
    BY DEF FinalHop, FinalStatus
  <1>2. Only(c)
    BY <1>1, Responded DEF Only, ServerSound, ServerTyped
  <1>3. request[c] \in Requests /\ request[c].hops \in Nat /\ spans[c] \in Span
    BY <1>1, BoundAssumption DEF ServerSound, ServerTyped, ChainSound, Requests, Span
  <1>4. ChainSound(c)'
    <2>1. /\ state'[c] = "answered" /\ status'[c] = FinalStatus(c)
          /\ spans'[c].handled = spans[c].handled
          /\ spans'[c].failed = spans[c].failed + (IF FinalStatus(c) >= 500 THEN 1 ELSE 0)
      BY <1>1, Responded DEF ServerSound
    <2>2. /\ FinalFails(request[c]) => FinalStatus(c) = 500
          /\ ~FinalFails(request[c]) => FinalStatus(c) = 200
      BY DEF FinalStatus, FinalFails, shouldReturnError
    <2>3. ASSUME server = "up"
          PROVE  /\ spans'[c].handled = request[c].hops
                 /\ spans'[c].failed = FailedUpTo(request[c], 1)
                 /\ status'[c] = StatusAt(request[c], 1)
      <3>1. spans[c].handled = request[c].hops /\ spans[c].failed = 0
        BY <1>1, <1>3, <2>3 DEF ServerSound, ChainSound, OnItsWay
      <3>. QED  BY <2>1, <2>2, <3>1 DEF FailedUpTo, StatusAt
    <2>. QED  BY <1>1, <1>3, <2>1, <2>3 DEF ChainSound, OnItsWay, ServerSound
  <1>5. ~InAlternate(c)'
    BY <1>1 DEF InAlternate
  <1>. QED  BY <1>1, <1>2, <1>4, <1>5, ChainKeeps

LEMMA NextHopKeeps ==
  ASSUME ServerSound, NEW c \in Client, NextHop(c)
  PROVE  ServerSound'
  <1>1. /\ state[c] = "handling" /\ level[c] > 1
        /\ level' = [level EXCEPT ![c] = @ - 1] /\ state' = [state EXCEPT ![c] = "sent"]
        /\ UNCHANGED <<lang, server, toggle, request, status, negation, spans, alternate>>
    BY DEF NextHop
  <1>2. /\ request[c] \in Requests /\ request[c].hops \in Nat /\ spans[c] \in Span
        /\ level[c] \in 1 .. request[c].hops
    BY <1>1, BoundAssumption DEF ServerSound, ServerTyped, ChainSound, Requests, Span
  <1>3. /\ level'[c] = level[c] - 1 /\ state'[c] = "sent" /\ level'[c] \in 1 .. request[c].hops
    BY <1>1, <1>2 DEF ServerSound, ServerTyped
  <1>4. Only(c)
    BY <1>1, <1>2, <1>3 DEF Only, ServerSound, ServerTyped, Place, Span
  <1>5. ChainSound(c)'
    BY <1>1, <1>2, <1>3 DEF ServerSound, ChainSound, OnItsWay, Span
  <1>6. ~InAlternate(c)'
    BY <1>3 DEF InAlternate
  <1>. QED  BY <1>1, <1>4, <1>5, <1>6, ChainKeeps

LEMMA ResumeKeeps ==
  ASSUME ServerSound, NEW c \in Client, Resume(c)
  PROVE  ServerSound'
  <1>1. /\ state[c] = "answered" /\ level[c] < request[c].hops
        /\ level' = [level EXCEPT ![c] = @ + 1]
        /\ Respond(c, HopStatus(c)) /\ HopStatus(c) \in {200, 500}
        /\ UNCHANGED <<lang, server, toggle, request, negation, alternate>>
    BY DEF Resume, HopStatus
  <1>2. /\ request[c] \in Requests /\ request[c].hops \in Nat /\ spans[c] \in Span
        /\ level[c] \in 1 .. request[c].hops
    BY <1>1, BoundAssumption DEF ServerSound, ServerTyped, ChainSound, Requests, Span
  <1>3. level'[c] = level[c] + 1 /\ level'[c] \in 1 .. request[c].hops
    BY <1>1, <1>2 DEF ServerSound, ServerTyped
  <1>4. Only(c)
    BY <1>1, <1>2, Responded DEF Only, ServerSound, ServerTyped
  <1>5. ChainSound(c)'
    <2>1. /\ state'[c] = "answered" /\ status'[c] = HopStatus(c)
          /\ spans'[c].handled = spans[c].handled
          /\ spans'[c].failed = spans[c].failed + (IF HopStatus(c) >= 500 THEN 1 ELSE 0)
      BY <1>1, Responded DEF ServerSound
    <2>2. /\ HopsFail(request[c]) => HopStatus(c) = 500
          /\ ~HopsFail(request[c]) => HopStatus(c) = 200
      BY DEF HopStatus, HopsFail, shouldReturnError
    <2>3. ASSUME server = "up", request[c].path # "/alternate"
          PROVE  /\ spans'[c].handled = request[c].hops
                 /\ spans'[c].failed = FailedUpTo(request[c], level'[c])
                 /\ status'[c] = StatusAt(request[c], level'[c])
      <3>1. /\ spans[c].handled = request[c].hops
            /\ spans[c].failed = FailedUpTo(request[c], level[c])
        BY <1>1, <1>2, <2>3 DEF ServerSound, ChainSound, OnItsWay
      <3>2. spans'[c].failed = FailedUpTo(request[c], level[c] + 1)
        BY <1>2, <2>1, <2>2, <3>1 DEF FailedUpTo
      <3>3. status'[c] = StatusAt(request[c], level[c] + 1)
        BY <1>2, <2>1, <2>2 DEF StatusAt
      <3>. QED  BY <1>3, <2>1, <3>1, <3>2, <3>3
    <2>. QED  BY <1>1, <1>2, <1>3, <2>1, <2>3 DEF ChainSound, OnItsWay, ServerSound
  <1>6. ~InAlternate(c)'
    BY <1>1, Responded DEF InAlternate, ServerSound
  <1>. QED  BY <1>1, <1>4, <1>5, <1>6, ChainKeeps

LEMMA OverKeeps ==
  ASSUME ServerSound, NEW c \in Client, Over(c),
         UNCHANGED <<lang, server, toggle, alternate>>
  PROVE  ServerSound'
  <1>. USE DEF ServerSound, ServerTyped, Over
  <1>1. Only(c) /\ state'[c] = "idle" /\ spans'[c] = [handled |-> 0, failed |-> 0]
        /\ request'[c] = NoRequest
    BY DEF Only, Span, Place
  <1>2. ChainSound(c)'
    BY <1>1 DEF ChainSound, OnItsWay
  <1>3. FlagSound'
    BY <1>1, FlagKept DEF Only, InAlternate
  <1>. QED  BY <1>1, <1>2, <1>3, OthersKept DEF Only, Span

LEMMA RefusedKeeps ==
  ASSUME ServerSound, NEW c \in Client, Refused(c)
  PROVE  ServerSound'
  <1>1. UNCHANGED <<lang, server, toggle, alternate>> /\ server = "stopping" /\ state[c] = "sent"
    BY DEF Refused
  <1>2. CASE level[c] < request[c].hops
    <2>1. /\ level' = [level EXCEPT ![c] = @ + 1] /\ Respond(c, 502)
          /\ UNCHANGED <<request, negation>>
      BY <1>2 DEF Refused
    <2>2. /\ request[c] \in Requests /\ request[c].hops \in Nat
          /\ level[c] \in 1 .. request[c].hops
      BY <1>1, BoundAssumption DEF ServerSound, ServerTyped, ChainSound, Requests
    <2>3. level'[c] = level[c] + 1 /\ level'[c] \in 1 .. request[c].hops /\ state'[c] = "answered"
      BY <1>2, <2>1, <2>2, Responded DEF ServerSound, ServerTyped
    <2>4. Only(c)
      BY <1>1, <2>1, <2>2, Responded DEF Only, ServerSound, ServerTyped
    <2>5. ChainSound(c)' /\ ~InAlternate(c)'
      BY <1>1, <2>1, <2>2, <2>3 DEF ChainSound, InAlternate
    <2>. QED  BY <1>1, <2>4, <2>5, ChainKeeps
  <1>3. CASE ~(level[c] < request[c].hops)
    BY <1>1, <1>3, OverKeeps DEF Refused
  <1>. QED  BY <1>2, <1>3

\* The answer of /alternate, and the negation of the flag.
LEMMA AlternateAnswers ==
  ASSUME ServerTyped, NEW code, code = ToggleStatus, Alternated(code), toggle' = ~toggle
  PROVE  /\ alternate' \in [ok : Nat, error : Nat, overlap : BOOLEAN]
         /\ alternate'.overlap = alternate.overlap
         /\ Balanced => Balanced'
  <1>1. alternate \in [ok : Nat, error : Nat, overlap : BOOLEAN]
    BY DEF ServerTyped
  <1>2. CASE toggle
    <2>1. alternate' = [alternate EXCEPT !.error = @ + 1] /\ ~toggle'
      BY <1>2, Zenon DEF Alternated, ToggleStatus
    <2>. QED  BY <1>1, <1>2, <2>1 DEF Balanced
  <1>3. CASE ~toggle
    <2>1. code = 200 /\ toggle'
      BY <1>3, Zenon DEF ToggleStatus
    <2>2. alternate' = [alternate EXCEPT !.ok = @ + 1]
      BY <2>1 DEF Alternated
    <2>. QED  BY <1>1, <1>3, <2>1, <2>2 DEF Balanced
  <1>. QED  BY <1>2, <1>3

LEMMA AlternateNodeKeeps ==
  ASSUME ServerSound, NEW c \in Client, AlternateNode(c)
  PROVE  ServerSound'
  <1>1. /\ lang = "node" /\ request[c].path = "/alternate" /\ state[c] = "handling"
        /\ toggle' = ~toggle
        /\ Respond(c, ToggleStatus) /\ ToggleStatus \in {200, 500} /\ Alternated(ToggleStatus)
        /\ UNCHANGED <<lang, server, request, level, negation>>
    BY DEF AlternateNode, Alternating, ToggleStatus
  <1>2. Only(c) /\ state'[c] = "answered"
    BY <1>1, Responded DEF Only, ServerSound, ServerTyped
  <1>3. ChainSound(c)'
    BY <1>1, <1>2 DEF ChainSound, ServerSound
  <1>4. /\ alternate' \in [ok : Nat, error : Nat, overlap : BOOLEAN]
        /\ Balanced => Balanced'
    BY <1>1, AlternateAnswers DEF ServerSound
  <1>5. toggle' \in BOOLEAN
    BY <1>1, Zenon
  <1>6. FlagSound'
    BY <1>1, <1>4 DEF FlagSound, ServerSound
  <1>7. ServerTyped'
    BY <1>2, <1>4, <1>5 DEF ServerSound, ServerTyped, Only, Span
  <1>. QED  BY <1>2, <1>3, <1>6, <1>7, OthersKept DEF ServerSound

LEMMA ReadFlagKeeps ==
  ASSUME ServerSound, NEW c \in Client, ReadFlag(c)
  PROVE  ServerSound'
  <1>1. /\ lang = "python" /\ request[c].path = "/alternate" /\ state[c] = "handling"
        /\ status' = [status EXCEPT ![c] = ToggleStatus] /\ ToggleStatus \in {200, 500}
        /\ state' = [state EXCEPT ![c] = "read"]
        /\ UNCHANGED <<lang, server, toggle, request, level, negation, spans, alternate>>
    BY DEF ReadFlag, Alternating, ToggleStatus
  <1>2. Only(c) /\ state'[c] = "read" /\ status'[c] = ToggleStatus
    BY <1>1 DEF Only, ServerSound, ServerTyped, Place, Span
  <1>3. ChainSound(c)'
    BY <1>1, <1>2 DEF ChainSound, ServerSound
  <1>4. FlagSound'
    <2>1. Balanced' <=> Balanced
      BY <1>1 DEF Balanced
    <2>2. ASSUME ~alternate.overlap, NEW d \in Client, InAlternate(d)' PROVE Alone(d)'
      <3>1. Alone(c)
        BY <1>1, <2>2 DEF ServerSound, FlagSound, InAlternate
      <3>2. \A e \in Client : InAlternate(e)' => InAlternate(e)
        BY <1>1, <1>2 DEF InAlternate, Only
      <3>3. d = c
        BY <2>2, <3>1, <3>2 DEF Alone
      <3>4. ToggleStatus' = ToggleStatus
        BY <1>1 DEF ToggleStatus
      <3>. QED  BY <1>2, <3>1, <3>2, <3>3, <3>4 DEF Alone, InAlternate
    <2>. QED  BY <1>1, <2>1, <2>2 DEF ServerSound, FlagSound
  <1>5. ServerTyped'
    BY <1>1, <1>2 DEF ServerSound, ServerTyped, Only, Span
  <1>. QED  BY <1>2, <1>3, <1>4, <1>5, OthersKept DEF ServerSound

LEMMA NegateFlagKeeps ==
  ASSUME ServerSound, NEW c \in Client, NegateFlag(c)
  PROVE  ServerSound'
  <1>1. /\ \/ lang = "python" /\ state[c] = "read"
           \/ lang = "java" /\ state[c] = "handling"
        /\ request[c].path = "/alternate"
        /\ negation' = [negation EXCEPT ![c] = ~toggle]
        /\ state' = [state EXCEPT ![c] = "negated"]
        /\ UNCHANGED <<lang, server, toggle, request, level, status, spans, alternate>>
    BY DEF NegateFlag, Alternating
  <1>2. PICK b \in BOOLEAN : b <=> ~toggle
    OBVIOUS
  <1>3. negation' = [negation EXCEPT ![c] = b]
    BY <1>1, <1>2
  <1>4. Only(c) /\ state'[c] = "negated" /\ negation'[c] = b
    BY <1>1, <1>3 DEF Only, ServerSound, ServerTyped, Place, Span
  <1>5. ChainSound(c)'
    BY <1>1, <1>4 DEF ChainSound, ServerSound
  <1>6. FlagSound'
    <2>1. Balanced' <=> Balanced
      BY <1>1 DEF Balanced
    <2>2. ASSUME ~alternate.overlap, NEW d \in Client, InAlternate(d)' PROVE Alone(d)'
      <3>1. Alone(c)
        BY <1>1, <2>2 DEF ServerSound, FlagSound, InAlternate
      <3>2. \A e \in Client : InAlternate(e)' => InAlternate(e)
        BY <1>1, <1>4 DEF InAlternate, Only
      <3>3. d = c
        BY <2>2, <3>1, <3>2 DEF Alone
      <3>4. ToggleStatus' = ToggleStatus
        BY <1>1 DEF ToggleStatus
      <3>5. lang = "python" => status[c] = ToggleStatus
        BY <1>1, <3>1 DEF Alone
      <3>6. \A e \in Client : InAlternate(e)' => e = c
        BY <3>1, <3>2 DEF Alone
      <3>. QED  BY <1>1, <1>2, <1>4, <3>3, <3>4, <3>5, <3>6 DEF Alone
    <2>. QED  BY <1>1, <2>1, <2>2 DEF ServerSound, FlagSound
  <1>7. ServerTyped'
    BY <1>1, <1>4 DEF ServerSound, ServerTyped, Only, Span
  <1>. QED  BY <1>4, <1>5, <1>6, <1>7, OthersKept DEF ServerSound

LEMMA StoreFlagKeeps ==
  ASSUME ServerSound, NEW c \in Client, StoreFlag(c)
  PROVE  ServerSound'
  <1>. DEFINE code == IF lang = "java" THEN ToggleStatus ELSE status[c]
  <1>1. /\ request[c].path = "/alternate" /\ state[c] = "negated"
        /\ toggle' = negation[c]
        /\ Respond(c, code) /\ Alternated(code)
        /\ UNCHANGED <<lang, server, request, level, negation>>
    BY DEF StoreFlag, Alternating
  <1>2. code \in Nat /\ lang # "node"
    BY <1>1 DEF ToggleStatus, ServerSound, ServerTyped, ChainSound
  <1>3. Only(c) /\ state'[c] = "answered"
    <2>. HIDE DEF code
    <2>. QED  BY <1>1, <1>2, Responded DEF Only, ServerSound, ServerTyped
  <1>4. ChainSound(c)'
    BY <1>1, <1>3 DEF ChainSound, ServerSound
  <1>5. /\ alternate' \in [ok : Nat, error : Nat, overlap : BOOLEAN]
        /\ alternate'.overlap = alternate.overlap
    <2>. HIDE DEF code
    <2>. QED  BY <1>1 DEF Alternated, ServerSound, ServerTyped
  <1>6. toggle' \in BOOLEAN
    BY <1>1 DEF ServerSound, ServerTyped
  <1>7. ASSUME ~alternate.overlap
        PROVE  Balanced' /\ \A d \in Client : ~InAlternate(d)'
    <2>1. Alone(c) /\ Balanced
      BY <1>1, <1>2, <1>7 DEF ServerSound, FlagSound, InAlternate
    <2>2. code = ToggleStatus /\ (negation[c] <=> ~toggle)
      BY <1>1, <1>2, <2>1 DEF Alone, ServerSound, ServerTyped
    <2>3. toggle' = ~toggle
      BY <1>1, <2>2 DEF ServerSound, ServerTyped
    <2>4. Balanced'
      <3>. HIDE DEF code
      <3>. QED  BY <1>1, <2>1, <2>2, <2>3, AlternateAnswers DEF ServerSound
    <2>. QED  BY <1>1, <1>3, <2>1, <2>4 DEF Alone, InAlternate, Only
  <1>8. FlagSound'
    BY <1>1, <1>2, <1>5, <1>7 DEF FlagSound
  <1>9. ServerTyped'
    BY <1>3, <1>5, <1>6 DEF ServerSound, ServerTyped, Only, Span
  <1>. QED  BY <1>3, <1>4, <1>8, <1>9, OthersKept DEF ServerSound

LEMMA StopKeeps == ServerSound /\ (Sigterm \/ Close \/ ForceExit) => ServerSound'
  <1>. SUFFICES ASSUME ServerSound, Sigterm \/ Close \/ ForceExit PROVE ServerSound'
    OBVIOUS
  <1>1. UNCHANGED <<lang, toggle, request, state, level, status, negation, spans, alternate>>
        /\ server' # "up"
    BY DEF Sigterm, Close, ForceExit, Gone, local
  <1>2. ServerTyped' /\ \A c \in Client : ChainSound(c)'
    BY <1>1 DEF ServerSound, ServerTyped, ChainSound
  <1>3. FlagSound'
    BY <1>1, FlagKept DEF InAlternate, ServerSound
  <1>. QED  BY <1>2, <1>3 DEF ServerSound

LEMMA ServerStarts == Init => ServerSound
  <1>. SUFFICES ASSUME Init PROVE ServerSound
    OBVIOUS
  <1>1. ServerTyped
    BY DEF Init, ServerTyped, Place
  <1>2. \A c \in Client : ChainSound(c) /\ ~InAlternate(c)
    BY DEF Init, ChainSound, OnItsWay, InAlternate
  <1>3. Balanced
    BY DEF Init, Balanced
  <1>. QED  BY <1>1, <1>2, <1>3 DEF ServerSound, FlagSound

LEMMA ServerStepKeeps == ServerSound /\ Next => ServerSound'
  BY RequestKeeps, AcceptKeeps, FinalHopKeeps, NextHopKeeps, ResumeKeeps, OverKeeps,
     RefusedKeeps, AlternateNodeKeeps, ReadFlagKeeps, NegateFlagKeeps, StoreFlagKeeps, StopKeeps
  DEF Next, Handle, Receive, Lost

LEMMA ServerIdleKeeps == ServerSound /\ UNCHANGED vars => ServerSound'
  BY DEF ServerSound, vars, local, ServerTyped, ChainSound, OnItsWay, FlagSound, Balanced, Alone,
         InAlternate, ToggleStatus

LEMMA ServerSoundAsDocumented == ServerSound => TraceAsDocumented
  <1>. SUFFICES ASSUME ServerSound, NEW c \in Client, server = "up", Answered(c),
                       request[c].path # "/alternate"
                PROVE  /\ spans[c].handled = request[c].hops
                       /\ spans[c].failed = ExpectedFailed(request[c])
                       /\ status[c] = ExpectedStatus(request[c])
    BY DEF TraceAsDocumented
  <1>. DEFINE r == request[c]
  <1>1. /\ r \in Requests /\ r.hops \in Nat \ {0} /\ level[c] = r.hops
        /\ r.error \in BOOLEAN
        /\ spans[c].handled = r.hops /\ spans[c].failed = FailedUpTo(r, r.hops)
        /\ status[c] = StatusAt(r, r.hops)
    BY BoundAssumption DEF ServerSound, ChainSound, OnItsWay, Answered, Requests
  <1>2. r.path = "/hops" => ~r.error
    BY <1>1 DEF Requests
  <1>. HIDE DEF r
  <1>3. FailedUpTo(r, r.hops) = ExpectedFailed(r)
    BY <1>1, <1>2 DEF FailedUpTo, FinalFails, HopsFail, ExpectedFailed
  <1>4. StatusAt(r, r.hops) = ExpectedStatus(r)
    BY <1>1, <1>2 DEF StatusAt, FinalFails, HopsFail, ExpectedFailed, ExpectedStatus
  <1>. QED  BY <1>1, <1>3, <1>4 DEF r

LEMMA ServerSoundAlternates == ServerSound => EverySecondFails
  <1>. SUFFICES ASSUME ServerSound, lang = "node" \/ ~alternate.overlap
                PROVE  alternate.error = (alternate.ok + alternate.error) \div 2
    BY DEF EverySecondFails
  <1>1. Balanced /\ alternate.ok \in Nat /\ alternate.error \in Nat
    BY DEF ServerSound, ServerTyped, FlagSound
  <1>2. alternate.ok = alternate.error \/ alternate.ok = alternate.error + 1
    BY <1>1 DEF Balanced
  <1>. QED  BY <1>1, <1>2

LEMMA ServerSoundInvariant == ScenarioSpec => []ServerSound
  <1>1. ScenarioInit => ServerSound
    BY ServerStarts DEF ScenarioInit
  <1>2. ServerSound /\ [ScenarioNext]_<<side, vars, testVars>> => ServerSound'
    BY ServerStepKeeps, ServerIdleKeeps DEF ScenarioNext, ServerStep, TestStep
  <1>. QED  BY <1>1, <1>2, PTL DEF ScenarioSpec

\* While the server is up, the failing hops of a chain are those the documents name, for any
\* number of clients and hops.
THEOREM TracesDocumented == ScenarioSpec => []TraceAsDocumented
  BY ServerSoundInvariant, ServerSoundAsDocumented, PTL

\* Of the answers of /alternate every second one is a 500, in Node always, and in Java and
\* Python as long as no two requests overlap.
THEOREM AlternateAlternates == ScenarioSpec => []EverySecondFails
  BY ServerSoundInvariant, ServerSoundAlternates, PTL

-----------------------------------------------------------------------------
(* The users table of the sql-query app. *)

\* Where a thread runs initSchema, and everywhere it may be.
Section    == {"create", "count", "seed", "verify"}
ThreadPlace == Section \union {"idle", "query", "requery", "lock"}

SchemaTyped ==
  /\ up \in BOOLEAN
  /\ rows \in Nat \union {NoTable}
  /\ pod \in [Pod -> {"off", "starting", "serving"}]
  /\ at \in [Thread -> ThreadPlace]
  /\ mutex \in [Pod -> Thread \union {Free}]
  /\ health \in [Pod -> {"none", "200", "503"}]
  /\ faults \in Nat

\* The startup of a pod runs initSchema without the mutex, but before anyone else
\* runs; the others hold the mutex.
Guards(t) ==
  IF t[1] = Startup
  THEN /\ at[t] \in Section \union {"idle"}
       /\ at[t] = "idle" <=> pod[t[2]] # "starting"
  ELSE /\ at[t] # "idle" => pod[t[2]] = "serving"
       /\ at[t] \in Section => mutex[t[2]] = t

Guarded == \A t \in Thread : Guards(t)

Wiped == ~up => rows = NoTable

\* Before the first fault there is one pod ...
AloneOn(p) ==
  \A q \in Pod \ {p} :
    /\ pod[q] = "off" /\ health[q] = "none"
    /\ \A t \in Thread : t[2] = q => at[t] = "idle"

\* ... and who is about to seed has found the table empty, and still does.
Seeding ==
  /\ rows \in {NoTable, 0, 1}
  /\ \A t \in Thread : at[t] = "seed" => rows # 1
  /\ rows = 0 => \E t \in Thread : at[t] \in {"count", "seed"}

SchemaSound ==
  /\ SchemaTyped /\ Guarded /\ Wiped
  /\ faults = 0 => late = 0 /\ Seeding /\ \E p \in Pod : AloneOn(p)

\* One thread of a pod at most runs initSchema.
LEMMA OneInSection ==
  ASSUME SchemaTyped, Guarded, NEW t \in Thread, NEW u \in Thread, t[2] = u[2],
         at[t] \in Section, at[u] \in Section
  PROVE  t = u
<1>1. /\ at[t] # "idle" /\ at[u] # "idle" /\ Guards(t) /\ Guards(u)
  BY DEF Section, Guarded
<1>2. t = <<t[1], t[2]>> /\ u = <<u[1], u[2]>>
  BY DEF Thread
<1>. QED
  BY <1>1, <1>2 DEF Guards

\* What a step of a thread may change.
ThreadStep(t, place) ==
  /\ at' = [at EXCEPT ![t] = place]
  /\ \/ pod' = pod
     \/ /\ t[1] = Startup /\ place = "idle"
        /\ pod' = [pod EXCEPT ![t[2]] = "serving"]
  /\ \/ mutex' = mutex
     \/ mutex[t[2]] = Free /\ mutex' = [mutex EXCEPT ![t[2]] = t]
     \/ mutex[t[2]] = t /\ mutex' = [mutex EXCEPT ![t[2]] = Free]
  /\ health' \in [Pod -> {"none", "200", "503"}]
  /\ \A q \in Pod \ {t[2]} : health'[q] = health[q]

\* What it does change.
Moves(t, place) ==
  /\ ThreadStep(t, place)
  /\ IF t[1] = Startup
     THEN /\ place \in Section \union {"idle"}
          /\ place = "idle" <=> pod'[t[2]] # "starting"
     ELSE /\ place # "idle" => pod[t[2]] = "serving"
          /\ place \in Section => mutex'[t[2]] = t

LEMMA MovesKeep ==
  ASSUME SchemaTyped, Guarded, NEW t \in Thread, NEW place \in ThreadPlace,
         Moves(t, place)
  PROVE  /\ pod' \in [Pod -> {"off", "starting", "serving"}]
         /\ at' \in [Thread -> ThreadPlace]
         /\ mutex' \in [Pod -> Thread \union {Free}]
         /\ Guarded'
<1>1. t[2] \in Pod /\ \A u \in Thread : u = <<u[1], u[2]>> /\ u[2] \in Pod
  BY DEF Thread
<1>2. /\ pod' \in [Pod -> {"off", "starting", "serving"}]
      /\ at' \in [Thread -> ThreadPlace]
      /\ mutex' \in [Pod -> Thread \union {Free}]
  BY <1>1 DEF SchemaTyped, Moves, ThreadStep
<1>3. ASSUME NEW u \in Thread PROVE Guards(u)'
  <2>1. CASE u = t
    <3>1. at'[t] = place
      BY DEF Moves, ThreadStep, SchemaTyped
    <3>2. CASE t[1] = Startup
      BY <2>1, <3>1, <3>2 DEF Guards, Moves
    <3>3. CASE t[1] # Startup
      <4>1. pod' = pod
        BY <3>3 DEF Moves, ThreadStep
      <4>. QED
        BY <2>1, <3>1, <3>3, <4>1 DEF Guards, Moves
    <3>. QED
      BY <3>2, <3>3
  <2>2. CASE u # t
    <3>1. at'[u] = at[u]
      BY <2>2 DEF Moves, ThreadStep, SchemaTyped
    <3>2. Guards(u)
      BY DEF Guarded
    <3>3. CASE u[1] = Startup
      <4>1. pod'[u[2]] = pod[u[2]]
        <5>1. CASE pod' = pod
          BY <5>1
        <5>2. CASE t[1] = Startup /\ pod' = [pod EXCEPT ![t[2]] = "serving"]
          <6>1. u[2] # t[2]
            BY <1>1, <2>2, <3>3, <5>2
          <6>. QED
            BY <1>1, <5>2, <6>1 DEF SchemaTyped
        <5>. QED
          BY <5>1, <5>2 DEF Moves, ThreadStep
      <4>. QED
        BY <3>1, <3>2, <3>3, <4>1 DEF Guards
    <3>4. CASE u[1] # Startup
      <4>1. pod'[u[2]] = pod[u[2]] \/ pod'[u[2]] = "serving"
        BY <1>1 DEF Moves, ThreadStep, SchemaTyped
      <4>2. mutex[u[2]] = u => mutex'[u[2]] = u
        <5>1. u # Free
          BY SchemaAssumption
        <5>. QED
          BY <1>1, <2>2, <5>1 DEF Moves, ThreadStep, SchemaTyped
      <4>. QED
        BY <3>1, <3>2, <3>4, <4>1, <4>2 DEF Guards
    <3>. QED
      BY <3>3, <3>4
  <2>. QED
    BY <2>1, <2>2
<1>. QED
  BY <1>2, <1>3 DEF Guarded

\* The ends of initSchema, and its steps.
LEMMA SucceedsMoves ==
  ASSUME SchemaTyped, Guarded, NEW t \in Thread, at[t] \in Section, Succeeds(t)
  PROVE  \E place \in {"idle", "requery"} : Moves(t, place)
<1>1. t[2] \in Pod /\ Guards(t) /\ at[t] # "idle"
  BY DEF Thread, Guarded, Section
<1>2. \/ mutex' = mutex
      \/ mutex[t[2]] = t /\ mutex' = [mutex EXCEPT ![t[2]] = Free]
  BY DEF Succeeds, Unlock
<1>3. CASE t[1] = Startup
  <2>1. /\ pod' = [pod EXCEPT ![t[2]] = "serving"]
        /\ at' = [at EXCEPT ![t] = "idle"]
        /\ health' = health
    BY <1>3 DEF Succeeds, Started, Goto
  <2>2. Moves(t, "idle")
    BY <1>1, <1>2, <1>3, <2>1 DEF Moves, ThreadStep, SchemaTyped
  <2>. QED
    BY <2>2
<1>4. CASE t[1] # Startup
  <2>1. PICK place \in {"idle", "requery"} : at' = [at EXCEPT ![t] = place]
    BY <1>4 DEF Succeeds, Answer, Goto
  <2>2. /\ pod' = pod
        /\ health' = health \/ health' = [health EXCEPT ![t[2]] = "200"]
    BY <1>4 DEF Succeeds, Answer
  <2>3. pod[t[2]] = "serving"
    BY <1>1, <1>4 DEF Guards
  <2>4. Moves(t, place)
    BY <1>1, <1>2, <1>4, <2>1, <2>2, <2>3 DEF Moves, ThreadStep, SchemaTyped, Section
  <2>. QED
    BY <2>4
<1>. QED
  BY <1>3, <1>4

LEMMA FailsMoves ==
  ASSUME SchemaTyped, Guarded, NEW t \in Thread, at[t] \in Section, Fails(t)
  PROVE  \E place \in {"idle", "create"} : Moves(t, place)
<1>1. t[2] \in Pod /\ Guards(t) /\ at[t] # "idle"
  BY DEF Thread, Guarded, Section
<1>2. \/ mutex' = mutex
      \/ mutex[t[2]] = t /\ mutex' = [mutex EXCEPT ![t[2]] = Free]
  BY DEF Fails, Unlock
<1>3. CASE t[1] = Startup
  <2>1. pod' = pod /\ at' = [at EXCEPT ![t] = "create"] /\ health' = health
    BY <1>3 DEF Fails, TryAgain, Goto
  <2>2. pod[t[2]] = "starting"
    BY <1>1, <1>3 DEF Guards
  <2>3. Moves(t, "create")
    BY <1>1, <1>2, <1>3, <2>1, <2>2 DEF Moves, ThreadStep, SchemaTyped, Section
  <2>. QED
    BY <2>3
<1>4. CASE t[1] # Startup
  <2>1. /\ pod' = pod /\ at' = [at EXCEPT ![t] = "idle"]
        /\ health' = health \/ health' = [health EXCEPT ![t[2]] = "503"]
    BY <1>4 DEF Fails, Answer, Goto
  <2>2. Moves(t, "idle")
    BY <1>1, <1>2, <1>4, <2>1 DEF Moves, ThreadStep, SchemaTyped, Section
  <2>. QED
    BY <2>2
<1>. QED
  BY <1>3, <1>4

LEMMA ContinueMoves ==
  ASSUME SchemaTyped, Guarded, NEW t \in Thread, at[t] \in Section,
         NEW place \in Section, Continue(t, place)
  PROVE  Moves(t, place)
<1>1. t[2] \in Pod /\ Guards(t) /\ at[t] # "idle" /\ place # "idle"
  BY DEF Thread, Guarded, Section
<1>2. /\ at' = [at EXCEPT ![t] = place]
      /\ UNCHANGED <<pod, mutex, health>>
  BY DEF Continue, Goto
<1>. QED
  BY <1>1, <1>2 DEF Moves, ThreadStep, Guards, SchemaTyped

\* Where each step takes its thread, and what it finds and leaves in the table.
Steps(t, place) ==
  \/ /\ at[t] \notin {"count", "seed"} /\ place \notin {"count", "seed"}
     /\ rows' = rows
  \/ /\ at[t] = "create" /\ place = "count" /\ up
     /\ rows' = IF rows = NoTable THEN 0 ELSE rows
  \/ at[t] = "count" /\ place = "seed" /\ rows = 0 /\ rows' = 0
  \/ at[t] = "count" /\ place = "verify" /\ rows \notin {NoTable, 0} /\ rows' = rows
  \/ at[t] = "seed" /\ place = "verify" /\ rows # NoTable /\ rows' = rows + 1
  \/ /\ at[t] \in {"count", "seed"} /\ place \in {"idle", "create"}
     /\ rows = NoTable /\ rows' = NoTable

LEMMA StepMoves ==
  ASSUME SchemaTyped, Guarded, Wiped, NEW t \in Thread, Arrive(t) \/ Serve(t)
  PROVE  /\ UNCHANGED <<up, late, faults>>
         /\ \E place \in ThreadPlace : Moves(t, place) /\ Steps(t, place)
<1>1. t[2] \in Pod /\ Guards(t)
  BY DEF Thread, Guarded
<1>2. CASE Arrive(t)
  <2>1. PICK place \in {"lock", "query"} : at' = [at EXCEPT ![t] = place]
    BY <1>2 DEF Arrive, Goto
  <2>2. /\ t[1] # Startup /\ at[t] = "idle" /\ pod[t[2]] = "serving"
        /\ UNCHANGED <<up, rows, late, pod, mutex, health, faults>>
    BY <1>2 DEF Arrive, database
  <2>3. Moves(t, place) /\ Steps(t, place)
    BY <1>1, <2>1, <2>2 DEF Moves, ThreadStep, Steps, SchemaTyped, Section
  <2>. QED
    BY <2>2, <2>3 DEF ThreadPlace
<1>3. CASE Query(t)
  <2>1. PICK place \in {"lock", "idle"} : at' = [at EXCEPT ![t] = place]
    BY <1>3 DEF Query, Goto
  <2>2. /\ at[t] \in {"query", "requery"}
        /\ UNCHANGED <<up, rows, late, pod, mutex, health, faults>>
    BY <1>3 DEF Query, database
  <2>3. t[1] # Startup /\ pod[t[2]] = "serving"
    BY <1>1, <2>2 DEF Guards, Section
  <2>4. Moves(t, place) /\ Steps(t, place)
    BY <1>1, <2>1, <2>2, <2>3 DEF Moves, ThreadStep, Steps, SchemaTyped, Section
  <2>. QED
    BY <2>2, <2>4 DEF ThreadPlace
<1>4. CASE Lock(t)
  <2>1. /\ at[t] = "lock" /\ mutex[t[2]] = Free
        /\ mutex' = [mutex EXCEPT ![t[2]] = t]
        /\ at' = [at EXCEPT ![t] = "create"]
        /\ UNCHANGED <<up, rows, late, pod, health, faults>>
    BY <1>4 DEF Lock, Goto, database
  <2>2. t[1] # Startup /\ pod[t[2]] = "serving"
    BY <1>1, <2>1 DEF Guards, Section
  <2>3. mutex'[t[2]] = t
    BY <1>1, <2>1 DEF SchemaTyped
  <2>4. Moves(t, "create") /\ Steps(t, "create")
    BY <1>1, <2>1, <2>2, <2>3 DEF Moves, ThreadStep, Steps, SchemaTyped
  <2>. QED
    BY <2>1, <2>4 DEF ThreadPlace, Section
<1>5. CASE Create(t)
  <2>1. at[t] = "create" /\ at[t] \in Section /\ UNCHANGED <<up, late, faults>>
    BY <1>5 DEF Create, Section
  <2>2. CASE up
    <3>1. Continue(t, "count") /\ rows' = IF rows = NoTable THEN 0 ELSE rows
      BY <1>5, <2>2 DEF Create
    <3>2. Moves(t, "count")
      BY <2>1, <3>1, ContinueMoves DEF Section
    <3>. QED
      BY <2>1, <2>2, <3>1, <3>2 DEF Steps, ThreadPlace, Section
  <2>3. CASE ~up
    <3>1. Fails(t) /\ rows' = rows
      BY <1>5, <2>3 DEF Create
    <3>. QED
      BY <2>1, <3>1, FailsMoves DEF Steps, ThreadPlace, Section
  <2>. QED
    BY <2>2, <2>3
<1>6. CASE Count(t)
  <2>1. at[t] = "count" /\ at[t] \in Section /\ UNCHANGED <<up, rows, late, faults>>
    BY <1>6 DEF Count, Section, database
  <2>2. CASE up /\ rows # NoTable
    <3>. DEFINE place == IF rows = 0 THEN "seed" ELSE "verify"
    <3>1. Continue(t, place) /\ place \in Section
      BY <1>6, <2>2 DEF Count, Section
    <3>2. Moves(t, place)
      BY <2>1, <3>1, ContinueMoves
    <3>3. Steps(t, place)
      BY <2>1, <2>2 DEF Steps
    <3>. QED
      BY <2>1, <3>1, <3>2, <3>3 DEF ThreadPlace
  <2>3. CASE ~(up /\ rows # NoTable)
    <3>1. Fails(t) /\ rows = NoTable
      BY <1>6, <2>3 DEF Count, Wiped
    <3>. QED
      BY <2>1, <3>1, FailsMoves DEF Steps, ThreadPlace, Section
  <2>. QED
    BY <2>2, <2>3
<1>7. CASE Seed(t)
  <2>1. at[t] = "seed" /\ at[t] \in Section /\ UNCHANGED <<up, late, faults>>
    BY <1>7 DEF Seed, Section
  <2>2. CASE up /\ rows # NoTable
    <3>1. Continue(t, "verify") /\ rows' = rows + 1
      BY <1>7, <2>2 DEF Seed
    <3>2. Moves(t, "verify")
      BY <2>1, <3>1, ContinueMoves DEF Section
    <3>. QED
      BY <2>1, <2>2, <3>1, <3>2 DEF Steps, ThreadPlace, Section
  <2>3. CASE ~(up /\ rows # NoTable)
    <3>1. Fails(t) /\ rows = NoTable /\ rows' = rows
      BY <1>7, <2>3 DEF Seed, Wiped
    <3>. QED
      BY <2>1, <3>1, FailsMoves DEF Steps, ThreadPlace, Section
  <2>. QED
    BY <2>2, <2>3
<1>8. CASE Verify(t)
  <2>1. at[t] = "verify" /\ at[t] \in Section /\ UNCHANGED <<up, rows, late, faults>>
    BY <1>8 DEF Verify, Section, database
  <2>2. CASE Succeeds(t)
    BY <2>1, <2>2, SucceedsMoves DEF Steps, ThreadPlace, Section
  <2>3. CASE Fails(t)
    BY <2>1, <2>3, FailsMoves DEF Steps, ThreadPlace, Section
  <2>. QED
    BY <1>8, <2>2, <2>3 DEF Verify
<1>. QED
  BY <1>2, <1>3, <1>4, <1>5, <1>6, <1>7, <1>8 DEF Serve, InitSchema

LEMMA ThreadSeeds ==
  ASSUME SchemaTyped, Guarded, Seeding, NEW p \in Pod, AloneOn(p),
         NEW t \in Thread, at[t] # "idle" \/ pod[t[2]] # "off",
         NEW place \in ThreadPlace, Moves(t, place), Steps(t, place)
  PROVE  Seeding' /\ AloneOn(p)'
<1>1. t[2] = p
  BY DEF AloneOn, Thread
<1>2. at'[t] = place /\ \A u \in Thread \ {t} : at'[u] = at[u]
  BY DEF Moves, ThreadStep, SchemaTyped
<1>3. \A q \in Pod \ {p} : pod'[q] = pod[q] /\ health'[q] = health[q]
  BY <1>1 DEF Moves, ThreadStep, SchemaTyped
<1>4. AloneOn(p)'
  BY <1>1, <1>2, <1>3 DEF AloneOn
<1>. SUFFICES Seeding'
  BY <1>4
<1>5. \A u \in Thread \ {t} : at[t] \in Section => at[u] \notin Section
  <2>1. \A u \in Thread : at[u] # "idle" => u[2] = p
    BY DEF AloneOn, Thread
  <2>. QED
    BY <1>1, <2>1, OneInSection DEF Section
<1>6. CASE at[t] \notin {"count", "seed"} /\ place \notin {"count", "seed"} /\ rows' = rows
  BY <1>2, <1>6 DEF Seeding
<1>7. CASE at[t] = "create" /\ place = "count" /\ rows' = IF rows = NoTable THEN 0 ELSE rows
  BY <1>2, <1>7 DEF Seeding, NoTable
<1>8. CASE at[t] = "count" /\ place = "seed" /\ rows = 0 /\ rows' = 0
  BY <1>2, <1>8 DEF Seeding
<1>9. CASE at[t] = "count" /\ place = "verify" /\ rows \notin {NoTable, 0} /\ rows' = rows
  BY <1>2, <1>9 DEF Seeding, NoTable
<1>10. CASE at[t] = "seed" /\ place = "verify" /\ rows # NoTable /\ rows' = rows + 1
  <2>1. rows = 0 /\ rows' = 1
    BY <1>10 DEF Seeding
  <2>2. \A u \in Thread : at'[u] # "seed"
    BY <1>2, <1>5, <1>10 DEF Section
  <2>. QED
    BY <2>1, <2>2 DEF Seeding
<1>11. CASE /\ at[t] \in {"count", "seed"} /\ place \in {"idle", "create"}
            /\ rows = NoTable /\ rows' = NoTable
  BY <1>11 DEF Seeding, NoTable
<1>. QED
  BY <1>6, <1>7, <1>8, <1>9, <1>10, <1>11 DEF Steps

LEMMA ThreadSound ==
  ASSUME SchemaSound, NEW t \in Thread, Arrive(t) \/ Serve(t)
  PROVE  SchemaSound'
<1>1. SchemaTyped /\ Guarded /\ Wiped
  BY DEF SchemaSound
<1>2. /\ UNCHANGED <<up, late, faults>>
      /\ at[t] # "idle" \/ pod[t[2]] # "off"
  BY <1>1, StepMoves DEF Arrive, Serve, InitSchema, Query, Lock, Create, Count, Seed, Verify
<1>3. PICK place \in ThreadPlace : Moves(t, place) /\ Steps(t, place)
  BY <1>1, StepMoves
<1>4. /\ pod' \in [Pod -> {"off", "starting", "serving"}]
      /\ at' \in [Thread -> ThreadPlace]
      /\ mutex' \in [Pod -> Thread \union {Free}]
      /\ Guarded'
  BY <1>1, <1>3, MovesKeep
<1>5. rows' \in Nat \union {NoTable} /\ (~up => rows' = NoTable)
  BY <1>1, <1>3 DEF Steps, SchemaTyped, Wiped, NoTable
<1>6. health' \in [Pod -> {"none", "200", "503"}]
  BY <1>3 DEF Moves, ThreadStep
<1>7. SchemaTyped' /\ Wiped'
  BY <1>1, <1>2, <1>4, <1>5, <1>6 DEF SchemaTyped, Wiped
<1>8. ASSUME faults = 0 PROVE late' = 0 /\ Seeding' /\ \E p \in Pod : AloneOn(p)'
  BY <1>1, <1>2, <1>3, <1>8, ThreadSeeds DEF SchemaSound
<1>. QED
  BY <1>2, <1>4, <1>7, <1>8 DEF SchemaSound

\* A pod that ends or starts anew takes its threads with it.
LEMMA StopSound ==
  ASSUME SchemaSound, NEW p \in Pod, faults' \in Nat \ {0},
         \/ Stop(p, "starting", "create")
         \/ Stop(p, "off", "idle")
         \/ /\ pod[p] = "off"
            /\ pod' = [pod EXCEPT ![p] = "starting"]
            /\ at' = [at EXCEPT ![<<Startup, p>>] = "create"]
            /\ UNCHANGED <<database, mutex, health>>
  PROVE  SchemaSound'
<1>. USE DEF SchemaSound
<1>1. \A t \in Thread : t = <<t[1], t[2]>> /\ t[2] \in Pod /\ Guards(t)
  BY DEF Thread, Guarded
<1>2. <<Startup, p>> \in Thread /\ UNCHANGED <<up, rows>>
  BY DEF Thread, Stop, database
<1>3. CASE Stop(p, "starting", "create") \/ Stop(p, "off", "idle")
  <2>1. PICK stage \in {"starting", "off"}, place \in {"create", "idle"} :
          /\ Stop(p, stage, place) /\ (place = "idle" <=> stage # "starting")
    BY <1>3
  <2>2. /\ pod' = [pod EXCEPT ![p] = stage]
        /\ mutex' = [mutex EXCEPT ![p] = Free]
        /\ health' = [health EXCEPT ![p] = "none"]
        /\ at' = [t \in Thread |-> IF t[2] # p THEN at[t]
                                  ELSE IF t[1] = Startup THEN place ELSE "idle"]
    BY <2>1 DEF Stop
  <2>3. SchemaTyped'
    BY <1>2, <2>2 DEF SchemaTyped, ThreadPlace, Section
  <2>4. ASSUME NEW t \in Thread PROVE Guards(t)'
    <3>1. CASE t[2] = p
      <4>1. /\ pod'[p] = stage
            /\ at'[t] = IF t[1] = Startup THEN place ELSE "idle"
        BY <2>2, <3>1 DEF SchemaTyped
      <4>. QED
        BY <2>1, <3>1, <4>1 DEF Guards, Section
    <3>2. CASE t[2] # p
      <4>1. pod'[t[2]] = pod[t[2]] /\ at'[t] = at[t] /\ mutex'[t[2]] = mutex[t[2]]
        BY <1>1, <2>2, <3>2 DEF SchemaTyped
      <4>. QED
        BY <1>1, <4>1 DEF Guards
    <3>. QED
      BY <3>1, <3>2
  <2>. QED
    BY <1>2, <2>3, <2>4 DEF Guarded, Wiped
<1>4. CASE /\ pod[p] = "off"
           /\ pod' = [pod EXCEPT ![p] = "starting"]
           /\ at' = [at EXCEPT ![<<Startup, p>>] = "create"]
           /\ UNCHANGED <<database, mutex, health>>
  <2>1. SchemaTyped'
    BY <1>2, <1>4 DEF SchemaTyped, ThreadPlace, Section
  <2>2. ASSUME NEW t \in Thread PROVE Guards(t)'
    <3>1. CASE t = <<Startup, p>>
      BY <1>2, <1>4, <3>1 DEF Guards, SchemaTyped, Section
    <3>2. CASE t # <<Startup, p>> /\ t[2] = p
      <4>1. at[t] = "idle" /\ t[1] # Startup /\ at'[t] = at[t]
        BY <1>1, <1>4, <3>2 DEF Guards, SchemaTyped
      <4>. QED
        BY <4>1 DEF Guards, Section
    <3>3. CASE t[2] # p
      <4>1. pod'[t[2]] = pod[t[2]] /\ at'[t] = at[t] /\ mutex' = mutex
        BY <1>1, <1>4, <3>3 DEF SchemaTyped
      <4>. QED
        BY <1>1, <4>1 DEF Guards
    <3>. QED
      BY <3>1, <3>2, <3>3
  <2>. QED
    BY <1>2, <2>1, <2>2 DEF Guarded, Wiped
<1>. QED
  BY <1>3, <1>4

LEMMA SchemaInitSound == SchemaInit => SchemaSound
<1>. SUFFICES ASSUME SchemaInit PROVE SchemaSound
  OBVIOUS
<1>1. PICK p \in Pod : pod = [q \in Pod |-> IF q = p THEN "starting" ELSE "off"]
  BY DEF SchemaInit
<1>2. \A t \in Thread : /\ t = <<t[1], t[2]>> /\ t[2] \in Pod
                        /\ at[t] = IF t[1] = Startup /\ t[2] = p THEN "create" ELSE "idle"
  BY <1>1 DEF SchemaInit, Thread
<1>3. SchemaTyped
  BY <1>1 DEF SchemaInit, SchemaTyped, ThreadPlace, Section, NoTable
<1>4. Guarded
  BY <1>1, <1>2 DEF Guarded, Guards, Section
<1>5. Seeding
  BY <1>2 DEF SchemaInit, Seeding, NoTable
<1>6. AloneOn(p)
  BY <1>1, <1>2 DEF SchemaInit, AloneOn
<1>. QED
  BY <1>3, <1>4, <1>5, <1>6 DEF SchemaSound, SchemaInit, Wiped

LEMMA SchemaNextSound == SchemaSound /\ [SchemaNext]_schemaVars => SchemaSound'
<1>. SUFFICES ASSUME SchemaSound, [SchemaNext]_schemaVars PROVE SchemaSound'
  OBVIOUS
<1>0. faults \in Nat
  BY DEF SchemaSound, SchemaTyped
<1>1. ASSUME NEW t \in Thread, Arrive(t) \/ Serve(t) PROVE SchemaSound'
  BY <1>1, ThreadSound
<1>2. ASSUME NEW t \in Thread, GiveUp(t) PROVE SchemaSound'
  <2>1. /\ at[t] = "seed" /\ at[t] \in Section /\ Fails(t)
        /\ faults' = faults + 1 /\ UNCHANGED <<up, rows>>
    BY <1>2 DEF GiveUp, Fault, Section
  <2>2. PICK place \in {"idle", "create"} : Moves(t, place)
    BY <2>1, FailsMoves DEF SchemaSound
  <2>3. place \in ThreadPlace
    BY DEF ThreadPlace, Section
  <2>4. /\ pod' \in [Pod -> {"off", "starting", "serving"}]
        /\ at' \in [Thread -> ThreadPlace]
        /\ mutex' \in [Pod -> Thread \union {Free}]
        /\ Guarded'
    BY <2>2, <2>3, MovesKeep DEF SchemaSound
  <2>5. health' \in [Pod -> {"none", "200", "503"}]
    BY <2>2 DEF Moves, ThreadStep
  <2>6. SchemaTyped' /\ Wiped'
    BY <1>0, <2>1, <2>4, <2>5 DEF SchemaSound, SchemaTyped, Wiped
  <2>. QED
    BY <1>0, <2>1, <2>4, <2>6 DEF SchemaSound
<1>3. ASSUME NEW p \in Pod, LivenessKill(p) \/ SurgePod(p) PROVE SchemaSound'
  <2>1. faults' \in Nat \ {0}
    BY <1>0, <1>3 DEF LivenessKill, SurgePod, Fault
  <2>. QED
    BY <1>3, <2>1, StopSound DEF LivenessKill, SurgePod
<1>4. ASSUME NEW p \in Pod, RetirePod(p) PROVE SchemaSound'
  <2>1. faults # 0
    BY <1>4 DEF RetirePod, SchemaSound, AloneOn
  <2>. QED
    BY <1>0, <1>4, <2>1, StopSound DEF RetirePod
<1>5. CASE PostgresStarts \/ PostgresRestarts
  <2>1. /\ UNCHANGED <<pod, at, mutex, health, faults>>
        /\ up' \in BOOLEAN /\ late' \in {late, 0}
        /\ rows' = NoTable \/ (up' /\ rows' = rows)
    BY <1>5 DEF PostgresStarts, PostgresRestarts, app
  <2>2. Guarded' /\ \A p \in Pod : AloneOn(p) => AloneOn(p)'
    BY <2>1 DEF SchemaSound, Guarded, Guards, AloneOn
  <2>3. SchemaTyped' /\ Wiped'
    BY <2>1 DEF SchemaSound, SchemaTyped, Wiped
  <2>4. Seeding => Seeding'
    BY <2>1 DEF Seeding, NoTable
  <2>. QED
    BY <2>1, <2>2, <2>3, <2>4 DEF SchemaSound
<1>6. CASE LateInsert
  <2>1. /\ UNCHANGED <<up, pod, at, mutex, health, faults>>
        /\ up /\ late # 0
        /\ rows' = IF rows = NoTable THEN rows ELSE rows + 1
    BY <1>6 DEF LateInsert, app
  <2>2. Guarded' /\ Wiped'
    BY <2>1 DEF SchemaSound, Guarded, Guards, Wiped
  <2>3. SchemaTyped'
    BY <2>1 DEF SchemaSound, SchemaTyped, NoTable
  <2>. QED
    BY <2>1, <2>2, <2>3 DEF SchemaSound
<1>7. CASE UNCHANGED schemaVars
  <2>1. UNCHANGED <<up, rows, late, pod, at, mutex, health, faults>>
    BY <1>7 DEF schemaVars, database, app
  <2>2. Guarded' /\ \A p \in Pod : AloneOn(p) => AloneOn(p)'
    BY <2>1 DEF SchemaSound, Guarded, Guards, AloneOn
  <2>. QED
    BY <2>1, <2>2 DEF SchemaSound, SchemaTyped, Wiped, Seeding
<1>. QED
  BY <1>1, <1>2, <1>3, <1>4, <1>5, <1>6, <1>7 DEF SchemaNext

LEMMA SchemaAlwaysSound == QuerySpec => []SchemaSound
<1>1. QueryInit => SchemaSound
  BY SchemaInitSound DEF QueryInit
<1>2. [QueryNext]_<<schemaVars, list>> => [SchemaNext]_schemaVars
  BY DEF QueryNext, BuildList, Main
<1>3. SchemaSound /\ [QueryNext]_<<schemaVars, list>> => SchemaSound'
  BY <1>2, SchemaNextSound
<1>. QED
  BY <1>1, <1>3, PTL DEF QuerySpec

\* Before the first fault the seeds are there once, and a table without seeds is on
\* its way to them: the mutex makes COUNT and INSERT one step.
THEOREM SeedsOnce == QuerySpec => []SeededOnce
<1>1. SchemaSound => SeededOnce
  BY DEF SchemaSound, Seeding, SeededOnce, NoTable
<1>. QED
  BY <1>1, SchemaAlwaysSound, PTL

\* Whatever fails, one thread of a pod at most runs initSchema.
OnePerPod ==
  \A t, u \in Thread :
    t[2] = u[2] /\ at[t] \in Section /\ at[u] \in Section => t = u

\* The startup without the mutex and the requests with it exclude each other,
\* through kills, rollouts and statements given up.
THEOREM InitSchemaExcludes == QuerySpec => []OnePerPod
<1>1. SchemaSound => OnePerPod
  BY OneInSection DEF SchemaSound, OnePerPod
<1>. QED
  BY <1>1, SchemaAlwaysSound, PTL

-----------------------------------------------------------------------------
(* The select list. *)

\* Every alias the builder asks for can be had: one fragment, or two that are
\* joined.
LEMMA Aliases == \A n \in 1 .. 63 : List!HasAlias(n)
<1>. USE DEF List!HasAlias, List!aliasExactFragments, List!maxIdentLen
<1>1. \A n \in (1 .. 46) \ {9, 12, 18, 22, 25, 26, 34, 38} : List!HasAlias(n)
  OBVIOUS
<1>2. List!HasAlias(9) /\ List!HasAlias(12) /\ List!HasAlias(18)
  OBVIOUS
<1>3. List!HasAlias(22) /\ List!HasAlias(25) /\ List!HasAlias(26)
  OBVIOUS
<1>4. List!HasAlias(34) /\ List!HasAlias(38)
  OBVIOUS
<1>5. \A n \in 47 .. 63 : List!HasAlias(n)
  OBVIOUS
<1>. QED
  BY <1>1, <1>2, <1>3, <1>4, <1>5

\* The projections are short enough to leave room for one that is made to fit.
LEMMA Projections ==
  \A i \in 1 .. 21 : /\ List!selectProjections[i][1] \in 2 .. 5
                    /\ List!selectProjections[i][2] \in 16 .. 29
BY DEF List!selectProjections

LEMMA ProjectionCount == Len(List!selectProjections) = 21
BY DEF List!selectProjections

\* Only the first entry is written, or there is room for another, or the list is
\* filled with aliases of full length.
Untouched == middle = marker.alias + 8 /\ last = marker.alias

Open ==
  \/ Untouched
  \/ List!Gap >= 16
  \/ last = 63 /\ upcoming > 21 /\ List!Gap >= 1

ListTyped ==
  /\ exactLen \in Nat /\ marker.alias \in 1 .. 48
  /\ upcoming \in Nat \ {0} /\ middle \in Nat /\ last \in 1 .. 63

ListSound ==
  /\ ListTyped
  /\ built \in {"project", "fill", "close", "check", "built", "panic"}
  /\ built = "project" => Untouched \/ List!Gap >= 16
  /\ built = "fill" => Open /\ (List!Gap > 71 => upcoming > 21)
  /\ built = "close" => Open /\ List!Gap <= 71
  /\ built \in {"check", "built"} => List!Gap = 0
  /\ List!PanicsOutside

LEMMA ListInitSound == List!Init => ListSound
<1>. SUFFICES ASSUME List!Init PROVE ListSound
  OBVIOUS
<1>1. exactLen \in Nat /\ marker.alias \in 1 .. 48
  BY ListAssumption DEF List!Init, List!InputTyped, List!maxIdentLen
<1>2. /\ middle = marker.alias + 8 /\ last = marker.alias /\ upcoming = 1
      /\ built \in {"project", "panic"}
      /\ built = "panic" => exactLen - 15 <= 7
  BY <1>1 DEF List!Init, List!Entry, List!fillEnd, List!prefix, List!finalCols
<1>3. built = "panic" =>
        exactLen < List!prefix + List!Entry(2, marker.alias) + List!finalCols
  BY <1>1, <1>2 DEF List!Entry, List!prefix, List!finalCols
<1>4. List!PanicsOutside
  BY <1>3 DEF List!PanicsOutside
<1>. QED
  BY <1>1, <1>2, <1>4 DEF ListSound, ListTyped, Untouched

LEMMA ListNextSound ==
  ASSUME ListSound, [List!Next]_list
  PROVE  ListSound'
<1>. USE DEF List!Gap, List!fillEnd, List!prefix, List!finalCols, List!Entry,
             List!overhead, List!minAdjustable, List!maxIdentLen, List!GoTo, List!Write,
             List!Rest, ListTyped, Untouched, Open, List!PanicsOutside
<1>. ListTyped
  BY DEF ListSound
<1>1. CASE List!Skip
  BY <1>1 DEF List!Skip, ListSound
<1>2. CASE List!Project
  <2>1. /\ built = "project" /\ upcoming <= 21
        /\ List!Fits(List!EntryAt(upcoming))
        /\ middle' = middle + List!EntryAt(upcoming)
        /\ last' = List!selectProjections[upcoming][2]
        /\ built' = IF List!Gap = List!EntryAt(upcoming) THEN "built" ELSE "project"
        /\ upcoming' = upcoming + 1 /\ exactLen' = exactLen /\ marker' = marker
    BY <1>2, ProjectionCount DEF List!Project, List!EntryAt
  <2>2. List!EntryAt(upcoming) \in 24 .. 40 /\ last' \in 16 .. 29
    BY <2>1, Projections DEF List!EntryAt
  <2>3. List!EntryAt(upcoming) + 16 <= List!Gap
    BY <2>1 DEF List!Fits
  <2>4. built' = "project"
    BY <2>1, <2>2, <2>3
  <2>. HIDE DEF List!EntryAt
  <2>5. List!Gap' >= 16 /\ ListTyped'
    BY <2>1, <2>2, <2>3
  <2>. QED
    BY <2>4, <2>5 DEF ListSound
<1>3. CASE List!EndProjections
  <2>1. /\ built = "project" /\ built' = "fill"
        /\ upcoming <= 21 => ~List!Fits(List!EntryAt(upcoming))
        /\ UNCHANGED <<exactLen, marker, upcoming, middle, last>>
    BY <1>3, ProjectionCount DEF List!EndProjections
  <2>2. upcoming <= 21 => List!Gap < 56
    <3>1. upcoming <= 21 => List!EntryAt(upcoming) \in 24 .. 40
      BY Projections DEF List!EntryAt
    <3>. QED
      BY <2>1, <3>1 DEF List!Fits
  <2>. QED
    BY <2>1, <2>2 DEF ListSound
<1>4. CASE List!Fill
  <2>1. /\ built = "fill" /\ built' = built /\ List!Gap > 71
        /\ middle' = middle + 71 /\ last' = 63
        /\ UNCHANGED <<exactLen, marker, upcoming>>
    BY <1>4, Aliases DEF List!Fill
  <2>2. upcoming > 21
    BY <2>1 DEF ListSound
  <2>. QED
    BY <2>1, <2>2 DEF ListSound
<1>5. CASE List!EndFill
  BY <1>5 DEF List!EndFill, ListSound
<1>6. CASE List!Adjust
  <2>1. /\ built = "close" /\ List!Gap >= 16 /\ List!Gap <= 71
        /\ UNCHANGED <<exactLen, marker, upcoming>>
    BY <1>6 DEF List!Adjust, ListSound
  <2>2. List!Gap - 8 \in 1 .. 63
    BY <2>1
  <2>3. List!HasAlias(List!Gap - 8)
    BY <2>2, Aliases
  <2>4. middle' = middle + List!Gap /\ last' = List!Gap - 8 /\ built' = "check"
    BY <1>6, <2>1, <2>3 DEF List!Adjust
  <2>. QED
    BY <2>1, <2>2, <2>4 DEF ListSound
<1>7. CASE List!Grow
  <2>1. /\ built = "close" /\ List!Gap # 0 /\ List!Gap < 16
        /\ UNCHANGED <<exactLen, marker, upcoming>>
        /\ Untouched \/ (last = 63 /\ upcoming > 21 /\ List!Gap >= 1)
    BY <1>7 DEF List!Grow, ListSound
  <2>2. CASE List!CanGrow
    <3>1. /\ middle' = middle + List!Gap /\ last' = last + List!Gap /\ built' = "check"
          /\ last + List!Gap <= 63 /\ List!Gap >= 1
      BY <1>7, <2>2 DEF List!Grow, List!CanGrow, List!HasAlias
    <3>. QED
      BY <2>1, <3>1 DEF ListSound
  <2>3. CASE ~List!CanGrow
    <3>1. middle' = middle /\ last' = last /\ built' = "panic"
      BY <1>7, <2>3 DEF List!Grow
    <3>2. List!Gap < 1 \/ last + List!Gap > 63
      BY <2>1, <2>3, Aliases DEF List!CanGrow
    <3>3. CASE Untouched
      BY <2>1, <3>1, <3>2, <3>3, ProjectionCount DEF ListSound
    <3>4. CASE last = 63 /\ upcoming > 21 /\ List!Gap >= 1
      BY <2>1, <3>1, <3>4, ProjectionCount DEF ListSound
    <3>. QED
      BY <2>1, <3>3, <3>4
  <2>. QED
    BY <2>2, <2>3
<1>8. CASE List!AlreadyExact
  BY <1>8 DEF List!AlreadyExact, ListSound
<1>9. CASE List!Check
  BY <1>9 DEF List!Check, ListSound
<1>10. CASE UNCHANGED list
  BY <1>10 DEF list, ListSound
<1>. QED
  BY <1>1, <1>2, <1>3, <1>4, <1>5, <1>6, <1>7, <1>8, <1>9, <1>10 DEF List!Next

\* A list of the length that is asked for cuts the word it is meant to cut.
LEMMA ExactCuts == ListSound => ExactAndValid
<1>. SUFFICES ASSUME ListSound PROVE ExactAndValid
  OBVIOUS
<1>1. last <= 63 /\ List!PanicsOutside
  BY DEF ListSound, ListTyped
<1>2. ASSUME built = "built"
      PROVE  List!prefix + middle + List!finalCols = exactLen
  BY <1>2 DEF ListSound, ListTyped, List!Gap, List!fillEnd, List!prefix, List!finalCols
<1>3. ASSUME NEW q \in List!Query, exactLen = List!selectLen(q)
      PROVE  LET start == exactLen + q.beforeWord
             IN /\ start < 256
                /\ 256 < start + q.cutWord
                /\ start + q.cutWord + q.afterWord <= 256 + 64
  BY <1>3 DEF List!Query, List!selectLen, List!wordMid, List!queryCaptureTruncateAt
<1>. QED
  BY <1>1, <1>2, <1>3 DEF ExactAndValid, List!Exact, List!maxIdentLen,
     List!queryCaptureTruncateAt

\* For every length and marker: a list that is built has the length asked for, no
\* alias is too long, and the builder panics only outside the lengths it can do.
THEOREM ListsExact == QuerySpec => []ExactAndValid
<1>1. QueryInit => ListSound
  BY ListInitSound DEF QueryInit
<1>2. ListSound /\ [QueryNext]_<<schemaVars, list>> => ListSound'
  <2>1. [QueryNext]_<<schemaVars, list>> => [List!Next]_list
    BY DEF QueryNext, BuildList, Main
  <2>. QED
    BY <2>1, ListNextSound
<1>. QED
  BY <1>1, <1>2, ExactCuts, PTL DEF QuerySpec
=============================================================================
