-------------------------- MODULE SamplingMetrics ---------------------------
(***************************************************************************)
(* The test of tail-sampling's counters: the steps of chainsaw-test.yaml   *)
(* and victoriametrics_sampling_metrics_runner.sh.  A baseline of three    *)
(* counters per sampling rule is recorded, traffic is triggered, and then  *)
(* the deltas are asserted again and again until they pass or 2 minutes    *)
(* are over.                                                               *)
(*                                                                         *)
(* The collector (external) decides each matching trace and counts it some *)
(* time after it was sent; VictoriaMetrics (external) scrapes the counters.*)
(* Each counter is queried by a pod of its own, so the three readings of a *)
(* rule are three steps.  A query that fails reads 0: errexit does not     *)
(* reach into a command substitution, so the error() of jq ends nothing.   *)
(***************************************************************************)
EXTENDS Integers, Sequences, FiniteSetsExt

CONSTANTS
  Tests,     \* the tests: for each of its rules, what it expects
  None,      \* keep or drop of a rule that is not deterministic
  MaxTraces, \* bound: matching traces of the trigger
  MaxErrors  \* bound: queries that fail, restarts of the collector, aborts

\* What a test file says of a rule.
Expectation == [match : Nat \ {0}, keep : Nat \union {None}, drop : Nat \union {None}]

TestsTyped ==
  /\ MaxTraces \in Nat \ {0} /\ MaxErrors \in Nat
  /\ \A test \in Tests : test \in Seq(Expectation) /\ Len(test) > 0

Metric == <<"match", "keep", "drop">>
Zero   == [match |-> 0, keep |-> 0, drop |-> 0]

VARIABLES
  expected,  \* the rules of the test file
  counter,   \* collector: match, keep and drop of each rule
  early,     \* matching traces of an earlier run that are not counted yet
  due,       \* matching traces of the trigger that are not counted yet
  stored,    \* VictoriaMetrics: what was scraped last
  step,      \* chainsaw: "record", "trigger", "assert", "passed", "failed", "timeout"
  next,      \* the query that is next: a rule, and 1 .. 3; 4 when all are read
  baseline,  \* the baseline file
  current,   \* what has been read of the rule in this attempt
  triggered, \* history: matching traces of the trigger
  blind,     \* history: rules whose baseline is not all that came before, or not
             \* what VictoriaMetrics held of it
  scraped,   \* history: what was stored when the first counter was read
  torn,      \* history: since then, a query failed or a counter fell
  errors     \* number of errors

pipeline == <<counter, early, due, stored>>
reading  == <<step, next, baseline, current, triggered, blind, scraped, torn>>
vars     == <<expected, pipeline, reading, errors>>

Rule == DOMAIN expected

\* How many traces match each rule, n in all.
Traces(n) == {t \in [Rule -> 0 .. n] : MapThenSumSet(LAMBDA r : t[r], Rule) <= n}

Init ==
  /\ expected \in Tests
  /\ \E old \in {Zero, [match |-> 1, keep |-> 1, drop |-> 0]} : counter = [r \in Rule |-> old]
  /\ early \in Traces(MaxTraces - Len(expected))
  /\ stored \in {counter, [r \in Rule |-> Zero]}
  /\ due = [r \in Rule |-> 0]
  /\ step = "record"
  /\ next = [rule |-> 1, query |-> 1]
  /\ baseline = [r \in Rule |-> Zero]
  /\ current = Zero
  /\ triggered = [r \in Rule |-> 0]
  /\ blind = {}
  /\ scraped = Zero
  /\ torn = FALSE
  /\ errors = 0

Over  == step \in {"passed", "failed", "timeout"}
Error == errors < MaxErrors /\ errors' = errors + 1

-----------------------------------------------------------------------------
(* What is measured *)

\* The sampler decides a trace and counts it, in whatever way.
Count(r) ==
  /\ ~Over
  /\ \/ early[r] > 0 /\ early' = [early EXCEPT ![r] = @ - 1] /\ UNCHANGED due
     \/ due[r] > 0 /\ due' = [due EXCEPT ![r] = @ - 1] /\ UNCHANGED early
  /\ \E decision \in {"keep", "drop"} :
       counter' = [counter EXCEPT ![r].match = @ + 1, ![r][decision] = @ + 1]
  /\ UNCHANGED <<expected, stored, reading, errors>>

Scrape ==
  /\ ~Over
  /\ stored # counter
  /\ stored' = counter
  /\ torn' = (torn \/ \E r \in Rule, m \in DOMAIN Zero : counter[r][m] < stored[r][m])
  /\ UNCHANGED <<expected, counter, early, due, step, next, baseline, current, triggered,
                 blind, scraped, errors>>

\* Its counters start again, and the traces it has not decided may be lost.
CollectorRestarts ==
  /\ ~Over
  /\ Error
  /\ counter' = [r \in Rule |-> Zero]
  /\ due' \in {due, [r \in Rule |-> 0]}
  /\ UNCHANGED <<expected, early, stored, reading>>

-----------------------------------------------------------------------------
(* record-baseline and make trigger *)

\* query_vm_scalar, and whether it failed.
Answers(r, q) == {[value |-> stored[r][Metric[q]], ok |-> TRUE], [value |-> 0, ok |-> FALSE]}

Asked(a) == IF a.ok THEN UNCHANGED errors ELSE Error

Record ==
  /\ step = "record"
  /\ \E a \in Answers(next.rule, next.query) :
       /\ Asked(a)
       /\ baseline' = [baseline EXCEPT ![next.rule][Metric[next.query]] = a.value]
       /\ blind' = IF /\ early[next.rule] = 0
                      /\ \A m \in {counter, stored} : a.value = m[next.rule][Metric[next.query]]
                   THEN blind ELSE blind \union {next.rule}
  /\ IF next.query < 3 THEN next' = [next EXCEPT !.query = @ + 1] /\ UNCHANGED step
     ELSE IF next.rule < Len(expected)
          THEN next' = [rule |-> next.rule + 1, query |-> 1] /\ UNCHANGED step
          ELSE next' = [rule |-> 1, query |-> 1] /\ step' = "trigger"
  /\ UNCHANGED <<expected, pipeline, current, triggered, scraped, torn>>

\* make trigger waits for the jobs, not for the collector.
Trigger ==
  /\ step = "trigger"
  /\ step' = "assert"
  /\ due' \in Traces(MaxTraces)
  /\ triggered' = due'
  /\ UNCHANGED <<expected, counter, early, stored, next, baseline, current, blind, scraped,
                 torn, errors>>

\* The rule id cannot be resolved, or a job fails: chainsaw stops.
Abort ==
  /\ step \in {"record", "trigger"}
  /\ Error
  /\ step' = "failed"
  /\ UNCHANGED <<expected, pipeline, next, baseline, current, triggered, blind, scraped, torn>>

-----------------------------------------------------------------------------
(* assert-delta *)

Ask ==
  /\ step = "assert" /\ next.query <= 3
  /\ \E a \in Answers(next.rule, next.query) :
       /\ Asked(a)
       /\ current' = [current EXCEPT ![Metric[next.query]] = a.value]
       /\ torn' = (~a.ok \/ (torn /\ next.query > 1))
  /\ scraped' = IF next.query = 1 THEN stored[next.rule] ELSE scraped
  /\ next' = [next EXCEPT !.query = @ + 1]
  /\ UNCHANGED <<expected, pipeline, step, baseline, triggered, blind>>

\* Mutant of Delta: the total is taken for the delta.
Total(r, read, metric) == read[metric]

\* metric_delta.
Delta(r, read, metric) == read[metric] - baseline[r][metric]

Passes(r, read) ==
  /\ Delta(r, read, "match") = expected[r].match
  /\ Delta(r, read, "keep") + Delta(r, read, "drop") = Delta(r, read, "match")
  /\ \A metric \in {"keep", "drop"} :
       expected[r][metric] # None => Delta(r, read, metric) = expected[r][metric]

Read == step = "assert" /\ next.query = 4

\* Forgets the readings: their values play no part any more.
From(rule) ==
  /\ next' = [rule |-> rule, query |-> 1]
  /\ current' = Zero /\ scraped' = Zero /\ torn' = FALSE

\* A rule that passes is not looked at again in this attempt; one that does not
\* ends the attempt, and the next one starts after 2 s with the first rule.
Verdict ==
  /\ Read
  /\ IF ~Passes(next.rule, current) THEN From(1) /\ UNCHANGED step
     ELSE IF next.rule < Len(expected) THEN From(next.rule + 1) /\ UNCHANGED step
     ELSE From(1) /\ step' = "passed"
  /\ UNCHANGED <<expected, pipeline, baseline, triggered, blind, errors>>

\* resolve_rule_id exits: the attempt has failed.
Unresolved ==
  /\ step = "assert" /\ next.query = 1
  /\ Error
  /\ From(1)
  /\ UNCHANGED <<expected, pipeline, step, baseline, triggered, blind>>

\* The deadline of the loop.  Chainsaw's own is as long and may cut an attempt
\* short, which comes to the same.
Timeout ==
  /\ step = "assert" /\ next = [rule |-> 1, query |-> 1]
  /\ step' = "timeout"
  /\ UNCHANGED <<expected, pipeline, next, baseline, current, triggered, blind, scraped, torn,
                 errors>>

Next ==
  \/ \E r \in Rule : Count(r)
  \/ Scrape
  \/ CollectorRestarts
  \/ Record \/ Trigger \/ Abort
  \/ Ask \/ Verdict \/ Unresolved \/ Timeout

Spec == Init /\ [][Next]_vars

-----------------------------------------------------------------------------
(* What the test promises *)

\* A test that passes has not missed a trace: each rule whose baseline held all that
\* was sent before, as did VictoriaMetrics then, has matched at least as many traces
\* as it expects, although any query may have read 0 and the counters may have
\* started again.  More may have matched: the loop ends as soon as the numbers fit.
NothingMissed ==
  step = "passed" => \A r \in Rule \ blind : triggered[r] >= expected[r].match

\* The three numbers that pass are those of one scrape, although they are read one
\* after another while the counters move, unless a query failed in between.
OneScrape ==
  (Read /\ Passes(next.rule, current) /\ next.rule \notin blind) => torn \/ current = scraped
=============================================================================
