-------------------------- MODULE TailSamplingTest --------------------------
(***************************************************************************)
(* The two sides of scenarios/tail-sampling: the server (TailSampling), and *)
(* the test that asserts how the sampler has counted its traces            *)
(* (SamplingMetrics).  To the test the server is the traces that a trigger *)
(* sends, in whatever number; so a behaviour is one of the one or of the   *)
(* other.                                                                  *)
(***************************************************************************)
EXTENDS TailSampling, Sequences

CONSTANTS
  Tests, None, MaxTraces, MaxErrors  \* of SamplingMetrics

VARIABLES
  side,      \* "server" or "test"
  expected, counter, early, due, stored, step, next, baseline, current, triggered, blind,
  scraped, torn, errors              \* of SamplingMetrics

testVars == <<expected, counter, early, due, stored, step, next, baseline, current, triggered,
              blind, scraped, torn, errors>>

Metrics == INSTANCE SamplingMetrics

ASSUME TestAssumption == Metrics!TestsTyped

\* A side that does not run has one initial state.
ScenarioInit ==
  /\ Init /\ Metrics!Init
  /\ \/ side = "server" /\ Len(expected) = MaxTraces /\ stored = counter /\ counter[1].match = 0
     \/ side = "test" /\ lang = "node"

ServerStep == side = "server" /\ Next /\ UNCHANGED <<side, testVars>>
TestStep   == side = "test" /\ Metrics!Next /\ UNCHANGED <<side, vars>>

ScenarioNext == ServerStep \/ TestStep

ScenarioSpec == ScenarioInit /\ [][ScenarioNext]_<<side, vars, testVars>> /\ Fair

-----------------------------------------------------------------------------
(* Properties *)

\* A run of the metrics test that ends in PASSED for every rule has seen what it
\* expects: no trace is missing, and no rule passed on numbers of different scrapes.
PassIsEarned == Metrics!NothingMissed /\ Metrics!OneScrape
=============================================================================
