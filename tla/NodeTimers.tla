----------------------------- MODULE NodeTimers -----------------------------
(***************************************************************************)
(* The services that only listen, answer at once and arm timers:           *)
(* agent-stability, k8s-health, workload-types.  app.scenario is the       *)
(* SCENARIO of the first two, "cron" or "server" for the third; app.distro *)
(* says that ODIGOS_DISTRO_NAME is set when the process starts.            *)
(***************************************************************************)
EXTENDS NodeProcess

TimersStart(a) ==
  [up |-> FALSE, distro |-> a.distro, instrumentationHandled |-> FALSE]

CrashScenarios == {"crash-on-odigos-immediate", "crash-on-odigos-delayed"}

\* reactToOdigosInstrumentation, given own.
ReactOn(o) ==
  IF ~o.distro \/ o.instrumentationHandled
  THEN own' = o /\ UNCHANGED <<code, listening, timers, job>>
  ELSE /\ own' = [o EXCEPT !.instrumentationHandled = TRUE]
       /\ CASE app.scenario = "crash-on-odigos-immediate" -> Exit("1")
            [] app.scenario = "crash-on-odigos-delayed" ->
                 /\ timers' = timers \union {"crash"}
                 /\ UNCHANGED <<code, listening, job>>
            [] OTHER -> UNCHANGED <<code, listening, timers, job>>

\* Mutant of AgentUp: marks the instrumentation as handled before it reacts.
AgentUpHandledFirst ==
  /\ Alive /\ ~own.up
  /\ IF app.scenario \in CrashScenarios /\ ~own.distro
     THEN /\ own' = [own EXCEPT !.up = TRUE]
          /\ timers' = timers \union {"watch"}
          /\ UNCHANGED <<code, listening, job>>
     ELSE ReactOn([own EXCEPT !.up = TRUE, !.instrumentationHandled = own.distro])
  /\ UNCHANGED <<app, told, peer, faults, answer>>

\* The listen callback of agent-stability: react, and watch if there is nothing to
\* react to yet.
AgentUp ==
  /\ Alive /\ ~own.up
  /\ IF app.scenario \in CrashScenarios /\ ~own.distro
     THEN /\ own' = [own EXCEPT !.up = TRUE]
          /\ timers' = timers \union {"watch"}
          /\ UNCHANGED <<code, listening, job>>
     ELSE ReactOn([own EXCEPT !.up = TRUE])
  /\ UNCHANGED <<app, told, peer, faults, answer>>

\* The variable appears in a running process of agent-stability.
LateDistro ==
  /\ app.name = "agent"
  /\ Alive /\ own.up /\ ~own.distro
  /\ own' = [own EXCEPT !.distro = TRUE]
  /\ UNCHANGED <<app, listening, code, told, timers, job, peer, faults, answer>>

\* The interval of watchForLateInstrumentation marks the instrumentation as handled
\* before it reacts, and the reaction returns for what is handled.
Watch ==
  /\ "watch" \in timers
  /\ ~own.instrumentationHandled /\ own.distro
  /\ ReactOn([own EXCEPT !.instrumentationHandled = TRUE])
  /\ UNCHANGED <<app, told, peer, faults, answer>>

\* The listen callback of k8s-health.
HealthUp ==
  /\ Alive /\ ~own.up
  /\ own' = [own EXCEPT !.up = TRUE]
  /\ timers' = IF app.scenario = "crash-exit" THEN {"crash"} ELSE {}
  /\ UNCHANGED <<app, listening, code, told, job, peer, faults, answer>>

LiveOk  == app.scenario \in {"ok", "live-ok-ready-fail", "crash-exit"}
ReadyOk == app.scenario \in {"ok", "crash-exit"}

\* workload-types: runCronJobOnce serves nothing, startHttpServer arms nothing.
WorkloadUp ==
  /\ Alive /\ ~own.up
  /\ own' = [own EXCEPT !.up = TRUE]
  /\ timers' = IF app.scenario = "cron" THEN {"crash"} ELSE {}
  /\ UNCHANGED <<app, listening, code, told, job, peer, faults, answer>>

\* The armed exit.
TimerExits ==
  /\ "crash" \in timers
  /\ Exit(CASE app.name = "agent" -> "1"
            [] app.name = "health" -> "42"
            [] app.name = "workload" -> "0")
  /\ UNCHANGED <<app, own, told, peer, faults, answer>>

TimersUp ==
  \/ app.name = "agent" /\ AgentUp
  \/ app.name = "health" /\ HealthUp
  \/ app.name = "workload" /\ WorkloadUp

\* The cron job has no handler; the servers have one without a deadline ...
TimersSigterm == IF app.scenario = "cron" THEN Killed ELSE Sigterm({}, TRUE)

TimersNext == TimersUp \/ Watch \/ LateDistro \/ TimerExits \/ TimersSigterm

\* ... and nodejs/httpserver and runtime-versions, which only answer, one with it.
HttpServerNext == Sigterm({"deadline"}, TRUE)
=============================================================================
