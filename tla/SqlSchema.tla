----------------------------- MODULE SqlSchema -------------------------------
(***************************************************************************)
(* scenarios/sql-query: an app in Go or in Java that keeps its users table *)
(* in a Postgres without a volume.  The app creates and seeds the table    *)
(* before it serves, and again whenever a query fails or a probe asks,     *)
(* under a mutex of the process.  A restart of Postgres wipes the table; a *)
(* rollout has two pods share it.                                          *)
(*                                                                         *)
(* A thread is the startup of a pod or one of its requests.  Each SQL      *)
(* statement is one action; what happens to the statements of a pod that   *)
(* dies is up to Postgres.                                                 *)
(***************************************************************************)
EXTENDS Integers, FiniteSets

CONSTANTS
  Pod,          \* pods of the deployment, in a rollout two at once
  Startup,      \* the thread of a pod that runs waitForSchema
  Kubelet,      \* the thread that answers the probes of /healthz
  Querier,      \* the threads that answer GET /query
  MaxAttempts,  \* attempts of waitForSchema, 60 in the code
  MaxRestarts,  \* bound: restarts of Postgres
  MaxFaults     \* bound: rollouts, kills of a pod and statements given up

Thread  == (Querier \union {Startup, Kubelet}) \X Pod
NoTable == -1
Free    == <<"none", "none">>

ASSUME SchemaAssumption ==
  /\ Startup # Kubelet /\ Startup \notin Querier /\ Kubelet \notin Querier
  /\ Free \notin Thread
  /\ MaxAttempts \in Nat \ {0} /\ MaxRestarts \in Nat /\ MaxFaults \in Nat

VARIABLES
  language,  \* "go" or "java"
  up,        \* Postgres answers
  rows,      \* how often the seeds are in the users table, or NoTable
  late,      \* INSERTs of dead clients that Postgres is still to run
  pod,       \* "off", "starting", "serving"
  attempt,   \* waitForSchema: attempt of each pod
  at,        \* what each thread does next
  mutex,     \* schemaGate.mu, or the lock of SchemaService: its holder in each pod
  health,    \* what the last probe of each pod was answered
  restarts,  \* number of restarts of Postgres
  faults     \* number of faults

database   == <<up, rows, late, restarts>>
app        == <<pod, attempt, at, mutex, health>>
schemaVars == <<language, database, app, faults>>

SchemaInit ==
  /\ language \in {"go", "java"}
  /\ up = FALSE
  /\ rows = NoTable
  /\ late = 0
  /\ \E p \in Pod : pod = [q \in Pod |-> IF q = p THEN "starting" ELSE "off"]
  /\ attempt = [p \in Pod |-> 1]
  /\ at = [t \in Thread |-> IF t[1] = Startup /\ pod[t[2]] = "starting" THEN "create" ELSE "idle"]
  /\ mutex = [p \in Pod |-> Free]
  /\ health = [p \in Pod |-> "none"]
  /\ restarts = 0
  /\ faults = 0

Fault == faults < MaxFaults /\ faults' = faults + 1

Goto(t, place) == at' = [at EXCEPT ![t] = place]

-----------------------------------------------------------------------------
(* Requests *)

\* GET /healthz and GET /query.
Arrive(t) ==
  /\ t[1] # Startup /\ at[t] = "idle" /\ pod[t[2]] = "serving"
  /\ Goto(t, IF t[1] = Kubelet THEN "lock" ELSE "query")
  /\ UNCHANGED <<language, database, pod, attempt, mutex, health, faults>>

\* runUsersQuery: an error is answered by ensure(), once.
Query(t) ==
  /\ at[t] \in {"query", "requery"}
  /\ Goto(t, IF (up /\ rows # NoTable) \/ at[t] = "requery" THEN "idle" ELSE "lock")
  /\ UNCHANGED <<language, database, pod, attempt, mutex, health, faults>>

\* Mutant of Lock: the mutex is not waited for.
LockAnyway(t) ==
  /\ at[t] = "lock"
  /\ mutex' = [mutex EXCEPT ![t[2]] = t]
  /\ Goto(t, "create")
  /\ UNCHANGED <<language, database, pod, attempt, health, faults>>

\* ensure() takes the mutex ...
Lock(t) ==
  /\ at[t] = "lock"
  /\ mutex[t[2]] = Free
  /\ mutex' = [mutex EXCEPT ![t[2]] = t]
  /\ Goto(t, "create")
  /\ UNCHANGED <<language, database, pod, attempt, health, faults>>

\* ... for the length of initSchema.  waitForSchema runs it without the mutex.
Unlock(t) ==
  mutex' = IF mutex[t[2]] = t THEN [mutex EXCEPT ![t[2]] = Free] ELSE mutex

Answer(t, status) ==
  /\ health' = IF t[1] = Kubelet THEN [health EXCEPT ![t[2]] = status] ELSE health
  /\ Goto(t, IF t[1] \in Querier /\ status = "200" THEN "requery" ELSE "idle")
  /\ UNCHANGED <<pod, attempt>>

\* waitForSchema: the server starts, or the next attempt; after the last the
\* process ends, and the container starts again.
Started(t) ==
  /\ pod' = [pod EXCEPT ![t[2]] = "serving"]
  /\ Goto(t, "idle")
  /\ UNCHANGED <<attempt, health>>

TryAgain(t) ==
  /\ attempt' = [attempt EXCEPT ![t[2]] = IF @ < MaxAttempts THEN @ + 1 ELSE 1]
  /\ Goto(t, "create")
  /\ UNCHANGED <<pod, health>>

Succeeds(t) ==
  /\ IF t[1] = Startup THEN Started(t) ELSE Answer(t, "200")
  /\ Unlock(t)

\* Mutant of Fails: an early return before the unlock.
FailsLocked(t) ==
  /\ IF t[1] = Startup THEN TryAgain(t) ELSE Answer(t, "503")
  /\ UNCHANGED mutex

Fails(t) ==
  /\ IF t[1] = Startup THEN TryAgain(t) ELSE Answer(t, "503")
  /\ Unlock(t)

Continue(t, place) ==
  /\ Goto(t, place)
  /\ UNCHANGED <<pod, attempt, mutex, health>>

-----------------------------------------------------------------------------
(* initSchema *)

\* ping, and CREATE TABLE IF NOT EXISTS.
Create(t) ==
  /\ at[t] = "create"
  /\ IF up
     THEN rows' = (IF rows = NoTable THEN 0 ELSE rows) /\ Continue(t, "count")
     ELSE UNCHANGED rows /\ Fails(t)
  /\ UNCHANGED <<language, up, late, restarts, faults>>

Count(t) ==
  /\ at[t] = "count"
  /\ IF up /\ rows # NoTable
     THEN Continue(t, IF rows = 0 THEN "seed" ELSE "verify")
     ELSE Fails(t)
  /\ UNCHANGED <<language, database, faults>>

Seed(t) ==
  /\ at[t] = "seed"
  /\ IF up /\ rows # NoTable
     THEN rows' = rows + 1 /\ Continue(t, "verify")
     ELSE UNCHANGED rows /\ Fails(t)
  /\ UNCHANGED <<language, up, late, restarts, faults>>

\* Go: the 5 s of the context end during the INSERT, which Postgres may still run.
GiveUp(t) ==
  /\ language = "go"
  /\ at[t] = "seed" /\ up /\ rows # NoTable
  /\ Fault
  /\ late' \in {late, late + 1}
  /\ Fails(t)
  /\ UNCHANGED <<language, up, rows, restarts>>

\* SELECT name ... WHERE name = 'alice': Go takes the first row, queryForObject
\* of Java throws unless there is exactly one.
Verified == up /\ (IF language = "go" THEN rows >= 1 ELSE rows = 1)

Verify(t) ==
  /\ at[t] = "verify"
  /\ IF Verified THEN Succeeds(t) ELSE Fails(t)
  /\ UNCHANGED <<language, database, faults>>

-----------------------------------------------------------------------------
(* Postgres and the deployment *)

PostgresStarts ==
  /\ ~up
  /\ up' = TRUE
  /\ UNCHANGED <<language, rows, late, restarts, app, faults>>

\* Without a volume the table goes with the pod.
PostgresRestarts ==
  /\ up
  /\ restarts < MaxRestarts
  /\ restarts' = restarts + 1
  /\ up' = FALSE
  /\ rows' = NoTable
  /\ late' = 0
  /\ UNCHANGED <<language, app, faults>>

LateInsert ==
  /\ late > 0 /\ up
  /\ late' = late - 1
  /\ rows' = IF rows = NoTable THEN rows ELSE rows + 1
  /\ UNCHANGED <<language, up, restarts, app, faults>>

\* Every thread of the pod is gone; an INSERT it had sent may still run.
Stop(p, state, place) ==
  /\ pod' = [pod EXCEPT ![p] = state]
  /\ attempt' = [attempt EXCEPT ![p] = 1]
  /\ at' = [t \in Thread |-> IF t[2] # p THEN at[t] ELSE IF t[1] = Startup THEN place ELSE "idle"]
  /\ mutex' = [mutex EXCEPT ![p] = Free]
  /\ health' = [health EXCEPT ![p] = "none"]
  /\ late' \in late .. late + Cardinality({t \in Thread : t[2] = p /\ at[t] = "seed"})
  /\ UNCHANGED <<language, up, rows, restarts>>

\* A container that is not healthy is killed and starts again; one that is still
\* in waitForSchema answers no probe.
LivenessKill(p) ==
  /\ pod[p] = "starting" \/ health[p] = "503"
  /\ Fault
  /\ Stop(p, "starting", "create")

\* A rollout starts a second pod and ends the first when the second is ready.
SurgePod(p) ==
  /\ pod[p] = "off"
  /\ Fault
  /\ pod' = [pod EXCEPT ![p] = "starting"]
  /\ at' = [at EXCEPT ![<<Startup, p>>] = "create"]
  /\ UNCHANGED <<language, database, attempt, mutex, health>>

RetirePod(p) ==
  /\ pod[p] = "serving"
  /\ \E q \in Pod \ {p} : health[q] = "200"
  /\ Stop(p, "off", "idle")
  /\ UNCHANGED faults

-----------------------------------------------------------------------------

InitSchema(t) == Create(t) \/ Count(t) \/ Seed(t) \/ Verify(t)

Serve(t) == Query(t) \/ Lock(t) \/ InitSchema(t)

SchemaNext ==
  \/ \E t \in Thread : Arrive(t) \/ Serve(t) \/ GiveUp(t)
  \/ \E p \in Pod : LivenessKill(p) \/ SurgePod(p) \/ RetirePod(p)
  \/ PostgresStarts \/ PostgresRestarts \/ LateInsert

SchemaSpec == SchemaInit /\ [][SchemaNext]_schemaVars

\* Postgres comes back, threads run, and the kubelet probes.
FairSpec ==
  /\ SchemaSpec
  /\ WF_schemaVars(PostgresStarts) /\ WF_schemaVars(LateInsert)
  /\ \A t \in Thread : WF_schemaVars(Serve(t))
  /\ \A p \in Pod : WF_schemaVars(Arrive(<<Kubelet, p>>))

-----------------------------------------------------------------------------
(* Properties *)

\* However often Postgres restarts, and whoever finds the table missing first,
\* the seeds are there once: the mutex makes COUNT and INSERT one step as long as
\* there is one pod and no INSERT runs on without its client.  A table without
\* seeds is only ever on its way: some thread is about to seed it.
SeededOnce ==
  faults = 0 =>
    /\ rows <= 1
    /\ rows = 0 => \E t \in Thread : at[t] \in {"count", "seed"}

\* "re-checks the table if queries fail after a postgres restart wiped ephemeral
\* storage" (main.go:355): a pod whose probe was answered 503 is answered 200
\* again, or ends.  A Java pod is not, once the table holds the seeds twice.
Heals ==
  \A p \in Pod :
    (health[p] = "503") ~> (health[p] # "503" \/ (language = "java" /\ rows > 1))
=============================================================================
