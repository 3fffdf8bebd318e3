---------------------------- MODULE NodeProcess ----------------------------
(***************************************************************************)
(* What the Node services of the repository share: a container whose       *)
(* single-threaded process listens, runs activities that wait for a call,  *)
(* arms timers, and ends with process.exit.  The modules that extend this  *)
(* one give each service its handlers; NodeServices puts them together.    *)
(*                                                                         *)
(* An activity is a function suspended at an await: it takes a slot until  *)
(* its last call has settled.  Requests the code answers in one turn of    *)
(* the event loop need no slot.                                            *)
(***************************************************************************)
EXTENDS Integers, FiniteSets

CONSTANTS
  Slot,     \* bound: activities of one process at once
  MaxFaults \* bound: failures of the peer, of a bind, of a consumer

ASSUME NodeBound == MaxFaults \in Nat

VARIABLES
  app,      \* the deployment: which service, with which environment
  own,      \* the service's own module variables
  listening,\* the server accepts connections
  code,     \* exit code; "none" while the process runs
  told,     \* SIGTERM has been delivered
  timers,   \* names of the armed timers
  job,      \* what each slot is waiting for
  peer,     \* the other end (server, broker) answers
  faults,   \* number of faults
  answer    \* history: the last answer given, and for which request

vars == <<app, own, listening, code, told, timers, job, peer, faults, answer>>

Idle    == [does |-> "nothing", req |-> <<>>, left |-> 0, refused |-> 0]
NoReply == [req |-> <<>>, says |-> <<>>]
Alive   == code = "none"
Fault   == faults < MaxFaults /\ faults' = faults + 1

\* Slots whose connection the server has accepted and not answered yet.
Served(s) == job[s].does \in {"outbound", "payload", "slow", "relay", "stream", "queue"}

Begin(s, does, req, n) ==
  /\ Alive
  /\ job[s] = Idle
  /\ job' = [job EXCEPT ![s] = [does |-> does, req |-> req, left |-> n, refused |-> 0]]

End(s) == job' = [job EXCEPT ![s] = Idle]

\* process.exit, or the kernel's default action: nothing pending survives.
Exit(c) ==
  /\ code' = c
  /\ listening' = FALSE
  /\ timers' = {}
  /\ job' = [s \in Slot |-> Idle]

-----------------------------------------------------------------------------
(* The environment *)

\* The other end goes away, and comes back.
PeerFails ==
  /\ Alive /\ peer
  /\ Fault
  /\ peer' = FALSE
  /\ UNCHANGED <<app, own, listening, code, told, timers, job, answer>>

PeerReturns ==
  /\ ~peer
  /\ peer' = TRUE
  /\ UNCHANGED <<app, own, listening, code, told, timers, job, faults, answer>>

\* A client that sends its request slowly, or keeps the connection busy ...
SlowClient(s) ==
  /\ listening
  /\ Begin(s, "slow", <<>>, 1)
  /\ UNCHANGED <<app, own, listening, code, told, timers, peer, faults, answer>>

\* ... until it is done, or node's request timeout closes the connection.
SlowClientEnds(s) ==
  /\ job[s].does = "slow"
  /\ End(s)
  /\ UNCHANGED <<app, own, listening, code, told, timers, peer, faults, answer>>

-----------------------------------------------------------------------------
(* The end of a process *)

\* Mutant of Sigterm: the timer goes on.
SigtermKeepsLoop(deadline, closes) ==
  /\ Alive /\ ~told
  /\ told' = TRUE
  /\ IF closes
     THEN /\ listening' = FALSE
          /\ timers' = timers \union deadline
          /\ UNCHANGED <<code, job>>
     ELSE Exit("0")
  /\ UNCHANGED <<app, own, peer, faults, answer>>

\* process.on('SIGTERM'): clears the interval it knows and closes the server,
\* with a deadline where the service sets one; a process that serves nothing
\* exits at once.
Sigterm(deadline, closes) ==
  /\ Alive /\ ~told
  /\ told' = TRUE
  /\ IF closes
     THEN /\ listening' = FALSE
          /\ timers' = (timers \ {"loop"}) \union deadline
          /\ UNCHANGED <<code, job>>
     ELSE Exit("0")
  /\ UNCHANGED <<app, own, peer, faults, answer>>

\* The callback of server.close: no connection is left.
Closed ==
  /\ Alive /\ told
  /\ \A s \in Slot : ~Served(s)
  /\ Exit("0")
  /\ UNCHANGED <<app, own, told, peer, faults, answer>>

\* "Could not close connections in time, forcefully shutting down".
Deadline ==
  /\ "deadline" \in timers
  /\ Exit("1")
  /\ UNCHANGED <<app, own, told, peer, faults, answer>>

\* A service without a handler for it: the signal ends the process.
Killed ==
  /\ Alive /\ ~told
  /\ told' = TRUE
  /\ Exit("killed")
  /\ UNCHANGED <<app, own, peer, faults, answer>>
=============================================================================
