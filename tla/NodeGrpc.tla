------------------------------ MODULE NodeGrpc ------------------------------
(***************************************************************************)
(* nodejs/grpc in its three deployments, grpc-server, grpc-relay (which    *)
(* relays to itself) and grpc-client (a loop of calls to grpc-server, no   *)
(* server of its own), and with both roles in one process, which calls     *)
(* itself, as is the default of GRPC_PEER_ADDRESS.  app.server, app.client *)
(* and app.relay are the GRPC_ENABLE_ variables; own.fired and own.late    *)
(* are history variables.                                                  *)
(***************************************************************************)
EXTENDS NodeProcess

GrpcStart(a) ==
  [stage |-> IF a.server THEN "bind" ELSE "delay", ready |-> FALSE,
   lastClientError |-> FALSE, fired |-> FALSE, late |-> FALSE]

\* startGrpcServer.
Bind ==
  /\ Alive /\ ~told
  /\ own.stage = "bind"
  /\ own' = [own EXCEPT !.stage = "delay"]
  /\ listening' = TRUE
  /\ UNCHANGED <<app, code, told, timers, job, peer, faults, answer>>

BindFails ==
  /\ Alive
  /\ own.stage = "bind"
  /\ Fault
  /\ Exit("1")
  /\ UNCHANGED <<app, own, told, peer, answer>>

\* run() after its delay: SIGTERM does not stop it.
StartupOver ==
  /\ Alive
  /\ own.stage = "delay"
  /\ own' = [own EXCEPT !.stage = "running", !.ready = TRUE, !.late = told]
  /\ timers' = IF app.client THEN timers \union {"first", "loop"} ELSE timers
  /\ UNCHANGED <<app, listening, code, told, job, peer, faults, answer>>

\* A tick of startGrpcClientLoop: four calls, one after the other.  The first is a
\* setTimeout that nothing clears, shorter than the interval.
GrpcTick(s) ==
  /\ IF "first" \in timers THEN timers' = timers \ {"first"}
     ELSE "loop" \in timers /\ timers' = timers
  /\ Begin(s, "fire", <<>>, 4)
  /\ own' = [own EXCEPT !.fired = TRUE]
  /\ UNCHANGED <<app, listening, code, told, peer, faults, answer>>

\* A call to the own server may be refused once its port is closed.
Outcomes ==
  IF app.server THEN (IF listening THEN {TRUE} ELSE {TRUE, FALSE}) ELSE {peer}

\* fireClientCalls: the next call settles; the first that fails ends the round.
GrpcCall(s) ==
  /\ job[s].does = "fire"
  /\ \E ok \in Outcomes :
       IF ok /\ job[s].left > 1
       THEN /\ job' = [job EXCEPT ![s].left = @ - 1]
            /\ UNCHANGED own
       ELSE /\ End(s)
            /\ own' = [own EXCEPT !.lastClientError = ~ok]
  /\ UNCHANGED <<app, listening, code, told, timers, peer, faults, answer>>

\* Relay and StreamNumbers are the handlers that wait; the others answer what they
\* are sent, and are as slow as their client.
GrpcRequest(s) ==
  /\ listening
  /\ \/ app.relay /\ Begin(s, "relay", <<"Relay">>, 1)
     \/ Begin(s, "stream", <<"StreamNumbers">>, 2)
  /\ UNCHANGED <<app, own, listening, code, told, timers, peer, faults, answer>>

\* The relay's own call comes in through the port that a shutdown closes.
RelayReplies(s) ==
  /\ job[s].does = "relay"
  /\ End(s)
  /\ answer' \in [req : {<<"Relay">>},
                  says : {<<"ok">>} \union (IF listening THEN {} ELSE {<<"internal">>})]
  /\ UNCHANGED <<app, own, listening, code, told, timers, peer, faults>>

\* The interval of StreamNumbers writes an item, or finds the call cancelled.
StreamTick(s) ==
  /\ job[s].does = "stream"
  /\ \/ job[s].left > 1 /\ job' = [job EXCEPT ![s].left = @ - 1]
     \/ End(s)
  /\ UNCHANGED <<app, own, listening, code, told, timers, peer, faults, answer>>

GrpcSigterm == Sigterm({"deadline"}, app.server)

GrpcHealthy == Alive /\ own.ready

\* What a 200 of /healthz stands for: the port is bound, and the loop runs until
\* SIGTERM.
GrpcUp ==
  /\ app.server => listening \/ told
  /\ app.client => "loop" \in timers \/ told

GrpcSettles(s) == GrpcCall(s) \/ RelayReplies(s) \/ StreamTick(s)
GrpcRuns       == Bind \/ StartupOver
GrpcNext ==
  \/ GrpcRuns \/ BindFails \/ GrpcSigterm
  \/ \E s \in Slot : GrpcTick(s) \/ GrpcRequest(s) \/ GrpcSettles(s)
=============================================================================
