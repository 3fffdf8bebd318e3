---------------------------- MODULE NodeSampling ----------------------------
(***************************************************************************)
(* scenarios/head-sampling-http/nodejs: probes that pass with the uptime,  *)
(* over REST and over GraphQL, the routes the sampling rules name, and the *)
(* loop of the http-client deployment that requests them from the          *)
(* http-server deployment.  app.slow is SIMULATE_STARTUP_DELAY,            *)
(* app.outbound HTTP_MATCH_PERIODIC_OUTBOUND.                              *)
(***************************************************************************)
EXTENDS NodeProcess, Sequences

SamplingStart == [age |-> "starting"]

\* STARTUP_DELAY_MS and READY_DELAY_MS pass.
GrowsUp ==
  /\ Alive /\ app.slow /\ own.age # "ready"
  /\ own' = [own EXCEPT !.age = IF @ = "starting" THEN "started" ELSE "ready"]
  /\ UNCHANGED <<app, listening, code, told, timers, job, peer, faults, answer>>

\* GET /healthz/startup, /healthz/ready, /healthz/live.
RestProbe(probe) ==
  IF \/ ~app.slow
     \/ probe = "live"
     \/ probe = "startup" /\ own.age # "starting"
     \/ probe = "ready" /\ own.age = "ready"
  THEN "200" ELSE "503"

Probes == {"startup", "ready", "live"}

\* resolveGraphqlHealthCheckProbeType: operationName, then a batch, then the text.
ProbeType(q) ==
  IF q.operationName \in Probes THEN q.operationName
  ELSE IF Len(q.queries) >= 2 THEN "live"
  ELSE IF Len(q.queries) = 1 /\ q.queries[1] \in Probes THEN q.queries[1] ELSE "none"

\* GET /graphql; a request that is no probe gets data.
GraphqlProbe(q) ==
  LET probe == ProbeType(q)
  IN IF \/ ~app.slow
        \/ probe \in {"none", "live"}
        \/ probe = "startup" /\ own.age # "starting"
        \/ probe = "ready" /\ own.age = "ready"
     THEN "200" ELSE "503"

Queries ==
  LET texts == Probes \union {"GetUser"}
  IN [operationName : texts \union {"none"},
      queries : {<<>>} \union {<<t>> : t \in texts} \union (texts \X texts)]

\* The routes the rules name, with the method; ":" is a parameter.
SamplingRoutes ==
  {<<"GET", "sampling", "percentage", p>> :
     p \in {"no-rule", "sampled-0", "sampled-50", "sampled-100", "sampled-fallback"}}
  \union {<<"GET", "sampling", "route", "prefix">>,
          <<"GET", "sampling", "route", "prefix", "part-one">>,
          <<"GET", "sampling", "route", "prefix", "part-one", "part-two">>,
          <<"GET", "sampling", "route", "exact", ":">>,
          <<"GET", "sampling", "route", "exact", ":", "details", ":">>}

\* registerHttpMatchRoutes.
MatchRoutes ==
  {<<"GET", "http-match", "control", "no-rule">>,
   <<"GET", "http-match", "exact", "target">>,
   <<"POST", "http-match", "exact", "post-target">>,
   <<"GET", "http-match", "prefix", "segment">>,
   <<"GET", "http-match", "prefix", "segment", "nested">>,
   <<"GET", "http-match", "texact", ":">>,
   <<"GET", "http-match", "tprefix", ":", "items">>,
   <<"GET", "http-match", "tprefix", ":", "items", ":">>}

\* fireOutbound: the requests of a tick; the first one goes out twice.
Outbound ==
  {<<"GET", "http-match", "exact", "target">>,
   <<"POST", "http-match", "exact", "post-target">>,
   <<"GET", "http-match", "prefix", "segment">>,
   <<"GET", "http-match", "prefix", "segment", "nested">>,
   <<"GET", "http-match", "texact", "out-peer-res">>,
   <<"GET", "http-match", "tprefix", "out-peer-tenant", "items">>,
   <<"GET", "http-match", "tprefix", "out-peer-tenant", "items", "out-peer-item">>}

Fits(route, r) ==
  Len(route) = Len(r) /\ \A i \in DOMAIN r : route[i] \in {":", r[i]}

\* A tick starts its requests at once and waits for none of them.
SamplingTick(s) ==
  /\ "loop" \in timers
  /\ Begin(s, "fire", <<>>, Cardinality(Outbound) + 1)
  /\ UNCHANGED <<app, own, listening, code, told, timers, peer, faults, answer>>

\* One of them settles; a failure is only logged.
SamplingCall(s) ==
  /\ job[s].does = "fire"
  /\ IF job[s].left > 1 THEN job' = [job EXCEPT ![s].left = @ - 1] ELSE End(s)
  /\ UNCHANGED <<app, own, listening, code, told, timers, peer, faults, answer>>

SamplingNext == GrowsUp \/ Sigterm({"deadline"}, TRUE)
             \/ \E s \in Slot : SamplingTick(s) \/ SamplingCall(s)

-----------------------------------------------------------------------------

\* The probes of the two deployments agree at every age: a GraphQL probe named by
\* its operation, or by the one query it has, gets the status of the REST probe;
\* only a batch passes for alive whatever it asks.
ProbesAgree ==
  \A q \in Queries :
    /\ q.operationName \in Probes => GraphqlProbe(q) = RestProbe(q.operationName)
    /\ (q.operationName \notin Probes /\ Len(q.queries) = 1 /\ q.queries[1] \in Probes) =>
         GraphqlProbe(q) = RestProbe(q.queries[1])
    /\ (q.operationName \notin Probes /\ Len(q.queries) # 1) => GraphqlProbe(q) = "200"

\* Every request of the client is one route of the server, and no request is two.
OneRoute ==
  /\ \A r \in Outbound : \E route \in MatchRoutes : Fits(route, r)
  /\ \A a, b \in MatchRoutes \union SamplingRoutes :
       a # b => ~ \E r \in Outbound \union MatchRoutes \union SamplingRoutes :
                    Fits(a, r) /\ Fits(b, r)
=============================================================================
