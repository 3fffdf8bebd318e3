---------------------------- MODULE TailSampling -----------------------------
(***************************************************************************)
(* scenarios/tail-sampling: the same HTTP server in JavaScript, Java and   *)
(* Python.  Its /hops routes call the server itself, one hop less each     *)
(* time; /alternate answers 200 and 500 in turn from a shared flag; SIGTERM*)
(* lets open requests finish, for at most 10 s.                            *)
(*                                                                         *)
(* A request of a client is a chain: it has asked for some number of hops, *)
(* and one of them, its level, is being sent, handled or answered while    *)
(* those above it wait.  In Java a waiting hop keeps a thread of Tomcat's  *)
(* pool; Node and werkzeug (threaded=True) have no pool to run out of.     *)
(***************************************************************************)
EXTENDS Integers, FiniteSets, FiniteSetsExt

CONSTANTS
  Client,
  Workers,     \* threads of the pool of Tomcat, 200 in Spring Boot
  MaxHops,     \* bound: hops asked for
  MaxRequests  \* bound: requests sent

ASSUME BoundAssumption ==
  Workers \in Nat \ {0} /\ MaxHops \in Nat \ {0} /\ MaxRequests \in Nat

\* "scenario" is any route that goes through sendScenarioResponse.
Path == {"scenario", "/sampling/tail/hops", "/sampling/tail/hops/non-propagating-error",
         "/hops", "/alternate"}

Chained == {"/sampling/tail/hops", "/sampling/tail/hops/non-propagating-error", "/hops"}

NoRequest == [path |-> "none", hops |-> 1, error |-> FALSE]

VARIABLES
  lang,      \* "node", "java", "python"
  server,    \* "up", "stopping", "gone"
  toggle,    \* alternateErrorNext
  request,   \* what each client asked for
  state,     \* "idle", "sent", "handling", "read", "negated", "answered"
  level,     \* hops_remaining of the hop that state is about
  status,    \* the status it is answered with
  negation,  \* /alternate: the value about to be stored in toggle
  spans,     \* history: hops handled, and hops answered with 5xx
  alternate, \* history: what /alternate has answered, and whether two overlapped
  sent       \* number of requests

local == <<request, state, level, status, negation, spans>>
vars  == <<lang, server, toggle, local, alternate, sent>>

Init ==
  /\ lang \in {"node", "java", "python"}
  /\ server = "up"
  /\ toggle = FALSE
  /\ request = [c \in Client |-> NoRequest]
  /\ state = [c \in Client |-> "idle"]
  /\ level = [c \in Client |-> 1]
  /\ status = [c \in Client |-> 0]
  /\ negation = [c \in Client |-> FALSE]
  /\ spans = [c \in Client |-> [handled |-> 0, failed |-> 0]]
  /\ alternate = [ok |-> 0, error |-> 0, overlap |-> FALSE]
  /\ sent = 0

shouldReturnError(c) == request[c].error

\* Hops of a chain that keep a thread of their server.
Held(c) ==
  IF state[c] = "idle" THEN 0
  ELSE request[c].hops - level[c] + (IF state[c] = "sent" THEN 0 ELSE 1)

Busy == MapThenSumSet(Held, Client)

\* Every thread waits for a hop that waits for a thread.
Exhausted ==
  lang = "java" /\ Busy = Workers /\ \A c \in Client : state[c] \in {"idle", "sent"}

-----------------------------------------------------------------------------
(* Requests *)

\* The request of a client is over.
Over(c) ==
  /\ request' = [request EXCEPT ![c] = NoRequest]
  /\ state' = [state EXCEPT ![c] = "idle"]
  /\ level' = [level EXCEPT ![c] = 1]
  /\ status' = [status EXCEPT ![c] = 0]
  /\ negation' = [negation EXCEPT ![c] = FALSE]
  /\ spans' = [spans EXCEPT ![c] = [handled |-> 0, failed |-> 0]]

Request(c, r) ==
  /\ state[c] = "idle"
  /\ server # "gone"
  /\ sent < MaxRequests
  /\ sent' = sent + 1
  /\ request' = [request EXCEPT ![c] = r]
  /\ state' = [state EXCEPT ![c] = "sent"]
  /\ level' = [level EXCEPT ![c] = r.hops]
  /\ UNCHANGED <<lang, server, toggle, status, negation, spans, alternate>>

InAlternate(c) == request[c].path = "/alternate" /\ state[c] \in {"handling", "read", "negated"}

Accept(c) ==
  /\ state[c] = "sent"
  /\ server = "up"
  /\ lang = "java" => Busy < Workers
  /\ state' = [state EXCEPT ![c] = "handling"]
  /\ spans' = [spans EXCEPT ![c].handled = @ + 1]
  /\ alternate' = [alternate EXCEPT !.overlap =
       @ \/ (request[c].path = "/alternate" /\ \E d \in Client : InAlternate(d))]
  /\ UNCHANGED <<lang, server, toggle, request, level, status, negation, sent>>

\* A hop sends its response: the level above it resumes, or the client has it.
Respond(c, code) ==
  /\ status' = [status EXCEPT ![c] = code]
  /\ spans' = [spans EXCEPT ![c].failed = IF code >= 500 THEN @ + 1 ELSE @]
  /\ state' = [state EXCEPT ![c] = "answered"]

FinalStatus(c) ==
  IF request[c].path = "/hops" \/ shouldReturnError(c) THEN 500 ELSE 200

\* sendScenarioResponse, and the final hop of a chain.
FinalHop(c) ==
  /\ state[c] = "handling" /\ level[c] = 1 /\ request[c].path # "/alternate"
  /\ Respond(c, FinalStatus(c))
  /\ UNCHANGED <<lang, server, toggle, request, level, negation, alternate, sent>>

NextHop(c) ==
  /\ state[c] = "handling" /\ level[c] > 1
  /\ level' = [level EXCEPT ![c] = @ - 1]
  /\ state' = [state EXCEPT ![c] = "sent"]
  /\ UNCHANGED <<lang, server, toggle, request, status, negation, spans, alternate, sent>>

\* Mutant of HopStatus: the status of the hop below is passed on.
DownstreamStatus(c) == status[c]

\* What a hop above the final one answers, whatever the hop below answered.
HopStatus(c) ==
  IF request[c].path = "/sampling/tail/hops" /\ shouldReturnError(c) THEN 500 ELSE 200

Resume(c) ==
  /\ state[c] = "answered" /\ level[c] < request[c].hops
  /\ level' = [level EXCEPT ![c] = @ + 1]
  /\ Respond(c, HopStatus(c))
  /\ UNCHANGED <<lang, server, toggle, request, negation, alternate, sent>>

\* The connection of a hop to its own server is refused, or that of the client.
Refused(c) ==
  /\ state[c] = "sent"
  /\ server = "stopping" /\ lang # "python"
  /\ IF level[c] < request[c].hops
     THEN /\ level' = [level EXCEPT ![c] = @ + 1]
          /\ Respond(c, 502)
          /\ UNCHANGED <<request, negation>>
     ELSE Over(c)
  /\ UNCHANGED <<lang, server, toggle, alternate, sent>>

Answered(c) == state[c] = "answered" /\ level[c] = request[c].hops

Receive(c) ==
  /\ Answered(c)
  /\ Over(c)
  /\ UNCHANGED <<lang, server, toggle, alternate, sent>>

-----------------------------------------------------------------------------
(* /alternate *)

Alternating(c, place) == request[c].path = "/alternate" /\ state[c] = place

ToggleStatus == IF toggle THEN 500 ELSE 200

Alternated(code) ==
  alternate' = IF code = 500 THEN [alternate EXCEPT !.error = @ + 1]
                             ELSE [alternate EXCEPT !.ok = @ + 1]

\* A handler of Node runs to its end.
AlternateNode(c) ==
  /\ lang = "node" /\ Alternating(c, "handling")
  /\ toggle' = ~toggle
  /\ Respond(c, ToggleStatus) /\ Alternated(ToggleStatus)
  /\ UNCHANGED <<lang, server, request, level, negation, sent>>

\* Python reads the flag for the answer, reads it again to negate it, and stores
\* the negation: another thread may run in between.
ReadFlag(c) ==
  /\ lang = "python" /\ Alternating(c, "handling")
  /\ status' = [status EXCEPT ![c] = ToggleStatus]
  /\ state' = [state EXCEPT ![c] = "read"]
  /\ UNCHANGED <<lang, server, toggle, request, level, negation, spans, alternate, sent>>

NegateFlag(c) ==
  /\ \/ lang = "python" /\ Alternating(c, "read")
     \/ lang = "java" /\ Alternating(c, "handling")
  /\ negation' = [negation EXCEPT ![c] = ~toggle]
  /\ state' = [state EXCEPT ![c] = "negated"]
  /\ UNCHANGED <<lang, server, toggle, request, level, status, spans, alternate, sent>>

\* Mutant of StoreFlag: the flag is set once and for all.
StickyFlag(c) ==
  /\ Alternating(c, "negated")
  /\ toggle' = TRUE
  /\ LET code == IF lang = "java" THEN ToggleStatus ELSE status[c]
     IN Respond(c, code) /\ Alternated(code)
  /\ UNCHANGED <<lang, server, request, level, negation, sent>>

\* Java: getAndSet(!get()) is atomic only from the negation on.
StoreFlag(c) ==
  /\ Alternating(c, "negated")
  /\ toggle' = negation[c]
  /\ LET code == IF lang = "java" THEN ToggleStatus ELSE status[c]
     IN Respond(c, code) /\ Alternated(code)
  /\ UNCHANGED <<lang, server, request, level, negation, sent>>

-----------------------------------------------------------------------------
(* SIGTERM *)

Sigterm ==
  /\ server = "up"
  /\ server' = "stopping"
  /\ UNCHANGED <<lang, toggle, local, alternate, sent>>

Gone == server' = "gone" /\ UNCHANGED <<lang, toggle, local, alternate, sent>>

\* server.close calls back when no request is open.  In Java the context is
\* closed at once.
Close ==
  /\ server = "stopping"
  /\ \/ lang = "node" /\ Busy = 0
     \/ lang = "java"
  /\ Gone

\* Mutant of ForceExit: Python counts on its serve_forever to return.
ForceExitNode == server = "stopping" /\ lang = "node" /\ Busy > 0 /\ Gone

\* After 10 s.  The handler of Python runs in the thread of serve_forever and
\* calls _server.shutdown(), which waits for serve_forever to return: nothing is
\* accepted any more and only the timer ends the process.
ForceExit ==
  /\ server = "stopping"
  /\ (lang = "node" /\ Busy > 0) \/ lang = "python"
  /\ Gone

\* What was in flight when the process ended.
Lost(c) ==
  /\ server = "gone" /\ state[c] # "idle"
  /\ Over(c)
  /\ UNCHANGED <<lang, server, toggle, alternate, sent>>

-----------------------------------------------------------------------------

Handle(c) ==
  /\ server # "gone"
  /\ \/ FinalHop(c) \/ NextHop(c) \/ Resume(c)
     \/ AlternateNode(c) \/ ReadFlag(c) \/ NegateFlag(c) \/ StoreFlag(c)

Requests ==
  {r \in [path : Path, hops : 1 .. MaxHops, error : BOOLEAN] :
     /\ r.hops > 1 => r.path \in Chained
     /\ r.error => r.path \notin {"/hops", "/alternate"}}

Next ==
  \/ \E c \in Client :
       \/ \E r \in Requests : Request(c, r)
       \/ Accept(c) \/ Handle(c) \/ Refused(c) \/ Receive(c) \/ Lost(c)
  \/ Sigterm \/ Close \/ ForceExit

Spec == Init /\ [][Next]_vars

\* The server and the network run; a stop comes to its end.
Fair ==
  /\ \A c \in Client : WF_vars(Accept(c) \/ Handle(c) \/ Refused(c) \/ Receive(c) \/ Lost(c))
  /\ WF_vars(Close \/ ForceExit)

-----------------------------------------------------------------------------
(* Properties *)

\* The failing hops of a chain are those specs/scenarios/tail-sampling.md names:
\* all of them where the status propagates, only the final one elsewhere, and the
\* client sees a 500 only from a hop it called.
ExpectedFailed(r) ==
  IF r.path = "/hops" THEN 1
  ELSE IF ~r.error THEN 0
  ELSE IF r.path = "/sampling/tail/hops" THEN r.hops ELSE 1

ExpectedStatus(r) ==
  IF ExpectedFailed(r) = r.hops THEN 500 ELSE 200

\* While the server is up, a chain of n hops that is answered went through n
\* handlers, failed where its route says it does, and ends in the status its
\* client expects, whatever runs beside it.
TraceAsDocumented ==
  \A c \in Client :
    (server = "up" /\ Answered(c) /\ request[c].path # "/alternate") =>
      /\ spans[c].handled = request[c].hops
      /\ spans[c].failed = ExpectedFailed(request[c])
      /\ status[c] = ExpectedStatus(request[c])

\* "alternates HTTP 200 and 500 on each request (in-process toggle)"
\* (index.js:179): of the answers of /alternate every second one is a 500.  In
\* Java and Python this takes requests that do not overlap.
EverySecondFails ==
  (lang = "node" \/ ~alternate.overlap) =>
    alternate.error = (alternate.ok + alternate.error) \div 2

\* A request is answered or fails, unless every thread of Tomcat is held by a hop
\* that waits for another: the hop calls have no timeout, and nothing frees one.
\* SIGTERM does not change that, in Python although serve_forever never returns.
AnsweredUnlessExhausted ==
  \A c \in Client : (state[c] = "sent") ~> (state[c] = "idle" \/ Exhausted)
=============================================================================
