----------------------------- MODULE NodeRoutes -----------------------------
(***************************************************************************)
(* scenarios/url-templatization/nodejs: one server whose requests go to a  *)
(* handler for raw all-slash URLs, to plain node:http, or to Express, the  *)
(* last two offering the same paths under /plain-http and /http-framework. *)
(*                                                                         *)
(* A path is the sequence of its segments and whether a slash ends it; a   *)
(* parameter of a pattern is written ":".  A segment is a name that is not *)
(* empty and that URL leaves as it is, or one of the dots: "//" inside a   *)
(* path, "\" and percent-encodings are not among the inputs.  A request    *)
(* is answered at once, but for the outbound triggers, which fetch other   *)
(* paths of the process and wait for all of them.                          *)
(***************************************************************************)
EXTENDS NodeProcess, SequencesExt

\* The other spellings of the words below, with capitals, and the word each stands for
\* where case is ignored.
CONSTANT Spelling

Plain     == "plain-http"
Framework == "http-framework"
D         == <<"default">>

Get(segs) == [method |-> "GET", segs |-> segs, slash |-> FALSE]

StaticRoutes ==
  {D \o <<"static", "a">>, D \o <<"static", "a", "b">>, D \o <<"static", "a", "b", "c">>}

TemplatedRoutes ==
  {D \o <<"templated", "1", ":">>, D \o <<"templated", "2", ":", ":">>,
   D \o <<"templated", "3", ":", ":", ":">>}

ErrorRoutes == {D \o <<"errors", c>> : c \in {"400", "401", "404", "500"}}

MethodRoutes ==
  {D \o <<"method", "custom-rule", "items", "widget">>,
   D \o <<"method", "default-heuristic", "orders", "1234567">>,
   D \o <<"method", "unchanged", "catalog", "widgets", "tools">>}

\* Mutant of Matches: the expression is not anchored at its end.
MatchesPrefix(pattern, segs) ==
  /\ Len(segs) >= Len(pattern)
  /\ \A i \in DOMAIN pattern : pattern[i] \in {":", segs[i]}

\* patternToRegExp and the router: each parameter takes one segment.
Matches(pattern, segs) ==
  /\ Len(segs) = Len(pattern)
  /\ \A i \in DOMAIN pattern : pattern[i] \in {":", segs[i]}

\* The path each templated route gives for its example.
Example(pattern) ==
  LET words == <<"foo", "bar", "baz">>
  IN [i \in DOMAIN pattern |-> IF pattern[i] = ":" THEN words[i - 3] ELSE pattern[i]]

\* What the trigger .../outbound/<kind> fetches from the process itself.
OutboundPaths(prefix, kind) ==
  {<<prefix>> \o p : p \in (IF kind = "templated" THEN {} ELSE StaticRoutes)}
  \union
  {<<prefix>> \o Example(p) : p \in (IF kind = "static" THEN {} ELSE TemplatedRoutes)}

Says(by, status, category) ==
  [by |-> by, status |-> status, category |-> category, fetches |-> {}]

Trigger(by, paths) ==
  [by |-> by, status |-> "200", category |-> "outbound", fetches |-> paths]

-----------------------------------------------------------------------------
(* The two handlers *)

Dots == {".", ".."}

\* URL.pathname: dot segments are resolved, from left to right.
Resolve(acc, seg) ==
  IF seg \notin Dots THEN Append(acc, seg)
  ELSE IF seg = "." \/ acc = <<>> THEN acc ELSE Front(acc)

Pathname(segs) ==
  LET resolved[i \in 0 .. Len(segs)] ==
        IF i = 0 THEN <<>> ELSE Resolve(resolved[i - 1], segs[i])
  IN resolved[Len(segs)]

\* handlePlainHttpRequest, for the path after the prefix: literal paths are compared
\* as strings, so that a slash at the end matches the index and the templates only.
PlainAnswer(method, sub, slash) ==
  LET Literal(paths) == ~slash /\ sub \in paths
  IN IF method \notin {"GET", "HEAD"} THEN Says(Plain, "405", "error")
     ELSE
     CASE sub = <<>>                     -> Says(Plain, "200", "index")
       [] Literal(MethodRoutes)          -> Says(Plain, "200", "method_test")
       [] Literal({D})                   -> Says(Plain, "200", "default_index")
       [] Literal({D \o <<"outbound", k>> : k \in {"static", "templated", "all"}}) ->
            Trigger(Plain, OutboundPaths(Plain, Last(sub)))
       [] Literal(ErrorRoutes)           -> Says(Plain, Last(sub), "http_error")
       [] Literal(StaticRoutes)          -> Says(Plain, "200", "static_exact")
       [] \E p \in TemplatedRoutes : Matches(p, sub) -> Says(Plain, "200", "templated")
       [] OTHER                          -> Says(Plain, "404", "not_found")

\* The router, which takes no notice of a slash at the end, and answers HEAD as GET.
FrameworkAnswer(method, sub) ==
  LET Route(paths) == method \in {"GET", "HEAD"} /\ \E p \in paths : Matches(p, sub)
      ByDepth(kind) ==
        IF Last(sub) \in {"1", "2", "3"}
        THEN Trigger(Framework,
               {p \in OutboundPaths(Framework, kind) :
                  IF kind = "static" THEN <<"1", "2", "3">>[Len(p) - 3] = Last(sub)
                                     ELSE p[4] = Last(sub)})
        ELSE Says(Framework, "404", "unknown_depth")
  IN CASE Route({D})             -> Says(Framework, "200", "default_index")
       [] Route(StaticRoutes)    -> Says(Framework, "200", "static_exact")
       [] Route(TemplatedRoutes) -> Says(Framework, "200", "templated")
       [] Route({D \o <<"outbound", k>> : k \in {"static", "templated", "all"}}) ->
            Trigger(Framework, OutboundPaths(Framework, Last(sub)))
       [] Route({D \o <<"outbound", k, ":">> : k \in {"static", "templated"}}) ->
            ByDepth(sub[3])
       [] Route(ErrorRoutes)     -> Says(Framework, Last(sub), "http_error")
       [] OTHER                  -> Says("express", "404", "not_found")

\* A path as Express compares it: its routers ignore case unless told otherwise.
Lower(segs) ==
  [i \in DOMAIN segs |-> IF segs[i] \in DOMAIN Spelling THEN Spelling[segs[i]] ELSE segs[i]]

\* The server's own listener: raw all-slash URLs first, then plain-http by the
\* resolved path, which ends with a slash after dots too, then Express by the raw one.
Dispatch(r) ==
  LET path == Pathname(r.segs)
      low  == Lower(r.segs)
  IN CASE r.segs = <<>> -> Says(Plain, "200", "path_normalization")
       [] r.segs # <<>> /\ path # <<>> /\ path[1] = Plain ->
            PlainAnswer(r.method, Tail(path), r.slash \/ Last(r.segs) \in Dots)
       [] OTHER ->
            CASE low[1] = Framework -> FrameworkAnswer(r.method, Tail(low))
              [] low = <<"healthz">> /\ r.method \in {"GET", "HEAD"} ->
                   Says("express", "200", "health")
              [] OTHER -> Says("express", "404", "not_found")

-----------------------------------------------------------------------------
(* The outbound triggers *)

Triggers ==
  {Get(<<Framework>> \o D \o <<"outbound", k>>) : k \in {"static", "templated"}}
  \union {Get(<<Plain>> \o D \o <<"outbound", "static">>),
          Get(<<Framework>> \o D \o <<"outbound", "static", "2">>)}

TriggerArrives(s) ==
  /\ listening
  /\ \E r \in Triggers : Begin(s, "outbound", <<r>>, Cardinality(Dispatch(r).fetches))
  /\ UNCHANGED <<app, own, listening, code, told, timers, peer, faults, answer>>

\* Mutant of FetchSettles: a fetch that is refused rejects Promise.all, and nothing
\* catches that.
FetchSettlesUncaught(s) ==
  /\ job[s].does = "outbound"
  /\ listening
  /\ IF job[s].left > 1
     THEN /\ job' = [job EXCEPT ![s].left = @ - 1]
          /\ UNCHANGED answer
     ELSE End(s) /\ answer' = [req |-> job[s].req, says |-> <<job[s].refused>>]
  /\ UNCHANGED <<app, own, listening, code, told, timers, peer, faults>>

\* fetchOutbound, whose failure becomes a result of its own; after the last one the
\* trigger is answered.  A process that closes still serves the connections it has.
FetchSettles(s) ==
  /\ job[s].does = "outbound"
  /\ \E no \in IF listening THEN {0} ELSE {0, 1} :
       IF job[s].left > 1
       THEN /\ job' = [job EXCEPT ![s].left = @ - 1, ![s].refused = @ + no]
            /\ UNCHANGED answer
       ELSE End(s) /\ answer' = [req |-> job[s].req, says |-> <<job[s].refused + no>>]
  /\ UNCHANGED <<app, own, listening, code, told, timers, peer, faults>>

RoutesNext == Sigterm({}, TRUE) \/ \E s \in Slot : TriggerArrives(s) \/ FetchSettles(s)

-----------------------------------------------------------------------------

\* The words of the routes and of the requests below.
RouteWords ==
  {Plain, Framework, "healthz", "default", "static", "templated", "outbound", "all",
   "errors", "400", "401", "404", "500", "418", "method", "custom-rule", "items", "widget",
   "default-heuristic", "orders", "1234567", "unchanged", "catalog", "widgets", "tools",
   "1", "2", "3", "9", "foo", "bar", "baz", "a", "b", "c", "d", "x", "y", "other"}

\* Requests for a path of either handler, documented or not.
Subs ==
  {<<>>, D, D \o <<"static">>, D \o <<"other">>, D \o <<"errors", "418">>,
   D \o <<"templated", "1">>, D \o <<"templated", "2", "x">>, D \o <<"templated", "1", "x", "y">>,
   D \o <<"static", "a", "b", "c", "d">>, D \o <<"outbound", "static", "9">>,
   D \o <<"outbound", "templated", "3">>, D \o <<"static", "x", "..", "a">>,
   D \o <<"static", ".", "a">>}
  \union {D \o <<s, "a">> : s \in {s \in DOMAIN Spelling : Spelling[s] = "static"}}
  \union StaticRoutes \union ErrorRoutes \union MethodRoutes
  \union {Example(p) : p \in TemplatedRoutes}
  \union {D \o <<"outbound", k>> : k \in {"static", "templated", "all"}}

\* The paths that only one handler has: plain-http's own index and method paths, the
\* dots it alone resolves, the capitals that Express alone ignores, and the shortcuts
\* by depth that only http-framework has.
OnlyOne(sub) ==
  \/ sub \in MethodRoutes \union {<<>>}
  \/ \E i \in DOMAIN sub : sub[i] \in Dots
  \/ Lower(sub) \in StaticRoutes /\ sub \notin StaticRoutes
  \/ \E kind \in {"static", "templated"}, depth \in {"1", "2", "3"} :
       sub = D \o <<"outbound", kind, depth>>

\* GET of a path has the same answer under both prefixes, and fetches the same paths
\* under its own.
AnsweredAlike(sub) ==
  LET plain == Dispatch(Get(<<Plain>> \o sub))
      fw    == Dispatch(Get(<<Framework>> \o sub))
  IN /\ plain.status = fw.status
     /\ {Tail(p) : p \in plain.fetches} = {Tail(p) : p \in fw.fetches}

\* "Each Deployment exposes the same paths under two prefixes", with "no per-depth
\* outbound shortcuts" under the plain one: GET of a path as the document writes it
\* has the same answer from both, but for the paths that only one of them has.  What a
\* trigger fetches is answered with 200 and is never a trigger itself, so that no
\* request can fan out twice.
RoutedAlike ==
  /\ \A sub \in Subs : AnsweredAlike(sub) <=> ~OnlyOne(sub)
  /\ \A sub \in Subs, method \in {"GET", "HEAD", "POST"}, slash \in BOOLEAN,
       prefix \in {Plain, Framework} \union DOMAIN Spelling :
       \A path \in Dispatch([method |-> method, segs |-> <<prefix>> \o sub,
                             slash |-> slash]).fetches :
         Dispatch(Get(path)).status = "200" /\ Dispatch(Get(path)).fetches = {}
=============================================================================
