----------------------------- MODULE RedisStack -----------------------------
(***************************************************************************)
(* stacks/redis-stack: session-python and cache-go write to Redis, cache-go *)
(* and the gateways ask notifier-java to queue a notification, and         *)
(* worker-nodejs pops the notifications one by one.                        *)
(*                                                                         *)
(* The services are threaded: each request is a process whose calls are    *)
(* actions.  Redis (external) executes one command at a time.  An element  *)
(* that BRPOP has removed from the list is on its way to the worker.       *)
(***************************************************************************)
EXTENDS Integers, Sequences, FiniteSets, SequencesExt

CONSTANTS
  Client,       \* requests under way at once
  Key,          \* cache and session keys
  MaxRequests,  \* bound: requests, whose numbers are the values they carry
  MaxFailures   \* bound: failed calls and crashes

ASSUME RedisAssumption == MaxRequests \in Nat /\ MaxFailures \in Nat

Value   == 1 .. MaxRequests
Miss    == 0                     \* no value
Idle    == [kind |-> "none", key |-> "none", value |-> Miss, at |-> "none"]

VARIABLES
  session,   \* Redis: session:<key>
  cache,     \* Redis: cache:<key>
  queue,     \* Redis: list "notifications"; LPUSH puts in front, BRPOP takes the end
  task,      \* services: what each request is doing
  requests,  \* number of requests
  pushed,    \* history: messages, in the order of their LPUSH
  popped,    \* the reply to BRPOP that is on its way to the worker
  worker,    \* worker: "starting", "blocked"
  processedByWorker, \* worker: processedByWorker
  handled,   \* history: messages the worker handled, in order
  lost,      \* history: popped messages that no worker got
  failures     \* number of failures

redisVars  == <<session, cache, queue>>
workerVars == <<popped, worker, processedByWorker, handled, lost>>
redisStackVars == <<redisVars, task, requests, pushed, workerVars, failures>>

RedisInit ==
  /\ session = [k \in Key |-> Miss]
  /\ cache = [k \in Key |-> Miss]
  /\ queue = <<>>
  /\ task = [c \in Client |-> Idle]
  /\ requests = 0
  /\ pushed = <<>>
  /\ popped = <<>>
  /\ worker = "starting"
  /\ processedByWorker = 0
  /\ handled = <<>>
  /\ lost = {}
  /\ failures = 0

Failure == failures < MaxFailures /\ failures' = failures + 1

-----------------------------------------------------------------------------
(* session-python, cache-go and notifier-java *)

First(kind) == CASE kind = "session" -> "store"
                 [] kind = "cache"   -> "set"
                 [] kind = "notify"  -> "push"

\* POST /session/<key>, POST /cache/<key>, POST /notify: from the gateways.
Request(c, kind, k) ==
  /\ task[c] = Idle
  /\ requests < MaxRequests
  /\ requests' = requests + 1
  /\ task' = [task EXCEPT ![c] = [kind |-> kind, key |-> k, value |-> requests + 1,
                                  at |-> First(kind)]]
  /\ UNCHANGED <<redisVars, pushed, workerVars, failures>>

Proceed(c, at) == task' = [task EXCEPT ![c].at = at]

\* The answer; its status changes nothing in this stack.
Reply(c) == task' = [task EXCEPT ![c] = Idle]

\* session-python: hset, then a GET to cache-go; a failing Redis is a 500.
StoreSession(c) ==
  /\ task[c].at = "store"
  /\ session' = [session EXCEPT ![task[c].key] = task[c].value]
  /\ Proceed(c, "warm")
  /\ UNCHANGED <<cache, queue, requests, pushed, workerVars, failures>>

\* GET /cache/<key>: cache-go answers, or session-python gives up after 10 s.
WarmCache(c) ==
  /\ task[c].at = "warm"
  /\ Reply(c)
  /\ UNCHANGED failures \/ Failure
  /\ UNCHANGED <<redisVars, requests, pushed, workerVars>>

StoreFails(c) ==
  /\ task[c].at = "store"
  /\ Failure
  /\ Reply(c)
  /\ UNCHANGED <<redisVars, requests, pushed, workerVars>>

\* Mutant of SetCache: answers when the value is set, without the notification.
SetCacheOnly(c) ==
  /\ task[c].at = "set"
  /\ cache' = [cache EXCEPT ![task[c].key] = task[c].value]
  /\ Reply(c)
  /\ UNCHANGED <<session, queue, requests, pushed, workerVars, failures>>

\* cache-go: SET with an expiry; what Redis answers is ignored.  Nobody
\* subscribes to the PUBLISH that follows.
SetCache(c) ==
  /\ task[c].at = "set"
  /\ \/ cache' = [cache EXCEPT ![task[c].key] = task[c].value] /\ UNCHANGED failures
     \/ UNCHANGED cache /\ Failure
  /\ Proceed(c, "push")
  /\ UNCHANGED <<session, queue, requests, pushed, workerVars>>

Enqueue(c) ==
  /\ queue' = <<task[c].value>> \o queue
  /\ pushed' = Append(pushed, task[c].value)

\* notifier-java: LPUSH, on behalf of cache-go or of a gateway.
Push(c) ==
  /\ task[c].at = "push"
  /\ Enqueue(c)
  /\ Reply(c)
  /\ UNCHANGED <<session, cache, requests, workerVars, failures>>

\* The call to the notifier fails, before or after its LPUSH: cache-go ignores it,
\* the gateways answer 500.
PushFails(c) ==
  /\ task[c].at = "push"
  /\ Failure
  /\ Enqueue(c) \/ UNCHANGED <<queue, pushed>>
  /\ Reply(c)
  /\ UNCHANGED <<session, cache, requests, workerVars>>

\* Redis drops a cached value after five minutes.
Expire(k) ==
  /\ cache[k] # Miss
  /\ cache' = [cache EXCEPT ![k] = Miss]
  /\ UNCHANGED <<session, queue, task, requests, pushed, workerVars, failures>>

-----------------------------------------------------------------------------
(* worker-nodejs *)

\* run(): connect, and brPop with no timeout.
Connect ==
  /\ worker = "starting"
  /\ worker' = "blocked"
  /\ UNCHANGED <<redisVars, task, requests, pushed, popped, processedByWorker,
                 handled, lost, failures>>

\* Mutant of Pop: takes the end that LPUSH puts in.
PopNewest ==
  /\ worker = "blocked" /\ popped = <<>> /\ queue # <<>>
  /\ popped' = <<Head(queue)>>
  /\ queue' = Tail(queue)
  /\ UNCHANGED <<session, cache, task, requests, pushed, worker, processedByWorker,
                 handled, lost, failures>>

\* Mutant of Pop: asks for two elements and uses the first.
PopTwo ==
  /\ worker = "blocked" /\ popped = <<>> /\ queue # <<>>
  /\ popped' = <<Last(queue)>>
  /\ queue' = SubSeq(queue, 1, Len(queue) - 2)
  /\ UNCHANGED <<session, cache, task, requests, pushed, worker, processedByWorker,
                 handled, lost, failures>>

\* Redis answers the blocked BRPOP: the message is in no list any more.
Pop ==
  /\ worker = "blocked" /\ popped = <<>> /\ queue # <<>>
  /\ popped' = <<Last(queue)>>
  /\ queue' = Front(queue)
  /\ UNCHANGED <<session, cache, task, requests, pushed, worker, processedByWorker,
                 handled, lost, failures>>

Process ==
  /\ worker = "blocked" /\ popped # <<>>
  /\ processedByWorker' = processedByWorker + 1
  /\ handled' = handled \o popped
  /\ popped' = <<>>
  /\ UNCHANGED <<redisVars, task, requests, pushed, worker, lost, failures>>

\* The worker restarts, or its connection breaks and brPop throws, which ends
\* run() and the process.  A reply on its way is lost.
WorkerCrash ==
  /\ Failure
  /\ worker' = "starting"
  /\ processedByWorker' = 0
  /\ lost' = lost \union ToSet(popped)
  /\ popped' = <<>>
  /\ UNCHANGED <<redisVars, task, requests, pushed, handled>>

-----------------------------------------------------------------------------

Serve(c) ==
  \/ StoreSession(c) \/ WarmCache(c) \/ StoreFails(c)
  \/ SetCache(c) \/ Push(c) \/ PushFails(c)

Work == Connect \/ Pop \/ Process

RedisNext ==
  \/ \E c \in Client : \/ \E kind \in {"session", "cache", "notify"}, k \in Key : Request(c, kind, k)
                       \/ Serve(c)
  \/ \E k \in Key : Expire(k)
  \/ Work
  \/ WorkerCrash

RedisSpec == RedisInit /\ [][RedisNext]_redisStackVars

\* The worker runs and every request is served in the end; crashes are bounded.
FairRedisSpec == RedisSpec /\ WF_redisStackVars(Work) /\ \A c \in Client : WF_redisStackVars(Serve(c))

-----------------------------------------------------------------------------
(* Properties *)

\* The worker handles the notifications in the order in which they were queued,
\* none of them twice; each restart loses at most the one on its way to it.
InOrderAtMostOnce ==
  /\ \A i, j \in DOMAIN handled : i < j =>
       \E m, n \in DOMAIN pushed : m < n /\ pushed[m] = handled[i] /\ pushed[n] = handled[j]
  /\ Cardinality(lost) <= failures

\* While nothing fails, a value in the cache has been announced to the worker or
\* is about to be, whichever of the overlapping requests has set it last.
CachedIsAnnounced ==
  failures = 0 => \A k \in Key : cache[k] # Miss =>
    \/ cache[k] \in ToSet(pushed)
    \/ \E c \in Client : task[c].at = "push" /\ task[c].value = cache[k]

\* Every notification that is queued is handled in the end, or was on its way to
\* a worker that restarted.
QueuedIsHandled ==
  \A v \in Value : (v \in ToSet(pushed)) ~> (v \in ToSet(handled) \union lost)
=============================================================================
