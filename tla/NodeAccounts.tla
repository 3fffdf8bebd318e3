---------------------------- MODULE NodeAccounts ----------------------------
(***************************************************************************)
(* Two services whose handlers await a store: the accounts of nodejs/      *)
(* db-permissions-leak (its start-up, its registration and its login, not  *)
(* what its tokens give access to) over Postgres, and nodejs/aws-sns-sqs   *)
(* over its queues.                                                        *)
(*                                                                         *)
(* The model follows one e-mail address that only the vendor table can     *)
(* hold; own.rows, its rows there, outlives the process.  A lookup reads   *)
(* the other four tables first, here in one step.  own.raced is a history  *)
(* variable: lookups that found nothing while another registration was     *)
(* about to insert.                                                        *)
(***************************************************************************)
EXTENDS NodeProcess

Tables == 5

AccountsStart == [stage |-> "wait", seeded |-> 0, rows |-> 0, raced |-> 0]

\* waitForPostgres: another attempt, or the last.
WaitForPostgres ==
  /\ Alive
  /\ own.stage = "wait"
  /\ IF peer
     THEN own' = [own EXCEPT !.stage = "seed"] /\ UNCHANGED <<code, listening, timers, job>>
     ELSE UNCHANGED own /\ Exit("1")
  /\ UNCHANGED <<app, told, peer, faults, answer>>

\* initDb: a table that is empty gets its three rows, one table after the other; the
\* rows of an earlier start stay.  Then the server listens.
InitDb ==
  /\ Alive
  /\ own.stage = "seed"
  /\ IF peer
     THEN /\ own' = IF own.seeded < Tables THEN [own EXCEPT !.seeded = @ + 1]
                                           ELSE [own EXCEPT !.stage = "up"]
          /\ listening' = (own.seeded = Tables)
          /\ UNCHANGED <<code, timers, job>>
     ELSE UNCHANGED own /\ Exit("1")
  /\ UNCHANGED <<app, told, peer, faults, answer>>

\* The kubelet starts the container again.
StartsAgain ==
  /\ ~Alive /\ ~told
  /\ own' = [own EXCEPT !.stage = "wait"]
  /\ code' = "none"
  /\ UNCHANGED <<app, listening, told, timers, job, peer, faults, answer>>

\* db.js gives its pool no listener for 'error': a connection that idles in the pool
\* and loses Postgres ends the process, without any query.
IdleClientLost ==
  /\ Alive
  /\ own.stage # "wait" /\ ~peer
  /\ Exit("1")
  /\ UNCHANGED <<app, own, told, peer, faults, answer>>

AccountRequest(s) ==
  /\ listening
  /\ Begin(s, "register", <<"register">>, 3) \/ Begin(s, "login", <<"login">>, 2)
  /\ UNCHANGED <<app, own, listening, code, told, timers, peer, faults, answer>>

Reply(s, status) ==
  End(s) /\ answer' = [req |-> job[s].req, says |-> <<status>>]

\* POST /auth/register, validated: two awaits of lookupAccount, then the INSERT, which
\* no constraint checks; a query that fails is caught.
Register(s) ==
  /\ job[s].does = "register"
  /\ CASE ~peer -> Reply(s, "400") /\ UNCHANGED own
       [] peer /\ job[s].left = 3 ->
            job' = [job EXCEPT ![s].left = 2] /\ UNCHANGED <<own, answer>>
       [] peer /\ job[s].left = 2 /\ own.rows > 0 -> Reply(s, "409") /\ UNCHANGED own
       [] peer /\ job[s].left = 2 /\ own.rows = 0 ->
            /\ job' = [job EXCEPT ![s].left = 1]
            /\ own' = IF \E o \in Slot : job[o].does = "register" /\ job[o].left = 1
                      THEN [own EXCEPT !.raced = @ + 1] ELSE own
            /\ UNCHANGED answer
       [] peer /\ job[s].left = 1 -> Reply(s, "201") /\ own' = [own EXCEPT !.rows = @ + 1]
  /\ UNCHANGED <<app, listening, code, told, timers, peer, faults>>

\* POST /auth/login: nothing catches a query that fails, and an unhandled rejection
\* ends the process and every request it was serving.
Login(s) ==
  /\ job[s].does = "login"
  /\ IF peer
     THEN /\ IF job[s].left = 2 THEN job' = [job EXCEPT ![s].left = 1] /\ UNCHANGED answer
                                ELSE Reply(s, IF own.rows > 0 THEN "200" ELSE "401")
          /\ UNCHANGED <<code, listening, timers>>
     ELSE Exit("1") /\ UNCHANGED answer
  /\ UNCHANGED <<app, own, told, peer, faults>>

AccountsRuns == WaitForPostgres \/ InitDb \/ StartsAgain
AccountsNext == AccountsRuns \/ IdleClientLost \/ Killed
             \/ \E s \in Slot : AccountRequest(s) \/ Register(s) \/ Login(s)

\* "email already registered": an address has one account, but for registrations that
\* both looked before either inserted.
OneAccount == own.rows <= 1 + own.raced

-----------------------------------------------------------------------------
(* nodejs/aws-sns-sqs *)

\* The four endpoints send one command each.
QueueRequest(s) ==
  /\ listening
  /\ \E op \in {"/sqs/send", "/sns/publish", "/sqs/receive", "/sns/receive"} :
       Begin(s, "queue", <<op>>, 1)
  /\ UNCHANGED <<app, own, listening, code, told, timers, peer, faults, answer>>

QueueSettles(s) ==
  /\ job[s].does = "queue"
  /\ Reply(s, IF peer THEN "200" ELSE "500")
  /\ UNCHANGED <<app, own, listening, code, told, timers, peer, faults>>

QueuesNext == Sigterm({"deadline"}, TRUE)
           \/ \E s \in Slot : QueueRequest(s) \/ QueueSettles(s)
=============================================================================
