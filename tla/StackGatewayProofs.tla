------------------------- MODULE StackGatewayProofs -------------------------
(***************************************************************************)
(* Proofs about the stacks behind the gateway.  StackGateway, for any      *)
(* number of requests, users and faults and every transaction: what the    *)
(* steps of a chain say about what its calls have done.  StackCopies, for  *)
(* any number of clients, keys, bodies and failures: which copies agree    *)
(* with what they are copies of, and how many updates can be lost.         *)
(***************************************************************************)
EXTENDS StackGateway, StackCopies, SequenceTheorems, TLAPS

-----------------------------------------------------------------------------
(* What makes the properties inductive. *)

Run  == [txn : Txn \union {"none"}, user : User \union {"none"}, at : Nat \ {0},
         phase : {"new", "sent", "served", "200", "500", "cut"}, reply : Status]
Step == [call : Call, status : Status]

TypeOK ==
  /\ run \in [Request -> Run]
  /\ steps \in [Request -> Seq(Step)]
  /\ effects \in [Request -> SUBSET Call]

\* What leaves something behind when it succeeds.
Writes == Call \ (Reads \union {"cache"})

\* There is a step for every call that has ended, in the order of the plan, and only
\* the gRPC calls may have failed.
StepsFollow(r) ==
  run[r].phase # "new" =>
    /\ run[r].txn \in Txn
    /\ Len(steps[r]) = run[r].at - 1
    /\ run[r].at <= Len(Calls(r)) + 1
    /\ \A i \in DOMAIN steps[r] :
         /\ steps[r][i].call = Calls(r)[i]
         /\ steps[r][i].status = "failed" => steps[r][i].call \in Tolerated
    /\ run[r].phase = "served" => run[r].at <= Len(Calls(r))
    /\ run[r].phase = "200" => run[r].at = Len(Calls(r)) + 1

\* A call that was answered with ok has done its work, also the one whose answer
\* is on its way.
OkIsDone(r) ==
  /\ \A i \in DOMAIN steps[r] :
       steps[r][i].status = "ok" /\ steps[r][i].call \in Writes
         => steps[r][i].call \in effects[r]
  /\ run[r].phase = "served" /\ run[r].reply = "ok" /\ Current(r) \in Writes
       => Current(r) \in effects[r]

\* What a request has done it has reported, up to the call under way.
DoneIsReported(r) ==
  /\ run[r].phase = "new" => effects[r] = {} /\ steps[r] = <<>>
  /\ run[r].phase \in {"sent", "200"} => effects[r] \subseteq Reported(r)
  /\ run[r].phase \in {"served", "500"} => effects[r] \subseteq Reported(r) \union {Current(r)}

Explained(r) == "billing" \in effects[r] /\ "orders" \notin effects[r]
                  => HasStep(r, "orders", "error")

\* A served call has not failed.
Served(r) == run[r].phase = "served" => run[r].reply # "failed"

Sound(r) == StepsFollow(r) /\ OkIsDone(r) /\ DoneIsReported(r) /\ Explained(r) /\ Served(r)

IInv == TypeOK /\ \A r \in Request : Sound(r)

-----------------------------------------------------------------------------
(* The plans and the answers of the services *)

\* billing-java is called right after orders-python.
Ordered(s) ==
  /\ s \in Seq(Call)
  /\ \A i \in DOMAIN s : s[i] = "billing" => i - 1 \in DOMAIN s /\ s[i - 1] = "orders"

LEMMA ConcatOrdered ==
  ASSUME NEW s, NEW t, Ordered(s), Ordered(t)
  PROVE  Ordered(s \o t)
<1>1. /\ s \o t \in Seq(Call) /\ Len(s \o t) = Len(s) + Len(t)
      /\ \A i \in 1 .. Len(s) + Len(t) :
           (s \o t)[i] = IF i <= Len(s) THEN s[i] ELSE t[i - Len(s)]
      /\ Len(s) \in Nat /\ Len(t) \in Nat
      /\ DOMAIN s = 1 .. Len(s) /\ DOMAIN t = 1 .. Len(t)
  BY ConcatProperties DEF Ordered
<1>2. ASSUME NEW i \in DOMAIN (s \o t), (s \o t)[i] = "billing"
      PROVE  i - 1 \in DOMAIN (s \o t) /\ (s \o t)[i - 1] = "orders"
  <2>1. i \in 1 .. Len(s) + Len(t) /\ DOMAIN (s \o t) = 1 .. Len(s) + Len(t)
    BY <1>1
  <2>2. CASE i <= Len(s)
    <3>1. i \in DOMAIN s /\ s[i] = "billing"
      BY <1>1, <1>2, <2>1, <2>2
    <3>2. i - 1 \in DOMAIN s /\ s[i - 1] = "orders"
      BY <3>1 DEF Ordered
    <3>. QED
      BY <1>1, <2>1, <2>2, <3>2
  <2>3. CASE i > Len(s)
    <3>1. i - Len(s) \in DOMAIN t /\ t[i - Len(s)] = "billing"
      BY <1>1, <1>2, <2>1, <2>3
    <3>2. (i - Len(s)) - 1 \in DOMAIN t /\ t[(i - Len(s)) - 1] = "orders"
      BY <3>1 DEF Ordered
    <3>3. (i - Len(s)) - 1 = (i - 1) - Len(s)
      BY <1>1, <2>1
    <3>4. i - 1 \in 1 .. Len(s) + Len(t) /\ i - 1 > Len(s)
      BY <1>1, <2>1, <3>2, <3>3
    <3>. QED
      BY <1>1, <2>1, <3>2, <3>3, <3>4
  <2>. QED
    BY <1>1, <2>1, <2>2, <2>3
<1>. QED
  BY <1>1, <1>2 DEF Ordered

LEMMA StacksOrdered ==
  /\ Ordered(RedisStack) /\ Ordered(KafkaStack) /\ Ordered(PostgresStack)
  /\ Ordered(<<"messaging", "search">>) /\ Ordered(<<"messaging">>) /\ Ordered(<<"search">>)
<1>1. Ordered(RedisStack)
  BY DEF Ordered, RedisStack, Call
<1>2. Ordered(KafkaStack)
  BY DEF Ordered, KafkaStack, Call
<1>3. Ordered(PostgresStack)
  BY DEF Ordered, PostgresStack, Call
<1>4. Ordered(<<"messaging", "search">>)
  BY DEF Ordered, Call
<1>5. Ordered(<<"messaging">>) /\ Ordered(<<"search">>)
  BY DEF Ordered, Call
<1>. QED
  BY <1>1, <1>2, <1>3, <1>4, <1>5

LEMMA PlanOrdered == \A t \in Transaction : Ordered(Plan[t])
<1>. SUFFICES ASSUME NEW t \in Transaction PROVE Ordered(Plan[t])
  OBVIOUS
<1>1. Plan[t] \in {RedisStack \o KafkaStack \o PostgresStack,
                  KafkaStack \o PostgresStack \o RedisStack,
                  PostgresStack \o RedisStack \o KafkaStack,
                  RedisStack \o KafkaStack \o PostgresStack \o <<"messaging", "search">>,
                  <<"messaging">>, <<"search">>}
  BY Zenon DEF Plan, Transaction
<1>. QED
  BY <1>1, StacksOrdered, ConcatOrdered

\* A service that answers with ok has done what it was asked for.
LEMMA AnswerSound ==
  ASSUME NEW c \in Call, NEW u, NEW a \in Normal(c, u) \union Refused(c)
  PROVE  /\ a.status \in {"ok", "error"}
         /\ a.status = "ok" /\ c \in Writes => a.effect
<1>1. Normal(c, u) \in {UsersGo(u), OrdersPython(u), BillingJava, AuditGo, InventoryGo,
                       {Answer("ok", FALSE)}, {Answer("ok", TRUE)}}
  BY Zenon DEF Normal
<1>2. c \in Writes => Normal(c, u) \in {OrdersPython(u), BillingJava, AuditGo, {Answer("ok", TRUE)}}
  BY Zenon DEF Normal, Writes, Reads
<1>3. Refused(c) \in {{Answer("ok", FALSE)}, {}, {Answer("error", TRUE), Answer("error", FALSE)},
                     {Answer("error", FALSE)}}
  BY Zenon DEF Refused
<1>4. c \in Writes => Refused(c) \in {{}, {Answer("error", TRUE), Answer("error", FALSE)},
                                     {Answer("error", FALSE)}}
  BY Zenon DEF Refused, Writes
<1>. QED
  BY <1>1, <1>2, <1>3, <1>4 DEF UsersGo, OrdersPython, BillingJava, AuditGo, InventoryGo, Answer

\* What the invariant says of the plan of a request.
LEMMA CallsSound ==
  ASSUME IInv, NEW r \in Request, run[r].phase # "new"
  PROVE  /\ Ordered(Calls(r))
         /\ Calls(r) \in Seq(Call) /\ Len(Calls(r)) \in Nat
         /\ steps[r] \in Seq(Step) /\ DOMAIN steps[r] = 1 .. (run[r].at - 1)
         /\ run[r].at \in Nat \ {0}
         /\ run[r].at <= Len(Calls(r)) => Current(r) \in Call
<1>1. run[r].txn \in Txn /\ Len(steps[r]) = run[r].at - 1
  BY DEF IInv, Sound, StepsFollow
<1>2. Ordered(Calls(r))
  BY <1>1, PlanOrdered, TxnAssumption DEF Calls, Plan
<1>3. Calls(r) \in Seq(Call) /\ Len(Calls(r)) \in Nat
  BY <1>2 DEF Ordered
<1>4. run[r].at \in Nat \ {0} /\ steps[r] \in Seq(Step)
  BY DEF IInv, TypeOK, Run
<1>5. run[r].at <= Len(Calls(r)) => Current(r) \in Call
  BY <1>3, <1>4 DEF Current
<1>6. DOMAIN steps[r] = 1 .. (run[r].at - 1)
  BY <1>1, <1>4
<1>. QED
  BY <1>2, <1>3, <1>4, <1>5, <1>6

\* A step of r concerns r alone.
LEMMA RequestFrame ==
  ASSUME IInv, NEW r \in Request, NEW run1 \in Run, NEW steps1 \in Seq(Step),
         NEW effects1 \in SUBSET Call,
         run' = [run EXCEPT ![r] = run1], steps' = [steps EXCEPT ![r] = steps1],
         effects' = [effects EXCEPT ![r] = effects1],
         Sound(r)'
  PROVE  IInv'
<1>1. TypeOK'
  BY DEF IInv, TypeOK
<1>2. ASSUME NEW q \in Request \ {r} PROVE Sound(q)'
  <2>1. run'[q] = run[q] /\ steps'[q] = steps[q] /\ effects'[q] = effects[q]
    BY DEF IInv, TypeOK
  <2>2. Sound(q)
    BY DEF IInv
  <2>3. Calls(q)' = Calls(q) /\ Current(q)' = Current(q) /\ Reported(q)' = Reported(q)
    BY <2>1 DEF Calls, Current, Reported
  <2>4. StepsFollow(q)' /\ OkIsDone(q)' /\ Served(q)'
    BY <2>1, <2>2, <2>3 DEF Sound, StepsFollow, OkIsDone, Served
  <2>5. DoneIsReported(q)' /\ Explained(q)'
    BY <2>1, <2>2, <2>3 DEF Sound, DoneIsReported, Explained, HasStep
  <2>. QED
    BY <2>4, <2>5 DEF Sound
<1>. QED
  BY <1>1, <1>2 DEF IInv

-----------------------------------------------------------------------------
(* The gateway *)

LEMMA NewRunSound == NewRun \in Run /\ NewRun.at = 1 /\ NewRun.phase = "new"
BY DEF NewRun, Run, Status

LEMMA StartInv ==
  ASSUME IInv, NEW r \in Request, NEW t \in Txn, NEW u \in User, Start(r, t, u)
  PROVE  IInv'
<1>. DEFINE run1 == [NewRun EXCEPT !.txn = t, !.user = u, !.phase = "sent"]
<1>1. /\ run[r].phase = "new" /\ run' = [run EXCEPT ![r] = run1]
      /\ UNCHANGED <<steps, effects>>
  BY DEF Start
<1>2. run1 \in Run /\ run1.txn = t /\ run1.at = 1 /\ run1.phase = "sent"
  <2>1. NewRun \in Run /\ NewRun.at = 1
    BY NewRunSound
  <2>. QED
    BY <2>1 DEF Run
<1>. HIDE DEF run1
<1>3. run'[r] = run1
  BY <1>1 DEF IInv, TypeOK
<1>4. steps[r] = <<>> /\ effects[r] = {}
  BY <1>1 DEF IInv, Sound, DoneIsReported
<1>5. Len(Calls(r)') \in Nat
  <2>1. Ordered(Plan[t])
    BY PlanOrdered, TxnAssumption DEF Plan
  <2>. QED
    BY <1>2, <1>3, <2>1 DEF Calls, Ordered
<1>6. StepsFollow(r)'
  BY <1>1, <1>2, <1>3, <1>4, <1>5 DEF StepsFollow
<1>7. OkIsDone(r)' /\ DoneIsReported(r)' /\ Explained(r)' /\ Served(r)'
  BY <1>1, <1>2, <1>3, <1>4 DEF OkIsDone, DoneIsReported, Explained, Served
<1>8. /\ steps' = [steps EXCEPT ![r] = steps[r]] /\ effects' = [effects EXCEPT ![r] = effects[r]]
      /\ steps[r] \in Seq(Step) /\ effects[r] \in SUBSET Call
  BY <1>1 DEF IInv, TypeOK
<1>. QED
  BY <1>1, <1>2, <1>6, <1>7, <1>8, RequestFrame DEF Sound

\* A service is reached: billing-java after orders-python, whose step then says
\* whether there is an order.
LEMMA ServeInv ==
  ASSUME IInv, NEW r \in Request, Serve(r)
  PROVE  IInv'
<1>. DEFINE c == Current(r)
<1>1. run[r].phase = "sent" /\ run[r].at <= Len(Calls(r)) /\ UNCHANGED steps
  BY DEF Serve, More
<1>2. PICK a \in Normal(c, run[r].user) \union Refused(c) :
        /\ run' = [run EXCEPT ![r].phase = "served", ![r].reply = a.status]
        /\ effects' = [effects EXCEPT ![r] = IF a.effect THEN @ \union {c} ELSE @]
  BY DEF Serve
<1>3. c \in Call /\ c = Calls(r)[run[r].at]
  BY <1>1, CallsSound DEF Current
<1>4. a.status \in {"ok", "error"} /\ (a.status = "ok" /\ c \in Writes => a.effect)
  BY <1>3, AnswerSound
<1>. DEFINE run1 == [run[r] EXCEPT !.phase = "served", !.reply = a.status]
            effects1 == IF a.effect THEN effects[r] \union {c} ELSE effects[r]
<1>5. /\ run1 \in Run /\ run1.phase = "served" /\ run1.reply = a.status
      /\ run1.txn = run[r].txn /\ run1.at = run[r].at
  <2>1. run[r] \in Run /\ a.status \in Status
    BY <1>4 DEF IInv, TypeOK, Status
  <2>. QED
    BY <2>1 DEF Run
<1>6. run' = [run EXCEPT ![r] = run1] /\ effects' = [effects EXCEPT ![r] = effects1]
  BY <1>2 DEF IInv, TypeOK
<1>7. /\ effects1 \in SUBSET Call /\ effects[r] \subseteq effects1
      /\ effects1 \subseteq effects[r] \union {c}
      /\ a.status = "ok" /\ c \in Writes => c \in effects1
  BY <1>3, <1>4 DEF IInv, TypeOK
<1>. HIDE DEF run1, effects1, c
<1>8. run'[r] = run1 /\ effects'[r] = effects1 /\ steps'[r] = steps[r]
  BY <1>1, <1>6 DEF IInv, TypeOK
<1>9. Calls(r)' = Calls(r) /\ Current(r)' = c /\ Reported(r)' = Reported(r)
  BY <1>3, <1>5, <1>8 DEF Calls, Current, Reported
<1>10. Sound(r)
  BY DEF IInv
<1>11. StepsFollow(r)'
  BY <1>1, <1>5, <1>8, <1>9, <1>10 DEF Sound, StepsFollow
<1>12. OkIsDone(r)'
  BY <1>5, <1>7, <1>8, <1>9, <1>10 DEF Sound, OkIsDone
<1>13. DoneIsReported(r)'
  BY <1>1, <1>5, <1>7, <1>8, <1>9, <1>10 DEF Sound, DoneIsReported
<1>14. Explained(r)'
  <2>. SUFFICES ASSUME "billing" \in effects1, "orders" \notin effects1
                PROVE  HasStep(r, "orders", "error")
    BY <1>8 DEF Explained, HasStep
  <2>1. CASE "billing" \in effects[r]
    BY <1>7, <1>10, <2>1 DEF Sound, Explained
  <2>2. CASE "billing" \notin effects[r]
    <3>. DEFINE i == run[r].at - 1
    <3>1. c = "billing"
      BY <1>7, <2>2
    <3>2. i \in DOMAIN Calls(r) /\ Calls(r)[i] = "orders" /\ i \in DOMAIN steps[r]
      <4>1. /\ Ordered(Calls(r)) /\ Calls(r) \in Seq(Call) /\ run[r].at \in Nat \ {0}
            /\ DOMAIN steps[r] = 1 .. (run[r].at - 1)
        BY <1>1, CallsSound
      <4>2. run[r].at \in DOMAIN Calls(r)
        BY <1>1, <4>1
      <4>3. i \in DOMAIN Calls(r) /\ Calls(r)[i] = "orders"
        BY <1>3, <3>1, <4>1, <4>2 DEF Ordered
      <4>4. i \in Nat \ {0}
        BY <4>1, <4>3
      <4>. QED
        BY <4>1, <4>3, <4>4
    <3>3. steps[r][i] \in Step /\ steps[r][i].call = "orders"
      BY <1>1, <1>10, <3>2, CallsSound DEF Sound, StepsFollow
    <3>4. steps[r][i].status # "failed"
      BY <1>1, <1>10, <3>2, <3>3 DEF Sound, StepsFollow, Tolerated
    <3>5. steps[r][i].status # "ok"
      BY <1>7, <1>10, <3>2, <3>3 DEF Sound, OkIsDone, Writes, Call, Reads
    <3>. QED
      BY <3>2, <3>3, <3>4, <3>5 DEF HasStep, Step, Status
  <2>. QED
    BY <2>1, <2>2
<1>15. Served(r)'
  BY <1>4, <1>5, <1>8 DEF Served
<1>16. steps' = [steps EXCEPT ![r] = steps[r]] /\ steps[r] \in Seq(Step)
  BY <1>1 DEF IInv, TypeOK
<1>. QED
  BY <1>5, <1>6, <1>7, <1>11, <1>12, <1>13, <1>14, <1>15, <1>16, RequestFrame DEF Sound

\* A step is pushed for the call under way, which has done what it says.
LEMMA PushInv ==
  ASSUME IInv, NEW r \in Request, NEW status \in Status, More(r), Push(r, status),
         status = "failed" => Current(r) \in Tolerated,
         status = "ok" /\ Current(r) \in Writes => Current(r) \in effects[r],
         UNCHANGED effects
  PROVE  IInv'
<1>. DEFINE c == Current(r)
            s == [call |-> c, status |-> status]
            run1 == [run[r] EXCEPT !.at = @ + 1, !.phase = "sent"]
            steps1 == Append(steps[r], s)
<1>1. run[r].phase \in {"sent", "served"} /\ run[r].at <= Len(Calls(r))
  BY DEF More, Active
<1>2. /\ c \in Call /\ c = Calls(r)[run[r].at] /\ Len(Calls(r)) \in Nat
      /\ run[r].at \in Nat \ {0} /\ steps[r] \in Seq(Step)
      /\ DOMAIN steps[r] = 1 .. (run[r].at - 1)
  BY <1>1, CallsSound DEF Current
<1>3. s \in Step /\ s.call = c /\ s.status = status
  BY <1>2 DEF Step
<1>4. /\ run1 \in Run /\ run1.phase = "sent" /\ run1.txn = run[r].txn
      /\ run1.at = run[r].at + 1
  <2>1. run[r] \in Run
    BY DEF IInv, TypeOK
  <2>2. run[r].at + 1 \in Nat \ {0}
    BY <1>2
  <2>. QED
    BY <2>1, <2>2 DEF Run
<1>5. run' = [run EXCEPT ![r] = run1] /\ steps' = [steps EXCEPT ![r] = steps1]
  BY DEF Push, IInv, TypeOK
<1>6. Sound(r) /\ Len(steps[r]) = run[r].at - 1
  BY <1>1 DEF IInv, Sound, StepsFollow
<1>. HIDE DEF s, run1, c
<1>7. /\ steps1 \in Seq(Step) /\ Len(steps1) = run[r].at
      /\ DOMAIN steps1 = 1 .. run[r].at /\ steps1[run[r].at] = s
      /\ \A i \in DOMAIN steps[r] : steps1[i] = steps[r][i]
  BY <1>2, <1>3, <1>6
<1>. HIDE DEF steps1
<1>8. run'[r] = run1 /\ steps'[r] = steps1 /\ effects'[r] = effects[r]
  BY <1>5 DEF IInv, TypeOK
<1>9. Calls(r)' = Calls(r)
  BY <1>4, <1>8 DEF Calls
<1>10. \A i \in DOMAIN steps1 : i \in DOMAIN steps[r] \/ i = run[r].at
  BY <1>2, <1>7
<1>11. StepsFollow(r)'
  <2>1. ASSUME NEW i \in DOMAIN steps1
        PROVE  /\ steps1[i].call = Calls(r)[i]
               /\ steps1[i].status = "failed" => steps1[i].call \in Tolerated
    <3>1. CASE i \in DOMAIN steps[r]
      BY <1>1, <1>6, <1>7, <3>1 DEF Sound, StepsFollow
    <3>2. CASE i = run[r].at
      BY <1>2, <1>3, <1>7, <3>2 DEF c
    <3>. QED
      BY <1>10, <3>1, <3>2
  <2>2. run[r].txn \in Txn
    BY <1>1, <1>6 DEF Sound, StepsFollow
  <2>. QED
    BY <1>1, <1>2, <1>4, <1>7, <1>8, <1>9, <2>1, <2>2 DEF StepsFollow
<1>12. OkIsDone(r)'
  <2>1. ASSUME NEW i \in DOMAIN steps1, steps1[i].status = "ok", steps1[i].call \in Writes
        PROVE  steps1[i].call \in effects[r]
    <3>1. CASE i \in DOMAIN steps[r]
      BY <1>6, <1>7, <2>1, <3>1 DEF Sound, OkIsDone
    <3>2. CASE i = run[r].at
      BY <1>3, <1>7, <2>1, <3>2 DEF c
    <3>. QED
      BY <1>10, <3>1, <3>2
  <2>. QED
    BY <1>4, <1>8, <2>1 DEF OkIsDone
<1>13. Reported(r)' = Reported(r) \union {c}
  BY <1>2, <1>3, <1>7, <1>8, <1>10 DEF Reported
<1>14. DoneIsReported(r)'
  BY <1>1, <1>4, <1>6, <1>8, <1>13 DEF Sound, DoneIsReported, c
<1>15. Explained(r)'
  <2>. SUFFICES ASSUME "billing" \in effects[r], "orders" \notin effects[r]
                PROVE  HasStep(r, "orders", "error")'
    BY <1>8 DEF Explained
  <2>1. HasStep(r, "orders", "error")
    BY <1>6 DEF Sound, Explained
  <2>. QED
    BY <1>2, <1>7, <1>8, <2>1 DEF HasStep
<1>16. Served(r)'
  BY <1>4, <1>8 DEF Served
<1>17. effects' = [effects EXCEPT ![r] = effects[r]] /\ effects[r] \in SUBSET Call
  BY DEF IInv, TypeOK
<1>. QED
  BY <1>4, <1>5, <1>7, <1>11, <1>12, <1>14, <1>15, <1>16, <1>17, RequestFrame DEF Sound

LEMMA ReturnsInv ==
  ASSUME IInv, NEW r \in Request, Returns(r)
  PROVE  IInv'
<1>1. run[r].phase = "served" /\ Push(r, run[r].reply) /\ UNCHANGED effects
  BY DEF Returns
<1>2. run[r].reply \in Status
  BY DEF IInv, TypeOK, Run
<1>3. More(r)
  BY <1>1 DEF More, Active, IInv, Sound, StepsFollow
<1>4. run[r].reply # "failed" /\ (run[r].reply = "ok" /\ Current(r) \in Writes => Current(r) \in effects[r])
  BY <1>1 DEF IInv, Sound, OkIsDone, Served
<1>. QED
  BY <1>1, <1>2, <1>3, <1>4, PushInv

\* A chain that ends reports what it has done, up to the call that failed.
LEMMA EndInv ==
  ASSUME IInv, NEW r \in Request, NEW phase \in {"200", "500", "cut"}, run[r].phase \in {"sent", "served"},
         run' = [run EXCEPT ![r].phase = phase], UNCHANGED <<steps, effects>>,
         phase = "200" => run[r].phase = "sent" /\ run[r].at > Len(Calls(r))
  PROVE  IInv'
<1>. DEFINE run1 == [run[r] EXCEPT !.phase = phase]
<1>1. /\ run1 \in Run /\ run1.phase = phase /\ run1.txn = run[r].txn /\ run1.at = run[r].at
      /\ run' = [run EXCEPT ![r] = run1]
  BY DEF IInv, TypeOK, Run
<1>. HIDE DEF run1
<1>2. run'[r] = run1 /\ steps'[r] = steps[r] /\ effects'[r] = effects[r]
  BY <1>1 DEF IInv, TypeOK
<1>3. Calls(r)' = Calls(r) /\ Current(r)' = Current(r) /\ Reported(r)' = Reported(r)
  BY <1>1, <1>2 DEF Calls, Current, Reported
<1>4. Sound(r) /\ Len(Calls(r)) \in Nat /\ run[r].at \in Nat
  BY CallsSound DEF IInv
<1>5. StepsFollow(r)'
  BY <1>1, <1>2, <1>3, <1>4 DEF Sound, StepsFollow
<1>6. OkIsDone(r)' /\ Served(r)' /\ Explained(r)'
  BY <1>1, <1>2, <1>3, <1>4 DEF Sound, OkIsDone, Served, Explained, HasStep
<1>7. DoneIsReported(r)'
  BY <1>1, <1>2, <1>3, <1>4 DEF Sound, DoneIsReported
<1>8. /\ steps' = [steps EXCEPT ![r] = steps[r]] /\ effects' = [effects EXCEPT ![r] = effects[r]]
      /\ steps[r] \in Seq(Step) /\ effects[r] \in SUBSET Call
  BY DEF IInv, TypeOK
<1>. QED
  BY <1>1, <1>5, <1>6, <1>7, <1>8, RequestFrame DEF Sound

LEMMA FailsInv ==
  ASSUME IInv, NEW r \in Request, Fails(r)
  PROVE  IInv'
<1>1. More(r) /\ run[r].phase \in {"sent", "served"} /\ UNCHANGED effects
  BY DEF Fails, More, Active
<1>2. CASE Current(r) \in Tolerated
  <2>1. Push(r, "failed") /\ "failed" \in Status /\ "failed" # "ok"
    BY <1>2 DEF Fails, Status
  <2>. QED
    BY <1>1, <1>2, <2>1, PushInv
<1>3. CASE Current(r) \notin Tolerated
  <2>1. run' = [run EXCEPT ![r].phase = "500"] /\ UNCHANGED steps
    BY <1>3 DEF Fails, End
  <2>. QED
    BY <1>1, <2>1, EndInv
<1>. QED
  BY <1>2, <1>3

LEMMA FinishInv ==
  ASSUME IInv, NEW r \in Request, Finish(r)
  PROVE  IInv'
<1>1. /\ run[r].phase = "sent" /\ run[r].at > Len(Calls(r))
      /\ run' = [run EXCEPT ![r].phase = "200"] /\ UNCHANGED <<steps, effects>>
  BY DEF Finish, End
<1>. QED
  BY <1>1, EndInv

\* Requests that were cut have no answer to be right or wrong.
LEMMA GoneInv ==
  ASSUME IInv, Gone
  PROVE  IInv'
<1>1. /\ run' = [r \in Request |-> IF Active(r) THEN [run[r] EXCEPT !.phase = "cut"] ELSE run[r]]
      /\ UNCHANGED <<steps, effects>>
  BY DEF Gone
<1>2. ASSUME NEW r \in Request
      PROVE  /\ run'[r] \in Run /\ run'[r].txn = run[r].txn /\ run'[r].at = run[r].at
             /\ run'[r] # run[r] => run'[r].phase = "cut" /\ run[r].phase # "new"
  BY <1>1 DEF IInv, TypeOK, Run, Active
<1>3. TypeOK'
  BY <1>1, <1>2 DEF IInv, TypeOK
<1>4. ASSUME NEW r \in Request PROVE Sound(r)'
  <2>1. Sound(r)
    BY DEF IInv
  <2>2. Calls(r)' = Calls(r) /\ Current(r)' = Current(r) /\ Reported(r)' = Reported(r)
    BY <1>1, <1>2 DEF Calls, Current, Reported
  <2>3. StepsFollow(r)'
    BY <1>1, <1>2, <2>1, <2>2 DEF Sound, StepsFollow
  <2>4. OkIsDone(r)' /\ Served(r)' /\ Explained(r)'
    BY <1>1, <1>2, <2>1, <2>2 DEF Sound, OkIsDone, Served, Explained, HasStep
  <2>5. DoneIsReported(r)'
    BY <1>1, <1>2, <2>1, <2>2 DEF Sound, DoneIsReported
  <2>. QED
    BY <2>3, <2>4, <2>5 DEF Sound
<1>. QED
  BY <1>3, <1>4 DEF IInv

-----------------------------------------------------------------------------
(* Theorems. *)

LEMMA InitInv == Init => IInv
<1>. SUFFICES ASSUME Init PROVE IInv
  OBVIOUS
<1>1. NewRun \in Run /\ NewRun.phase = "new"
  BY NewRunSound
<1>2. TypeOK
  BY <1>1 DEF Init, TypeOK
<1>3. ASSUME NEW r \in Request PROVE Sound(r)
  <2>1. run[r].phase = "new" /\ steps[r] = <<>> /\ effects[r] = {}
    BY <1>1 DEF Init
  <2>. QED
    BY <2>1 DEF Sound, StepsFollow, OkIsDone, DoneIsReported, Explained, Served
<1>. QED
  BY <1>2, <1>3 DEF IInv

LEMMA StutterInv ==
  ASSUME IInv, UNCHANGED <<run, steps, effects>>
  PROVE  IInv'
<1>1. TypeOK'
  BY DEF IInv, TypeOK
<1>2. ASSUME NEW r \in Request PROVE Sound(r)'
  <2>1. Calls(r)' = Calls(r) /\ Current(r)' = Current(r) /\ Reported(r)' = Reported(r)
    BY DEF Calls, Current, Reported
  <2>. QED
    BY <2>1 DEF IInv, Sound, StepsFollow, OkIsDone, DoneIsReported, Explained, Served, HasStep
<1>. QED
  BY <1>1, <1>2 DEF IInv

LEMMA NextInv == IInv /\ [Next]_vars => IInv'
<1>. SUFFICES ASSUME IInv, [Next]_vars PROVE IInv'
  OBVIOUS
<1>1. CASE Connect \/ Sigterm \/ UNCHANGED vars
  BY <1>1, StutterInv DEF Connect, Sigterm, vars
<1>2. CASE Exit \/ Crash
  BY <1>2, GoneInv DEF Exit, Crash
<1>3. CASE \E r \in Request : \/ \E t \in Txn, u \in User : Start(r, t, u)
                            \/ Serve(r) \/ Returns(r) \/ Fails(r) \/ Finish(r)
  BY <1>3, StartInv, ServeInv, ReturnsInv, FailsInv, FinishInv
<1>. QED
  BY <1>1, <1>2, <1>3 DEF Next

LEMMA Inductive == Spec => []IInv
BY InitInv, NextInv, PTL DEF Spec

\* A 200 whose steps are all ok means that every service that writes has done its
\* part, cache-go aside.
THEOREM TransactionDone == Spec => []AllOkMeansAllDone
<1>1. IInv => AllOkMeansAllDone
  <2>. SUFFICES ASSUME IInv, NEW r \in Request, run[r].phase = "200",
                       \A i \in DOMAIN steps[r] : steps[r][i].status = "ok",
                       NEW c \in ToSet(Calls(r)), c \notin Reads \union {"cache"}
                PROVE  c \in effects[r]
    BY DEF AllOkMeansAllDone
  <2>1. Sound(r)
    BY DEF IInv
  <2>2. PICK i \in DOMAIN Calls(r) : c = Calls(r)[i]
    BY DEF ToSet
  <2>3. i \in DOMAIN steps[r] /\ c \in Call
    BY <2>1, <2>2, CallsSound DEF Sound, StepsFollow
  <2>4. steps[r][i].call = c
    BY <2>1, <2>2, <2>3 DEF Sound, StepsFollow
  <2>. QED
    BY <2>1, <2>3, <2>4 DEF Sound, OkIsDone, Writes
<1>. QED
  BY <1>1, Inductive, PTL

\* billing-java charges for an order that was not made only in a transaction whose
\* steps say that orders-python has answered with an error.
THEOREM BillingExplained == Spec => []ChargeExplained
<1>1. IInv => ChargeExplained
  BY DEF IInv, Sound, Explained, ChargeExplained
<1>. QED
  BY <1>1, Inductive, PTL

\* The steps of an answer name everything that has been done, but for the call of a
\* 500 that failed.
THEOREM AnswersComplete == Spec => []EffectsReported
<1>1. IInv => EffectsReported
  BY DEF IInv, Sound, DoneIsReported, EffectsReported
<1>. QED
  BY <1>1, Inductive, PTL

-----------------------------------------------------------------------------
(* Inventory: what inventory-go keeps of its topic. *)

InventoryTyped ==
  /\ inventory \in [Key -> Stock]
  /\ txn \in [Client -> [key : Key \union {NoKey}, at : {"done", "load", "store", "lookup"}]]
  /\ \A c \in Client : txn[c].at # "done" => txn[c].key \in Key
  /\ topic \in Seq(Key)
  /\ committed \in Nat /\ position \in Nat /\ failures \in Nat
  /\ hand \in BOOLEAN
  /\ updates \in Seq(Nat)

\* The reader is ahead of the commit by failed commits only, and not at all with a
\* message in hand; it has passed no more than what was stored, lost or is in hand.
ReaderSound ==
  /\ committed <= position /\ position <= Len(topic)
  /\ hand => committed = position /\ position > 0
  /\ position <= Len(updates) + failures + (IF hand THEN 1 ELSE 0)
  /\ \A i \in 1 .. Len(updates) : updates[i] <= committed /\ (hand => updates[i] < committed)
  /\ \A i, j \in 1 .. Len(updates) : i < j => updates[i] < updates[j]

\* Who is about to store has found the key missing before any update of it.
MapSound ==
  /\ \A k \in current : k \in Key /\ inventory[k] # "unknown"
  /\ \A c \in Client :
       txn[c].at = "store" /\ txn[c].key \in current => txn[c].key \in overtaken
  /\ UpdateKept

InventorySound == InventoryTyped /\ ReaderSound /\ MapSound

LEMMA DoneTyped ==
  /\ Done \in [key : Key \union {NoKey}, at : {"done", "load", "store", "lookup"}]
  /\ Done.at = "done"
BY DEF Done

LEMMA InventoryInitSound == InventoryInit => InventorySound
<1>. SUFFICES ASSUME InventoryInit PROVE InventorySound
  OBVIOUS
<1>1. \A c \in Client : txn[c] = Done
  BY DEF InventoryInit
<1>2. InventoryTyped
  <2>1. txn \in [Client -> [key : Key \union {NoKey}, at : {"done", "load", "store", "lookup"}]]
    BY DoneTyped DEF InventoryInit
  <2>2. inventory \in [Key -> Stock]
    BY DEF InventoryInit, Stock
  <2>3. \A c \in Client : txn[c].at # "done" => txn[c].key \in Key
    BY <1>1, DoneTyped
  <2>4. topic \in Seq(Key) /\ updates \in Seq(Nat)
    BY DEF InventoryInit
  <2>. QED
    BY <2>1, <2>2, <2>3, <2>4 DEF InventoryInit, InventoryTyped
<1>3. ReaderSound
  BY DEF InventoryInit, ReaderSound
<1>4. MapSound
  BY DEF InventoryInit, MapSound, UpdateKept
<1>. QED
  BY <1>2, <1>3, <1>4 DEF InventorySound

\* A transaction that moves on touches nothing of the reader.
LEMMA TransactionSound ==
  ASSUME InventorySound, NEW c \in Client,
         (\E k \in Key : Produce(c, k)) \/ Load(c) \/ Store(c) \/ Lookup(c)
  PROVE  InventorySound'
<1>. USE DEF InventorySound
<1>1. CASE \E k \in Key : Produce(c, k)
  <2>1. PICK k \in Key : Produce(c, k)
    BY <1>1
  <2>2. /\ topic' = Append(topic, k)
        /\ txn' = [txn EXCEPT ![c] = [Done EXCEPT !.key = k, !.at = "load"]]
        /\ UNCHANGED <<inventory, committed, position, hand, updates, current, overtaken, failures>>
    BY <2>1 DEF Produce, consumerVars
  <2>. DEFINE u == [Done EXCEPT !.key = k, !.at = "load"]
  <2>6. /\ u \in [key : Key \union {NoKey}, at : {"done", "load", "store", "lookup"}]
        /\ u.key = k /\ u.at = "load"
    BY DoneTyped
  <2>8. txn' = [txn EXCEPT ![c] = u]
    BY <2>2
  <2>. HIDE DEF u
  <2>9. txn'[c] = u /\ \A d \in Client \ {c} : txn'[d] = txn[d]
    BY <2>8 DEF InventoryTyped
  <2>7. topic' \in Seq(Key) /\ Len(topic') = Len(topic) + 1
    BY <2>2 DEF InventoryTyped
  <2>3. InventoryTyped'
    BY <2>2, <2>6, <2>7, <2>8, <2>9 DEF InventoryTyped
  <2>4. ReaderSound'
    BY <2>2, <2>7 DEF InventoryTyped, ReaderSound
  <2>5. MapSound'
    BY <2>2, <2>6, <2>9 DEF MapSound, UpdateKept
  <2>. QED
    BY <2>3, <2>4, <2>5
<1>2. CASE Load(c) \/ Lookup(c)
  <2>1. PICK u \in [key : Key \union {NoKey}, at : {"done", "load", "store", "lookup"}] :
          /\ txn' = [txn EXCEPT ![c] = u]
          /\ u.at # "done" => u.key \in Key
          /\ u.at = "store" => u.key \notin current
          /\ UNCHANGED <<inventory, topic, committed, position, hand, updates, current,
                         overtaken, failures>>
    <3>1. CASE Load(c)
      <4>. DEFINE place == IF inventory[txn[c].key] = "unknown" THEN "store" ELSE "lookup"
                  u == [txn[c] EXCEPT !.at = place]
      <4>1. /\ txn' = [txn EXCEPT ![c] = u] /\ txn[c].at = "load"
            /\ UNCHANGED <<inventory, topic, committed, position, hand, updates, current,
                           overtaken, failures>>
        BY <3>1 DEF Load, consumerVars
      <4>2. /\ u \in [key : Key \union {NoKey}, at : {"done", "load", "store", "lookup"}]
            /\ u.key = txn[c].key /\ u.key \in Key /\ u.at = place
        BY <4>1 DEF InventoryTyped
      <4>3. place = "store" => u.key \notin current
        BY <4>2 DEF MapSound
      <4>. QED
        BY <4>1, <4>2, <4>3
    <3>2. CASE Lookup(c)
      BY <3>2 DEF Lookup, Done, consumerVars
    <3>. QED
      BY <1>2, <3>1, <3>2
  <2>2. txn'[c] = u /\ \A d \in Client \ {c} : txn'[d] = txn[d]
    BY <2>1 DEF InventoryTyped
  <2>3. InventoryTyped'
    BY <2>1, <2>2 DEF InventoryTyped
  <2>4. ReaderSound' /\ MapSound'
    BY <2>1, <2>2 DEF ReaderSound, MapSound, UpdateKept
  <2>. QED
    BY <2>3, <2>4
<1>3. CASE Store(c)
  <2>1. /\ txn[c].at = "store" /\ txn[c].key \in Key
        /\ inventory' = [inventory EXCEPT ![txn[c].key] = "stock"]
        /\ txn' = [txn EXCEPT ![c].at = "lookup"]
        /\ UNCHANGED <<topic, committed, position, hand, updates, current, overtaken, failures>>
    BY <1>3 DEF Store, consumerVars, InventoryTyped
  <2>2. /\ txn'[c].at = "lookup" /\ txn'[c].key = txn[c].key
        /\ \A d \in Client \ {c} : txn'[d] = txn[d]
    BY <2>1 DEF InventoryTyped
  <2>3. InventoryTyped'
    BY <2>1 DEF InventoryTyped, Stock
  <2>4. ReaderSound'
    BY <2>1 DEF ReaderSound
  <2>5. MapSound'
    BY <2>1, <2>2 DEF InventoryTyped, MapSound, UpdateKept
  <2>. QED
    BY <2>3, <2>4, <2>5
<1>. QED
  BY <1>1, <1>2, <1>3

LEMMA ConsumerSound ==
  ASSUME InventorySound, Consume \/ ReadFails \/ Restart
  PROVE  InventorySound'
<1>. USE DEF InventorySound
<1>1. CASE Read
  <2>1. /\ hand = FALSE /\ position < Len(topic)
        /\ hand' = TRUE /\ position' = position + 1 /\ committed' = position + 1
        /\ UNCHANGED <<inventory, txn, topic, updates, current, overtaken, failures>>
    BY <1>1 DEF Read, InventoryTyped
  <2>2. InventoryTyped'
    BY <2>1 DEF InventoryTyped
  <2>3. ReaderSound'
    BY <2>1 DEF InventoryTyped, ReaderSound
  <2>4. MapSound'
    BY <2>1 DEF MapSound, UpdateKept
  <2>. QED
    BY <2>2, <2>3, <2>4
<1>2. CASE ReadFails
  <2>1. /\ hand = FALSE /\ position < Len(topic)
        /\ position' = position + 1 /\ committed' \in {committed, position + 1}
        /\ failures' = failures + 1
        /\ UNCHANGED <<inventory, txn, topic, hand, updates, current, overtaken>>
    BY <1>2 DEF ReadFails, Failure, InventoryTyped
  <2>2. InventoryTyped'
    BY <2>1 DEF InventoryTyped
  <2>3. ReaderSound'
    BY <2>1 DEF InventoryTyped, ReaderSound
  <2>4. MapSound'
    BY <2>1 DEF MapSound, UpdateKept
  <2>. QED
    BY <2>2, <2>3, <2>4
<1>3. CASE Update
  <2>. DEFINE key == topic[position]
  <2>1. /\ hand = TRUE /\ hand' = FALSE
        /\ inventory' = [inventory EXCEPT ![key] = "updated"]
        /\ current' = current \union {key}
        /\ overtaken' = IF \E c \in Client : txn[c].at = "store" /\ txn[c].key = key
                        THEN overtaken \union {key} ELSE overtaken
        /\ updates' = Append(updates, position)
        /\ UNCHANGED <<txn, topic, committed, position, failures>>
    BY <1>3 DEF Update, InventoryTyped
  <2>2. key \in Key
    BY <2>1 DEF InventoryTyped, ReaderSound
  <2>3. /\ Len(updates') = Len(updates) + 1 /\ updates'[Len(updates) + 1] = position
        /\ \A i \in 1 .. Len(updates) : updates'[i] = updates[i]
        /\ updates' \in Seq(Nat) /\ Len(updates) \in Nat
    BY <2>1 DEF InventoryTyped
  <2>4. InventoryTyped'
    BY <2>1, <2>2, <2>3 DEF InventoryTyped, Stock
  <2>5. ReaderSound'
    <3>1. /\ committed' <= position' /\ position' <= Len(topic')
          /\ position' <= Len(updates') + failures' + 0
      BY <2>1, <2>3 DEF InventoryTyped, ReaderSound
    <3>2. \A i \in 1 .. Len(updates') : updates'[i] <= committed'
      BY <2>1, <2>3 DEF InventoryTyped, ReaderSound
    <3>3. ASSUME NEW i \in 1 .. Len(updates'), NEW j \in 1 .. Len(updates'), i < j
          PROVE  updates'[i] < updates'[j]
      <4>1. i \in 1 .. Len(updates) /\ updates'[i] = updates[i] /\ updates[i] < position
        BY <2>1, <2>3, <3>3 DEF ReaderSound
      <4>2. CASE j = Len(updates) + 1
        BY <2>3, <4>1, <4>2
      <4>3. CASE j \in 1 .. Len(updates)
        BY <2>3, <3>3, <4>1, <4>3 DEF ReaderSound
      <4>. QED
        BY <2>3, <4>2, <4>3
    <3>. QED
      BY <2>1, <3>1, <3>2, <3>3 DEF ReaderSound
  <2>. HIDE DEF key
  <2>6. \A k \in current' : k \in Key /\ inventory'[k] # "unknown"
    BY <2>1, <2>2 DEF InventoryTyped, MapSound
  <2>7. \A c \in Client : txn[c].at = "store" /\ txn[c].key \in current' => txn[c].key \in overtaken'
    BY <2>1 DEF MapSound
  <2>8. \A k \in current' \ overtaken' : inventory'[k] = "updated"
    BY <2>1, <2>2 DEF InventoryTyped, MapSound, UpdateKept
  <2>9. MapSound'
    BY <2>1, <2>6, <2>7, <2>8 DEF MapSound, UpdateKept
  <2>. QED
    BY <2>4, <2>5, <2>9
<1>4. CASE Restart
  <2>1. /\ inventory' = [k \in Key |-> "unknown"]
        /\ txn' = [c \in Client |-> IF txn[c].at \in {"load", "store"} THEN Done ELSE txn[c]]
        /\ position' = committed /\ hand' = FALSE /\ current' = {} /\ overtaken' = {}
        /\ failures' = failures + 1
        /\ UNCHANGED <<topic, committed, updates>>
    BY <1>4 DEF Restart, Failure
  <2>2. InventoryTyped'
    <3>1. inventory' \in [Key -> Stock]
      BY <2>1 DEF Stock
    <3>2. txn' \in [Client -> [key : Key \union {NoKey}, at : {"done", "load", "store", "lookup"}]]
      BY <2>1, DoneTyped DEF InventoryTyped
    <3>3. \A c \in Client : txn'[c].at # "done" => txn'[c].key \in Key
      BY <2>1, DoneTyped DEF InventoryTyped
    <3>4. /\ committed' = committed /\ position' = committed /\ failures' = failures + 1
          /\ hand' = FALSE /\ topic' = topic /\ updates' = updates
      BY <2>1
    <3>5. /\ committed \in Nat /\ failures + 1 \in Nat
          /\ topic \in Seq(Key) /\ updates \in Seq(Nat)
      BY DEF InventoryTyped
    <3>. QED
      BY <3>1, <3>2, <3>3, <3>4, <3>5 DEF InventoryTyped
  <2>3. ReaderSound'
    BY <2>1 DEF InventoryTyped, ReaderSound
  <2>4. MapSound'
    BY <2>1 DEF MapSound, UpdateKept
  <2>. QED
    BY <2>2, <2>3, <2>4
<1>. QED
  BY <1>1, <1>2, <1>3, <1>4 DEF Consume

LEMMA InventoryNextSound == InventorySound /\ [InventoryNext]_inventoryVars => InventorySound'
<1>. SUFFICES ASSUME InventorySound, [InventoryNext]_inventoryVars PROVE InventorySound'
  OBVIOUS
<1>1. CASE UNCHANGED inventoryVars
  BY <1>1 DEF inventoryVars, consumerVars, InventorySound, InventoryTyped, ReaderSound,
     MapSound, UpdateKept
<1>2. CASE InventoryNext
  BY <1>2, TransactionSound, ConsumerSound DEF InventoryNext
<1>. QED
  BY <1>1, <1>2

LEMMA InventoryAlwaysSound == CopiesSpec => []InventorySound
<1>1. CopiesInit => InventorySound
  BY InventoryInitSound DEF CopiesInit
<1>2. InventorySound /\ [CopiesNext]_<<stack, inventoryVars, searchVars>> => InventorySound'
  <2>1. [CopiesNext]_<<stack, inventoryVars, searchVars>> => [InventoryNext]_inventoryVars
    BY DEF CopiesNext, KafkaStep, SearchStep
  <2>. QED
    BY <2>1, InventoryNextSound
<1>. QED
  BY <1>1, <1>2, PTL DEF CopiesSpec

\* No event is stored twice, and each failed commit and each restart costs at most
\* one update.
THEOREM LossesBounded == CopiesSpec => []LossBounded
<1>1. InventorySound => LossBounded
  <2>. SUFFICES ASSUME InventorySound PROVE LossBounded
    OBVIOUS
  <2>1. DOMAIN updates = 1 .. Len(updates)
    BY DEF InventorySound, InventoryTyped
  <2>2. Len(updates) \in Nat /\ committed <= Len(updates) + failures + (IF hand THEN 1 ELSE 0)
    BY DEF InventorySound, InventoryTyped, ReaderSound
  <2>. QED
    BY <2>1, <2>2 DEF InventorySound, ReaderSound, LossBounded
<1>. QED
  BY <1>1, InventoryAlwaysSound, PTL

-----------------------------------------------------------------------------
(* SearchStack: what the transactions of gateway-dotnet keep. *)

Places(kind) ==
  IF kind = "customer-lookup" THEN {"customer", "index", "get", "fill"}
  ELSE IF kind = "index-document" THEN {"index", "customer", "post"}
  ELSE {"ship", "index", "search"}

CallState == [kind : Search!Kind \union {"none"}, key : Key \union {Search!None},
         body : Search!Asked \union {Search!None},
         at : {"customer", "index", "get", "fill", "post", "ship", "search", "done"},
         overtaken : BOOLEAN]

WellFormed(v) ==
  IF v.at = "done" THEN v.kind = "none"
  ELSE /\ v.kind \in Search!Kind /\ v.key \in Key /\ v.at \in Places(v.kind)
       /\ v.kind = "index-document" => v.body \in Search!Asked

\* What may be indexed or cached for a request: its body or a default.
Text == Search!Asked \union {"sample", "cached"}

SearchTyped ==
  /\ docs \in [Key -> Text \union {Search!None, "customer", "shipment"}]
  /\ cached \in [Key -> Text \union {Search!None, Search!Hits}]
  /\ call \in [Client -> CallState]
  /\ \A c \in Client : WellFormed(call[c])

\* A writer between its two writes: its body is indexed, unless somebody indexed
\* another one since.
Between(v) == v.kind = "index-document" /\ v.at \in {"customer", "post"}

CallSound(v) ==
  /\ Between(v) /\ ~v.overtaken => docs[v.key] = Search!Indexed(v.body)
  /\ v.kind = "ship-order" /\ v.at = "index" => v.key \in shipments

Agrees(k) ==
  \/ \E b \in Search!Asked : docs[k] = Search!Indexed(b) /\ cached[k] = Search!CopyStored(b)
  \/ k \in lapsed /\ cached[k] \in {Search!None, Search!Hits}

\* Whatever is under way, the copy of a document is wrong between its two writes only.
CopySound(k) ==
  /\ /\ docs[k] \notin {Search!None, "customer", "shipment"} /\ k \notin excused
     /\ ~ \E c \in Client : Between(call[c]) /\ call[c].key = k
     => Agrees(k)
  /\ docs[k] = "shipment" => k \in shipments

SearchSound ==
  /\ SearchTyped
  /\ \A c \in Client : CallSound(call[c])
  /\ \A k \in Key : CopySound(k)

\* What a step of a transaction makes of it.
LEMMA ThenIs ==
  ASSUME NEW c \in Client
  PROVE  /\ call[c].at = "customer" =>
              Search!Then(c) = IF call[c].kind = "customer-lookup" THEN "index" ELSE "post"
         /\ call[c].at = "ship" => Search!Then(c) = "index"
         /\ call[c].at = "index" =>
              /\ call[c].kind = "customer-lookup" => Search!Then(c) = "get"
              /\ call[c].kind = "index-document" => Search!Then(c) = "customer"
              /\ call[c].kind = "ship-order" => Search!Then(c) = "search"
         /\ call[c].at \in {"post", "get", "fill", "search"} => Search!Then(c) = "done"
BY DEF Search!Then

\* The texts of a request are those of no other writer.
LEMMA TextIs ==
  ASSUME NEW b \in Search!Asked
  PROVE  /\ Search!Indexed(b) \in Text /\ Search!CopyStored(b) \in Text
         /\ Search!Indexed(b) \notin {Search!None, "customer", "shipment"}
BY SearchAssumption
   DEF Search!InputTyped, Search!Indexed, Search!CopyStored, Search!Asked, Search!Missing,
       Search!Empty, Search!None, Text

LEMMA OverIs ==
  Search!Over \in CallState /\ Search!Over.at = "done" /\ Search!Over.kind = "none"
BY DEF Search!Over, CallState, Search!None

LEMMA GotoIs ==
  ASSUME SearchTyped, NEW c \in Client, call[c].at # "done", NEW place,
         place = "done" \/ place \in Places(call[c].kind), Search!Goto(c, place)
  PROVE  \E u \in CallState :
           /\ call' = [call EXCEPT ![c] = u] /\ WellFormed(u) /\ u.at = place
           /\ place = "done" => u.kind = "none"
           /\ place # "done" => /\ u.kind = call[c].kind /\ u.key = call[c].key
                                /\ u.body = call[c].body /\ u.overtaken = call[c].overtaken
<1>1. CASE place = "done"
  <2>1. call' = [call EXCEPT ![c] = Search!Over]
    BY <1>1 DEF Search!Goto
  <2>. QED
    BY <1>1, <2>1, OverIs DEF WellFormed
<1>2. CASE place # "done"
  <2>. DEFINE u == [call[c] EXCEPT !.at = place]
  <2>1. call' = [call EXCEPT ![c] = u]
    BY <1>2 DEF Search!Goto
  <2>2. call[c] \in CallState /\ WellFormed(call[c])
    BY DEF SearchTyped
  <2>3. /\ u \in CallState /\ u.at = place /\ u.kind = call[c].kind /\ u.key = call[c].key
        /\ u.body = call[c].body /\ u.overtaken = call[c].overtaken
    BY <1>2, <2>2 DEF CallState, Places
  <2>4. WellFormed(u)
    BY <1>2, <2>2, <2>3 DEF WellFormed
  <2>. HIDE DEF u
  <2>. QED
    BY <1>2, <2>1, <2>3, <2>4
<1>. QED
  BY <1>1, <1>2

\* A transaction moves, and the stores stay as they are.
LEMMA MoveSound ==
  ASSUME SearchSound, NEW c \in Client, NEW u \in CallState, call' = [call EXCEPT ![c] = u],
         WellFormed(u), CallSound(u),
         UNCHANGED <<docs, shipments, cached, lapsed>>,
         excused' = excused \/ (excused' = excused \union {call[c].key}),
         Between(call[c]) => \/ Between(u) /\ u.key = call[c].key
                             \/ call[c].key \in excused'
  PROVE  SearchSound'
<1>1. call'[c] = u /\ \A d \in Client \ {c} : call'[d] = call[d]
  BY DEF SearchSound, SearchTyped
<1>2. SearchTyped'
  BY <1>1 DEF SearchSound, SearchTyped
<1>3. \A d \in Client : CallSound(call[d])'
  BY <1>1 DEF SearchSound, CallSound
<1>4. ASSUME NEW k \in Key PROVE CopySound(k)'
  BY <1>1 DEF SearchSound, CopySound, Agrees
<1>. QED
  BY <1>2, <1>3, <1>4 DEF SearchSound

LEMMA StepsSound ==
  ASSUME SearchSound, NEW c \in Client,
         \/ \E kind \in Search!Kind, k \in Key, b \in Search!Asked : Search!Begin(c, kind, k, b)
         \/ Search!Customer(c) \/ Search!Ship(c) \/ Search!Get(c)
  PROVE  SearchSound'
<1>0. SearchTyped /\ call[c] \in CallState /\ WellFormed(call[c]) /\ CallSound(call[c])
  BY DEF SearchSound, SearchTyped
<1>1. CASE \E kind \in Search!Kind, k \in Key, b \in Search!Asked : Search!Begin(c, kind, k, b)
  <2>1. PICK kind \in Search!Kind, k \in Key, b \in Search!Asked : Search!Begin(c, kind, k, b)
    BY <1>1
  <2>. DEFINE u == [kind |-> kind, key |-> k, at |-> Search!First(kind), overtaken |-> FALSE,
                    body |-> IF kind = "index-document" THEN b ELSE Search!None]
  <2>2. /\ call[c].at = "done" /\ call' = [call EXCEPT ![c] = u]
        /\ UNCHANGED <<docs, shipments, cached, excused, lapsed>>
    BY <2>1 DEF Search!Begin, Search!stores
  <2>3. /\ Search!First(kind) \in {"customer", "ship", "index"}
        /\ Search!First(kind) \in Places(kind)
        /\ kind = "index-document" => Search!First(kind) = "index"
        /\ kind = "ship-order" => Search!First(kind) = "ship"
    BY DEF Search!First, Places, Search!Kind
  <2>4. u \in CallState
    BY <2>3 DEF CallState
  <2>5. WellFormed(u) /\ CallSound(u)
    BY <2>3 DEF WellFormed, CallSound, Between
  <2>6. ~Between(call[c])
    BY <2>2 DEF Between
  <2>. HIDE DEF u
  <2>. QED
    BY <2>2, <2>4, <2>5, <2>6, MoveSound
<1>2. CASE Search!Customer(c)
  <2>1. /\ call[c].at \in {"customer", "search"} /\ call[c].at # "done"
        /\ Search!Goto(c, Search!Then(c))
        /\ UNCHANGED <<docs, shipments, cached, excused, lapsed>>
    BY <1>2 DEF Search!Customer, Search!stores
  <2>2. /\ Search!Then(c) = "done" \/ Search!Then(c) \in Places(call[c].kind)
        /\ call[c].kind = "index-document" => Search!Then(c) = "post"
        /\ call[c].kind # "customer-lookup" \/ Search!Then(c) # "post"
        /\ call[c].kind = "ship-order" => Search!Then(c) = "done"
    BY <1>0, <2>1, ThenIs DEF WellFormed, Places, Search!Kind
  <2>3. PICK u \in CallState :
           /\ call' = [call EXCEPT ![c] = u] /\ WellFormed(u) /\ u.at = Search!Then(c)
           /\ Search!Then(c) = "done" => u.kind = "none"
           /\ Search!Then(c) # "done" =>
                /\ u.kind = call[c].kind /\ u.key = call[c].key
                /\ u.body = call[c].body /\ u.overtaken = call[c].overtaken
    BY <1>0, <2>1, <2>2, GotoIs
  <2>4. CallSound(u) /\ (Between(call[c]) => Between(u) /\ u.key = call[c].key)
    <3>1. CASE call[c].kind = "index-document"
      <4>1. call[c].at = "customer"
        BY <1>0, <2>1, <3>1 DEF WellFormed, Places
      <4>2. /\ u.at = "post" /\ u.kind = "index-document" /\ u.key = call[c].key
            /\ u.body = call[c].body /\ u.overtaken = call[c].overtaken
        BY <2>2, <2>3, <3>1
      <4>. QED
        BY <1>0, <3>1, <4>1, <4>2 DEF CallSound, Between
    <3>2. CASE call[c].kind # "index-document"
      <4>1. u.kind \in {"none", "customer-lookup"}
        BY <1>0, <2>1, <2>2, <2>3, <3>2 DEF WellFormed, Search!Kind
      <4>. QED
        BY <3>2, <4>1 DEF CallSound, Between
    <3>. QED
      BY <3>1, <3>2
  <2>. QED
    BY <2>1, <2>3, <2>4, MoveSound
<1>3. CASE Search!Get(c)
  <2>1. PICK place \in {"done", "fill"} : Search!Goto(c, place)
    BY <1>3 DEF Search!Get
  <2>2. /\ call[c].at = "get" /\ call[c].at # "done"
        /\ UNCHANGED <<docs, shipments, cached, excused, lapsed>>
    BY <1>3 DEF Search!Get, Search!stores
  <2>3. call[c].kind = "customer-lookup" /\ (place = "done" \/ place \in Places(call[c].kind))
    BY <1>0, <2>2 DEF WellFormed, Places
  <2>4. PICK u \in CallState :
           /\ call' = [call EXCEPT ![c] = u] /\ WellFormed(u) /\ u.at = place
           /\ place = "done" => u.kind = "none"
           /\ place # "done" => u.kind = call[c].kind
    BY <1>0, <2>1, <2>2, <2>3, GotoIs
  <2>5. CallSound(u) /\ ~Between(call[c])
    BY <2>3, <2>4 DEF CallSound, Between
  <2>. QED
    BY <2>2, <2>4, <2>5, MoveSound
<1>4. CASE Search!Ship(c)
  <2>1. /\ call[c].at = "ship" /\ call[c].at # "done" /\ Search!Goto(c, "index")
        /\ shipments' = shipments \union {call[c].key}
        /\ UNCHANGED <<docs, cached, excused, lapsed>>
    BY <1>4 DEF Search!Ship
  <2>2. call[c].kind = "ship-order" /\ "index" \in Places(call[c].kind)
    BY <1>0, <2>1 DEF WellFormed, Places, Search!Kind
  <2>3. PICK u \in CallState :
           /\ call' = [call EXCEPT ![c] = u] /\ WellFormed(u) /\ u.at = "index"
           /\ u.kind = call[c].kind /\ u.key = call[c].key
    BY <1>0, <2>1, <2>2, GotoIs
  <2>4. call'[c] = u /\ \A d \in Client \ {c} : call'[d] = call[d]
    BY <1>0, <2>3 DEF SearchTyped
  <2>5. SearchTyped'
    BY <1>0, <2>1, <2>3, <2>4 DEF SearchTyped
  <2>6. \A d \in Client : CallSound(call[d])'
    BY <2>1, <2>2, <2>3, <2>4 DEF SearchSound, CallSound, Between
  <2>7. \A d \in Client : (Between(call[d]) <=> Between(call'[d]))
                          /\ (Between(call[d]) => call[d].key = call'[d].key)
    BY <2>1, <2>2, <2>3, <2>4 DEF Between
  <2>8. ASSUME NEW k \in Key PROVE CopySound(k)'
    BY <2>1, <2>7 DEF SearchSound, CopySound, Agrees
  <2>. QED
    BY <2>5, <2>6, <2>8 DEF SearchSound
<1>. QED
  BY <1>1, <1>2, <1>3, <1>4

LEMMA CacheSound ==
  ASSUME SearchSound,
         (\E c \in Client : Search!Post(c) \/ Search!Fill(c)) \/ \E k \in Key : Search!Expire(k)
  PROVE  SearchSound'
<1>0. SearchTyped
  BY DEF SearchSound
<1>1. ASSUME NEW c \in Client, Search!Post(c) \/ Search!Fill(c) PROVE SearchSound'
  <2>1. /\ call[c].at \in {"post", "fill"} /\ call[c].at # "done" /\ Search!Goto(c, "done")
        /\ UNCHANGED <<docs, shipments>>
    BY <1>1 DEF Search!Post, Search!Fill
  <2>2. PICK u \in CallState : /\ call' = [call EXCEPT ![c] = u] /\ WellFormed(u)
                          /\ u.at = "done" /\ u.kind = "none"
    BY <1>0, <2>1, GotoIs
  <2>3. call'[c] = u /\ \A d \in Client \ {c} : call'[d] = call[d]
    BY <1>0, <2>2 DEF SearchTyped
  <2>4. /\ call[c] \in CallState /\ WellFormed(call[c]) /\ CallSound(call[c])
        /\ call[c].key \in Key /\ call[c].overtaken \in BOOLEAN
    BY <2>1 DEF SearchSound, SearchTyped, WellFormed, CallState
  <2>5. \A d \in Client : CallSound(call[d])'
    BY <2>1, <2>2, <2>3 DEF SearchSound, CallSound, Between
  <2>6. CASE Search!Post(c)
    <3>1. /\ call[c].kind = "index-document" /\ call[c].at = "post" /\ call[c].body \in Search!Asked
          /\ Between(call[c])
      BY <2>4, <2>6 DEF Search!Post, WellFormed, Places, Between, Search!Kind
    <3>2. /\ cached' = [cached EXCEPT ![call[c].key] = Search!CopyStored(call[c].body)]
          /\ lapsed' = lapsed \ {call[c].key}
          /\ excused' = IF call[c].overtaken THEN excused \union {call[c].key}
                        ELSE excused \ {call[c].key}
      BY <2>6 DEF Search!Post
    <3>3. SearchTyped'
      <4>1. Search!CopyStored(call[c].body) \in Text
        BY <3>1, TextIs
      <4>. QED
        BY <1>0, <2>1, <2>2, <2>3, <2>4, <3>1, <3>2, <4>1 DEF SearchTyped
    <3>4. ASSUME NEW k \in Key PROVE CopySound(k)'
      <4>1. CASE k = call[c].key
        <5>1. k \notin excused' => docs[k] = Search!Indexed(call[c].body)
          BY <2>4, <3>1, <3>2, <4>1 DEF CallSound
        <5>2. cached'[k] = Search!CopyStored(call[c].body)
          BY <1>0, <2>4, <3>2, <4>1 DEF SearchTyped
        <5>. QED
          BY <2>1, <3>1, <5>1, <5>2 DEF SearchSound, CopySound, Agrees
      <4>2. CASE k # call[c].key
        <5>1. /\ cached'[k] = cached[k] /\ (k \in excused <=> k \in excused')
              /\ (k \in lapsed <=> k \in lapsed')
          BY <1>0, <2>4, <3>2, <4>2 DEF SearchTyped
        <5>. QED
          BY <2>1, <2>2, <2>3, <4>2, <5>1 DEF SearchSound, CopySound, Agrees
      <4>. QED
        BY <4>1, <4>2
    <3>. QED
      BY <2>5, <3>3, <3>4 DEF SearchSound
  <2>7. CASE Search!Fill(c)
    <3>1. ~Between(call[c])
      BY <2>7 DEF Search!Fill, Between
    <3>2. /\ cached' = [cached EXCEPT ![call[c].key] = Search!Hits]
          /\ lapsed' = lapsed
          /\ excused' = IF call[c].key \in lapsed THEN excused ELSE excused \union {call[c].key}
      BY <2>7 DEF Search!Fill
    <3>3. SearchTyped'
      BY <1>0, <2>1, <2>2, <2>3, <2>4, <3>2 DEF SearchTyped
    <3>4. ASSUME NEW k \in Key PROVE CopySound(k)'
      <4>1. cached'[k] = IF k = call[c].key THEN Search!Hits ELSE cached[k]
        BY <1>0, <2>4, <3>2 DEF SearchTyped
      <4>. QED
        BY <2>1, <2>2, <2>3, <3>1, <3>2, <4>1 DEF SearchSound, CopySound, Agrees
    <3>. QED
      BY <2>5, <3>3, <3>4 DEF SearchSound
  <2>. QED
    BY <1>1, <2>6, <2>7
<1>2. ASSUME NEW k \in Key, Search!Expire(k) PROVE SearchSound'
  <2>1. /\ cached' = [cached EXCEPT ![k] = Search!None] /\ lapsed' = lapsed \union {k}
        /\ UNCHANGED <<docs, shipments, excused, call>>
    BY <1>2 DEF Search!Expire
  <2>2. SearchTyped'
    BY <1>0, <2>1 DEF SearchTyped
  <2>3. \A d \in Client : CallSound(call[d])'
    BY <2>1 DEF SearchSound, CallSound
  <2>4. ASSUME NEW j \in Key PROVE CopySound(j)'
    <3>1. cached'[j] = IF j = k THEN Search!None ELSE cached[j]
      BY <1>0, <2>1 DEF SearchTyped
    <3>. QED
      BY <2>1, <3>1 DEF SearchSound, CopySound, Agrees
  <2>. QED
    BY <2>2, <2>3, <2>4 DEF SearchSound
<1>. QED
  BY <1>1, <1>2

LEMMA IndexSound ==
  ASSUME SearchSound, NEW c \in Client, Search!Index(c)
  PROVE  SearchSound'
<1>0. /\ SearchTyped /\ call[c] \in CallState /\ WellFormed(call[c]) /\ CallSound(call[c])
      /\ call[c].at = "index"
  BY DEF SearchSound, SearchTyped, Search!Index
<1>1. /\ call[c].key \in Key /\ call[c].kind \in Search!Kind
      /\ call[c].kind = "index-document" => call[c].body \in Search!Asked
  BY <1>0 DEF WellFormed
<1>. DEFINE v == [call[c] EXCEPT !.at = Search!Then(c)]
<1>2. /\ docs' = [docs EXCEPT ![call[c].key] = Search!Document(c)]
      /\ call' = [d \in Client |->
                    IF d = c THEN v
                    ELSE IF call[d].key = call[c].key /\ call[d].at \in {"customer", "post"}
                    THEN [call[d] EXCEPT !.overtaken = TRUE] ELSE call[d]]
      /\ UNCHANGED <<shipments, cached, excused, lapsed>>
  BY DEF Search!Index
<1>3. /\ Search!Then(c) = IF call[c].kind = "customer-lookup" THEN "get"
                          ELSE IF call[c].kind = "index-document" THEN "customer" ELSE "search"
  BY <1>0, <1>1, ThenIs DEF Search!Kind
<1>4. Search!Document(c) = IF call[c].kind = "index-document" THEN Search!Indexed(call[c].body)
                           ELSE IF call[c].kind = "customer-lookup" THEN "customer"
                           ELSE "shipment"
  BY DEF Search!Document
<1>5. /\ v \in CallState /\ WellFormed(v) /\ v.key = call[c].key /\ v.kind = call[c].kind
      /\ v.body = call[c].body /\ v.at = Search!Then(c)
  <2>1. /\ v \in CallState /\ v.key = call[c].key /\ v.kind = call[c].kind
        /\ v.body = call[c].body /\ v.at = Search!Then(c)
    BY <1>0, <1>3 DEF CallState
  <2>. HIDE DEF v
  <2>. QED
    BY <1>1, <1>3, <2>1 DEF WellFormed, Places, Search!Kind
<1>6. ASSUME NEW d \in Client \ {c}
      PROVE  /\ call'[d] \in CallState /\ WellFormed(call'[d])
             /\ call'[d].kind = call[d].kind /\ call'[d].key = call[d].key
             /\ call'[d].body = call[d].body /\ call'[d].at = call[d].at
             /\ Between(call[d]) /\ ~call'[d].overtaken =>
                  call[d].key # call[c].key /\ ~call[d].overtaken
  <2>0. call[d] \in CallState /\ WellFormed(call[d])
    BY <1>0 DEF SearchTyped
  <2>1. CASE call[d].key = call[c].key /\ call[d].at \in {"customer", "post"}
    <3>1. call'[d] = [call[d] EXCEPT !.overtaken = TRUE]
      BY <1>2, <2>1
    <3>2. PICK b \in BOOLEAN : b /\ call'[d] = [call[d] EXCEPT !.overtaken = b]
      BY <3>1, Zenon
    <3>3. /\ call'[d] \in CallState /\ call'[d].overtaken = b
          /\ call'[d].kind = call[d].kind /\ call'[d].key = call[d].key
          /\ call'[d].body = call[d].body /\ call'[d].at = call[d].at
      BY <2>0, <3>2 DEF CallState
    <3>. QED
      BY <2>0, <3>2, <3>3 DEF WellFormed
  <2>2. CASE ~(call[d].key = call[c].key /\ call[d].at \in {"customer", "post"})
    <3>1. call'[d] = call[d]
      BY <1>2, <2>2
    <3>. QED
      BY <2>0, <2>2, <3>1 DEF Between
  <2>. QED
    BY <2>1, <2>2
<1>7. call'[c] = v
  BY <1>2
<1>. HIDE DEF v
<1>8. SearchTyped'
  <2>1. \A d \in Client : call'[d] \in CallState /\ WellFormed(call'[d])
    BY <1>5, <1>6, <1>7
  <2>2. docs' \in [Key -> Text \union {Search!None, "customer", "shipment"}]
    <3>1. Search!Document(c) \in Text \union {Search!None, "customer", "shipment"}
      BY <1>1, <1>4, TextIs
    <3>. QED
      BY <1>0, <1>1, <1>2, <3>1 DEF SearchTyped
  <2>. QED
    BY <1>0, <1>2, <2>1, <2>2 DEF SearchTyped
<1>9. docs'[call[c].key] = Search!Document(c)
      /\ \A k \in Key \ {call[c].key} : docs'[k] = docs[k]
  BY <1>0, <1>1, <1>2 DEF SearchTyped
<1>10. ASSUME NEW d \in Client PROVE CallSound(call[d])'
  <2>1. CASE d = c
    BY <1>3, <1>4, <1>5, <1>7, <1>9, <2>1 DEF CallSound, Between
  <2>2. CASE d # c
    <3>1. CallSound(call[d]) /\ (call[d].at # "done" => call[d].key \in Key)
      BY DEF SearchSound, SearchTyped, WellFormed
    <3>. QED
      BY <1>2, <1>6, <1>9, <2>2, <3>1 DEF CallSound, Between
  <2>. QED
    BY <2>1, <2>2
<1>11. ASSUME NEW k \in Key PROVE CopySound(k)'
  <2>1. CASE k = call[c].key
    <3>1. CASE call[c].kind = "index-document"
      <4>1. Between(call'[c]) /\ call'[c].key = k
        BY <1>1, <1>3, <1>5, <1>7, <2>1, <3>1 DEF Between
      <4>2. docs'[k] \notin {Search!None, "customer", "shipment"}
        BY <1>1, <1>4, <1>9, <2>1, <3>1, TextIs
      <4>. QED
        BY <4>1, <4>2 DEF CopySound
    <3>2. CASE call[c].kind = "customer-lookup"
      BY <1>4, <1>9, <2>1, <3>2 DEF CopySound
    <3>3. CASE call[c].kind = "ship-order"
      <4>1. k \in shipments /\ docs'[k] = "shipment"
        BY <1>0, <1>4, <1>9, <2>1, <3>3 DEF CallSound
      <4>. QED
        BY <1>2, <4>1 DEF CopySound
    <3>. QED
      BY <1>1, <3>1, <3>2, <3>3 DEF Search!Kind
  <2>2. CASE k # call[c].key
    <3>1. \A d \in Client : Between(call[d]) /\ call[d].key = k =>
                              Between(call'[d]) /\ call'[d].key = k
      BY <1>6, <2>2 DEF Between
    <3>. QED
      BY <1>2, <1>9, <2>2, <3>1 DEF SearchSound, CopySound, Agrees
  <2>. QED
    BY <2>1, <2>2
<1>. QED
  BY <1>8, <1>10, <1>11 DEF SearchSound

LEMMA CallFailsSound ==
  ASSUME SearchSound, NEW c \in Client, Search!CallFails(c)
  PROVE  SearchSound'
<1>0. /\ SearchTyped /\ call[c] \in CallState /\ WellFormed(call[c]) /\ CallSound(call[c])
      /\ call[c].at # "done"
  BY DEF SearchSound, SearchTyped, Search!CallFails
<1>. DEFINE following == IF call[c].at = "ship" THEN "search" ELSE Search!Then(c)
<1>1. UNCHANGED <<docs, shipments, cached, lapsed>>
  BY DEF Search!CallFails
<1>2. PICK u \in CallState :
        /\ call' = [call EXCEPT ![c] = u] /\ WellFormed(u)
        /\ \/ u = Search!Over
           \/ /\ u.at = following /\ following # "done"
              /\ u.kind = call[c].kind /\ u.key = call[c].key /\ u.body = call[c].body
              /\ u.overtaken <=> (call[c].overtaken \/ call[c].at = "index")
  <2>1. CASE call' = [call EXCEPT ![c] = Search!Over]
    BY <2>1, OverIs DEF WellFormed
  <2>2. CASE following # "done" /\ call' # [call EXCEPT ![c] = Search!Over]
    <3>1. call' = [call EXCEPT ![c] =
                     [call[c] EXCEPT !.at = following,
                                     !.overtaken = call[c].overtaken \/ call[c].at = "index"]]
      <4>1. call' = [call EXCEPT ![c] =
                       IF following = "done" THEN Search!Over
                       ELSE [call[c] EXCEPT !.at = following,
                                            !.overtaken = call[c].overtaken \/ call[c].at = "index"]]
        BY <2>2 DEF Search!CallFails
      <4>. QED
        BY <2>2, <4>1, Zenon
    <3>2. PICK b \in BOOLEAN :
            /\ b <=> (call[c].overtaken \/ call[c].at = "index")
            /\ call' = [call EXCEPT ![c] = [call[c] EXCEPT !.at = following, !.overtaken = b]]
      BY <3>1, Zenon
    <3>. DEFINE v == [call[c] EXCEPT !.at = following, !.overtaken = b]
    <3>3. following \in Places(call[c].kind)
      BY <1>0, <2>2, ThenIs DEF WellFormed, Places, Search!Kind
    <3>4. /\ v \in CallState /\ v.at = following /\ v.kind = call[c].kind /\ v.key = call[c].key
          /\ v.body = call[c].body /\ v.overtaken = b
      BY <1>0, <3>3 DEF CallState, Places
    <3>6. call' = [call EXCEPT ![c] = v]
      BY <3>2
    <3>. HIDE DEF v, following
    <3>5. WellFormed(v)
      BY <1>0, <2>2, <3>3, <3>4 DEF WellFormed
    <3>7. v.overtaken <=> (call[c].overtaken \/ call[c].at = "index")
      BY <3>2, <3>4, Zenon
    <3>. QED
      BY <2>2, <3>4, <3>5, <3>6, <3>7
  <2>3. CASE following = "done" /\ call' # [call EXCEPT ![c] = Search!Over]
    BY <2>3 DEF Search!CallFails
  <2>. QED
    BY <2>1, <2>2, <2>3
<1>3. excused' = IF call[c].kind = "index-document" /\ (u = Search!Over \/ call[c].at = "index")
                 THEN excused \union {call[c].key} ELSE excused
  <2>1. call'[c] = u
    BY <1>0, <1>2 DEF SearchTyped
  <2>. QED
    BY <2>1 DEF Search!CallFails
<1>4. CallSound(u)
  <2>1. CASE u = Search!Over
    BY <2>1, OverIs DEF CallSound, Between
  <2>2. CASE u # Search!Over
    <3>1. u.kind = "index-document" /\ ~u.overtaken => Between(call[c]) /\ ~call[c].overtaken
      BY <1>0, <1>2, <2>2 DEF Between, WellFormed, Places
    <3>2. u.kind = "ship-order" => u.at = "search"
      BY <1>0, <1>2, <2>2, ThenIs DEF WellFormed, Places, Search!Kind
    <3>. QED
      BY <1>0, <1>2, <2>2, <3>1, <3>2 DEF CallSound, Between
  <2>. QED
    BY <2>1, <2>2
<1>5. Between(call[c]) => \/ Between(u) /\ u.key = call[c].key
                          \/ call[c].key \in excused'
  <2>. SUFFICES ASSUME Between(call[c]), u # Search!Over
                PROVE  Between(u) /\ u.key = call[c].key
    BY <1>3 DEF Between
  <2>1. call[c].at = "customer" /\ following = "post"
    BY <1>0, <1>2, ThenIs DEF Between
  <2>. QED
    BY <1>2, <2>1 DEF Between
<1>. QED
  BY <1>1, <1>2, <1>3, <1>4, <1>5, MoveSound

LEMMA SearchInitSound == Search!Init => SearchSound
<1>. SUFFICES ASSUME Search!Init PROVE SearchSound
  OBVIOUS
<1>1. /\ call \in [Client -> CallState]
      /\ \A c \in Client : call[c].at = "done" /\ call[c].kind = "none"
  BY OverIs DEF Search!Init
<1>2. SearchTyped
  BY <1>1 DEF Search!Init, SearchTyped, WellFormed
<1>3. \A c \in Client : CallSound(call[c])
  BY <1>1 DEF CallSound, Between
<1>4. ASSUME NEW k \in Key PROVE CopySound(k)
  BY DEF Search!Init, CopySound, Agrees, Search!None
<1>. QED
  BY <1>2, <1>3, <1>4 DEF SearchSound

LEMMA SearchNextSound == SearchSound /\ [Search!Next]_searchVars => SearchSound'
<1>. SUFFICES ASSUME SearchSound, [Search!Next]_searchVars PROVE SearchSound'
  OBVIOUS
<1>1. CASE UNCHANGED searchVars
  BY <1>1 DEF searchVars, SearchSound, SearchTyped, CallSound, CopySound, Agrees
<1>2. CASE Search!Next
  BY <1>2, StepsSound, CacheSound, IndexSound, CallFailsSound DEF Search!Next
<1>. QED
  BY <1>1, <1>2

LEMMA SearchAlwaysSound == CopiesSpec => []SearchSound
<1>1. CopiesInit => SearchSound
  BY SearchInitSound DEF CopiesInit
<1>2. SearchSound /\ [CopiesNext]_<<stack, inventoryVars, searchVars>> => SearchSound'
  <2>1. [CopiesNext]_<<stack, inventoryVars, searchVars>> => [Search!Next]_searchVars
    BY DEF CopiesNext, KafkaStep, SearchStep
  <2>. QED
    BY <2>1, SearchNextSound
<1>. QED
  BY <1>1, <1>2, PTL DEF CopiesSpec

\* Each copy is what was last written, but for the readers and writers that came
\* between the two steps of another.
THEOREM CopiesSound == CopiesSpec => []CopiesKept
<1>1. InventorySound /\ SearchSound => CopiesKept
  <2>1. InventorySound => UpdateKept
    BY DEF InventorySound, MapSound
  <2>2. SearchSound => Search!CopyAgrees
    BY DEF SearchSound, CopySound, Agrees, Between, Search!CopyAgrees, Search!UnderWay
  <2>. QED
    BY <2>1, <2>2 DEF CopiesKept
<1>. QED
  BY <1>1, InventoryAlwaysSound, SearchAlwaysSound, PTL
=============================================================================
