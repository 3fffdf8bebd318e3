---------------------------- MODULE ClaimsProofs ----------------------------
(***************************************************************************)
(* Proofs about Claims, for every set of threads, every size of the store  *)
(* and every number of requests.                                           *)
(***************************************************************************)
EXTENDS Claims, TLAPS

-----------------------------------------------------------------------------
(* Lemmas about the operators. *)

\* Ids wrap above the seeded range and never into it.
LEMMA SlotLemma ==
  ASSUME NEW ref \in Nat \ {0}
  PROVE  /\ Slot(ref) \in ClaimId
         /\ ref \in SeedId => Slot(ref) = ref
         /\ ref \notin SeedId => Slot(ref) \notin SeedId
<1>1. CASE ref <= Seeded
  BY <1>1, SizeAssumption DEF Slot, ClaimId, SeedId
<1>2. CASE ref > Seeded
  <2>1. (ref - Seeded - 1) % MaxSubmitted \in 0 .. MaxSubmitted - 1
    BY <1>2, SizeAssumption
  <2>. QED
    BY <1>2, <2>1, SizeAssumption DEF Slot, ClaimId, SeedId
<1>. QED
  BY <1>1, <1>2, SizeAssumption

\* The facts of a claim, field by field.
LEMMA FactsType ==
  ASSUME NEW r \in Nat \ {0}, NEW t \in Tenant, NEW p \in Policy,
         NEW a \in Int, NEW c \in Category \union {"AUTO", "PROPERTY"}
  PROVE  [ref |-> r, tenant |-> t, policy |-> p, amount |-> a, category |-> c] \in Facts
BY DEF Facts

\* The seeded claims are well formed.
LEMMA SeedFactsType ==
  ASSUME NEW n \in SeedId
  PROVE  SeedFacts(n) \in Facts /\ SeedFacts(n).ref = n
<1>1. (n * 3) % PolicyCount \in Policy
  BY SizeAssumption DEF SeedId, Policy
<1>2. n \in Nat \ {0} /\ n % 3 \in Tenant /\ 150000 + n * 1250 \in Int
  BY SizeAssumption DEF SeedId, Tenant
<1>3. (IF n % 2 = 0 THEN "AUTO" ELSE "PROPERTY") \in Category \union {"AUTO", "PROPERTY"}
  OBVIOUS
<1>. DEFINE c == IF n % 2 = 0 THEN "AUTO" ELSE "PROPERTY"
            t == n % 3
            p == (n * 3) % PolicyCount
            a == 150000 + n * 1250
<1>4. SeedFacts(n) = [ref |-> n, tenant |-> t, policy |-> p, amount |-> a, category |-> c]
  BY DEF SeedFacts
<1>5. c \in Category \union {"AUTO", "PROPERTY"} /\ t \in Tenant /\ p \in Policy /\ a \in Int
  BY <1>1, <1>2, <1>3
<1>. HIDE DEF c, t, p, a
<1>6. SeedFacts(n).ref = n
  BY <1>4
<1>. QED
  BY <1>2, <1>4, <1>5, <1>6, FactsType

\* A payout is a number of cents, within the coverage, and less than what was
\* asked for unless it is nothing.
LEMMA PayoutLemma ==
  ASSUME NEW f \in Facts
  PROVE  /\ calculatePayout(f) \in Nat
         /\ calculatePayout(f) <= CoverageLimit(f.policy)
         /\ calculatePayout(f) = 0 \/ calculatePayout(f) < f.amount
<1>1. f.policy \in Nat /\ f.amount \in Int
  BY SizeAssumption DEF Facts, Policy
<1>2. PolicyExcess(f.policy) \in Nat /\ PolicyExcess(f.policy) > 0
  BY <1>1 DEF PolicyExcess
<1>3. /\ applyDeductible(f) \in Nat
      /\ applyDeductible(f) = 0 \/ applyDeductible(f) < f.amount
  BY <1>1, <1>2 DEF applyDeductible, AtLeastZero
<1>4. CoverageLimit(f.policy) \in Nat
  BY <1>1 DEF CoverageLimit
<1>. QED
  BY <1>1, <1>3, <1>4 DEF calculatePayout, AtMost

LEMMA FiledType ==
  ASSUME NEW f \in Facts, NEW s \in {"RECEIVED", "UNDER_REVIEW"}
  PROVE  Filed(f, s) \in Claim /\ Filed(f, s).facts = f /\ Filed(f, s).status = s
BY DEF Filed, Claim, Status

LEMMA AdjudicatedType ==
  ASSUME NEW c \in Claim, NEW s \in Decided, NEW p \in Nat
  PROVE  /\ withAdjudication(c, s, p) \in Claim
         /\ withAdjudication(c, s, p).facts = c.facts
         /\ withAdjudication(c, s, p).status = s
         /\ withAdjudication(c, s, p).payout = p
BY DEF withAdjudication, Claim, Status, Decided

LEMMA EntryType ==
  ASSUME NEW t \in Thread, work[t] \in Claim, actor[t] \in Actor
  PROVE  EntryOf(t) \in Entry
BY DEF EntryOf, Entry, Claim, Status

-----------------------------------------------------------------------------
(* Type correctness. *)

LEMMA InitType == Init => TypeOK
<1>. SUFFICES ASSUME Init PROVE TypeOK
  OBVIOUS
<1>1. store \in [ClaimId -> Claim \union {NoClaim}]
  BY SeedFactsType, FiledType DEF Init
<1>2. filed \subseteq Facts
  BY SeedFactsType DEF Init
<1>. QED
  BY <1>1, <1>2 DEF Init, TypeOK, Actor

LEMMA SubmitType ==
  ASSUME TypeOK, NEW t \in Thread, NEW tenant \in Tenant,
         NEW policy \in 0 .. PolicyCount, NEW amount \in Amount, NEW category \in Category,
         SubmitClaim(t, tenant, policy, amount, category)
  PROVE  TypeOK'
<1>. DEFINE f == [ref |-> Seeded + 1 + sequence, tenant |-> tenant,
                  policy |-> policy, amount |-> amount, category |-> category]
<1>1. f \in Facts
  <2>1. Seeded + 1 + sequence \in Nat \ {0}
    BY SizeAssumption DEF TypeOK
  <2>2. policy \in Policy /\ amount \in Int
    BY InputAssumption DEF SubmitClaim, validateCoverage
  <2>. QED
    BY <2>1, <2>2, FactsType
<1>2. PICK s \in {"RECEIVED", "UNDER_REVIEW"} : work' = [work EXCEPT ![t] = Filed(f, s)]
  BY DEF SubmitClaim
<1>3. filed' = filed \union {f}
  BY DEF SubmitClaim
<1>. HIDE DEF f
<1>4. Filed(f, s) \in Claim
  BY <1>1, FiledType
<1>5. /\ work' \in [Thread -> Claim \union {NoClaim}]
      /\ \A u \in Thread : pc'[u] # "idle" => work'[u] \in Claim
  BY <1>2, <1>4 DEF TypeOK, SubmitClaim
<1>. QED
  BY <1>1, <1>3, <1>5 DEF TypeOK, SubmitClaim, TakeSequence, Accept, Actor

LEMMA StepType ==
  ASSUME TypeOK, NEW t \in Thread, Step(t)
  PROVE  TypeOK'
<1>1. CASE Deny(t)
  <2>1. withAdjudication(work[t], "DENIED", 0) \in Claim
    BY <1>1, AdjudicatedType DEF Deny, TypeOK, Decided
  <2>. QED
    BY <1>1, <2>1 DEF Deny, TypeOK
<1>2. CASE SignPayout(t)
  <2>. DEFINE p == calculatePayout(work[t].facts)
  <2>1. work[t] \in Claim /\ work[t].facts \in Facts
    BY <1>2 DEF SignPayout, TypeOK, Claim
  <2>2. p \in Nat
    BY <2>1, PayoutLemma
  <2>3. withAdjudication(work[t], "APPROVED", p) \in Claim
    BY <2>1, <2>2, AdjudicatedType DEF Decided
  <2>. QED
    BY <1>2, <2>1, <2>2, <2>3 DEF SignPayout, TypeOK
<1>3. CASE Save(t)
  <2>1. work[t] \in Claim /\ work[t].facts.ref \in Nat \ {0}
    BY <1>3 DEF Save, TypeOK, Claim, Facts
  <2>. QED
    BY <1>3, <2>1, SlotLemma DEF Save, TypeOK
<1>4. CASE ReadHead(t)
  BY <1>4 DEF ReadHead, TypeOK
<1>5. CASE WriteHead(t)
  <2>1. EntryOf(t) \in Entry
    BY <1>5, EntryType DEF WriteHead, TypeOK
  <2>. QED
    BY <1>5, <2>1 DEF WriteHead, Chained, TypeOK
<1>. QED
  BY <1>1, <1>2, <1>3, <1>4, <1>5 DEF Step

\* Every reachable state is well typed.
THEOREM TypeCorrect == Spec => []TypeOK
<1>1. TypeOK /\ [Next]_vars => TypeOK'
  <2>. SUFFICES ASSUME TypeOK, [Next]_vars PROVE TypeOK'
    OBVIOUS
  <2>1. ASSUME NEW t \in Thread, Arrive(t) PROVE TypeOK'
    <3>1. ASSUME NEW tenant \in Tenant, NEW id \in ClaimId, NEW adjuster \in Adjuster,
                 ReadForApproval(t, tenant, id, adjuster)
          PROVE  TypeOK'
      BY <3>1 DEF ReadForApproval, Accept, TypeOK, Actor
    <3>. QED
      BY <2>1, <3>1, SubmitType DEF Arrive
  <2>2. CASE UNCHANGED vars
    BY <2>2 DEF vars, TypeOK
  <2>. QED
    BY <2>1, <2>2, StepType DEF Next
<1>. QED
  BY <1>1, InitType, PTL DEF Spec

-----------------------------------------------------------------------------
(* The inductive invariant. *)

LEMMA InitInv == Init => IInv
<1>. SUFFICES ASSUME Init PROVE IInv
  OBVIOUS
<1>1. \A f \in filed : f.ref \in SeedId /\ f = SeedFacts(f.ref) /\ f.ref <= Seeded + sequence
  BY SeedFactsType, SizeAssumption DEF Init, SeedId
<1>2. FiledSound /\ RefsUnique
  BY <1>1 DEF FiledSound, RefsUnique
<1>3. \A n \in SeedId : /\ n \in ClaimId /\ store[n] = Filed(SeedFacts(n), "RECEIVED")
                       /\ store[n] \in Claim /\ store[n].facts = SeedFacts(n)
                       /\ store[n].status = "RECEIVED" /\ Slot(n) = n
  BY SeedFactsType, FiledType, SlotLemma, SizeAssumption DEF Init, SeedId, ClaimId
<1>4. \A id \in ClaimId : store[id] # NoClaim => id \in SeedId
  BY DEF Init
<1>5. StoredAsFiled
  <2>1. \A n \in SeedId : SeedFacts(n) \in filed
    BY DEF Init
  <2>. QED
    BY <1>3, <1>4, <2>1, SeedFactsType DEF StoredAsFiled
<1>6. SeedsStay
  BY <1>3, NoClaimAssumption DEF SeedsStay
<1>7. ApprovedIsSigned
  BY <1>3, <1>4 DEF ApprovedIsSigned
<1>8. PayoutsAuthorised /\ WorkSound /\ FreshUntilSaved /\ HeadsTruthful /\ AuditTruthful
  BY DEF Init, PayoutsAuthorised, WorkSound, FreshUntilSaved, HeadsTruthful, AuditTruthful
<1>. QED
  BY <1>2, <1>5, <1>6, <1>7, <1>8 DEF IInv

\* Filing and signing only ever add, so what was true of an entry stays true.
LEMMA TruthGrows ==
  ASSUME NEW e \in Entry, Truthful(e), filed \subseteq filed', signed \subseteq signed'
  PROVE  Truthful(e)'
BY DEF Truthful, authorizeApproval

\* A step that leaves the store alone and only adds to filed and signed keeps
\* what is stored, and keeps the chains read and written.
LEMMA LogsKeep ==
  ASSUME TypeOK, IInv, filed \subseteq filed', signed \subseteq signed',
         UNCHANGED <<head, chain>>
  PROVE  (HeadsTruthful /\ AuditTruthful)'
<1>1. \A t \in Thread : \A k \in 1 .. Len(head[t]) : head[t][k] \in Entry /\ Truthful(head[t][k])
  BY DEF TypeOK, IInv, HeadsTruthful
<1>2. \A k \in 1 .. Len(chain) : chain[k] \in Entry /\ Truthful(chain[k])
  BY DEF TypeOK, IInv, AuditTruthful
<1>. QED
  BY <1>1, <1>2, TruthGrows DEF HeadsTruthful, AuditTruthful

LEMMA StoreKeeps ==
  ASSUME TypeOK, IInv, filed \subseteq filed', signed \subseteq signed', UNCHANGED store
  PROVE  (StoredAsFiled /\ SeedsStay /\ ApprovedIsSigned)'
BY DEF IInv, StoredAsFiled, SeedsStay, ApprovedIsSigned, SignedFor

\* A step of t keeps the work of the other threads sound.
LEMMA OthersKeep ==
  ASSUME TypeOK, IInv, NEW t \in Thread, filed \subseteq filed', signed \subseteq signed',
         \A u \in Thread \ {t} : pc'[u] = pc[u] /\ work'[u] = work[u] /\ actor'[u] = actor[u],
         pc'[t] # "idle" =>
           /\ work'[t].facts \in filed'
           /\ work'[t].status = "APPROVED" => SignedFor(work[t])'
           /\ IF pc'[t] = "decide" THEN actor'[t] \in Adjuster ELSE Truthful(EntryOf(t))'
  PROVE  WorkSound'
<1>. SUFFICES ASSUME NEW u \in Thread \ {t}, pc[u] # "idle"
              PROVE  /\ work'[u].facts \in filed'
                     /\ work'[u].status = "APPROVED" => SignedFor(work[u])'
                     /\ IF pc'[u] = "decide" THEN actor'[u] \in Adjuster
                                             ELSE Truthful(EntryOf(u))'
  BY DEF WorkSound
<1>1. work[u].facts \in filed /\ (work[u].status = "APPROVED" => SignedFor(work[u]))
  BY DEF IInv, WorkSound
<1>2. SignedFor(work[u]) => SignedFor(work[u])'
  BY DEF SignedFor
<1>3. EntryOf(u)' = EntryOf(u)
  BY DEF EntryOf
<1>4. CASE pc[u] = "decide"
  BY <1>1, <1>2, <1>4 DEF IInv, WorkSound
<1>5. CASE pc[u] # "decide"
  <2>1. EntryOf(u) \in Entry
    BY EntryType DEF TypeOK
  <2>2. Truthful(EntryOf(u))
    BY <1>5 DEF IInv, WorkSound
  <2>3. Truthful(EntryOf(u))'
    BY <2>1, <2>2, <1>3, TruthGrows
  <2>. QED
    BY <1>1, <1>2, <1>5, <2>3
<1>. QED
  BY <1>4, <1>5

LEMMA SubmitInv ==
  ASSUME TypeOK, IInv, NEW t \in Thread, NEW tenant \in Tenant,
         NEW policy \in 0 .. PolicyCount, NEW amount \in Amount, NEW category \in Category,
         SubmitClaim(t, tenant, policy, amount, category)
  PROVE  IInv'
<1>. DEFINE f == [ref |-> Seeded + 1 + sequence, tenant |-> tenant,
                  policy |-> policy, amount |-> amount, category |-> category]
<1>1. f.ref = Seeded + 1 + sequence /\ f.policy = policy /\ f.tenant = tenant
  OBVIOUS
<1>2. PICK s \in {"RECEIVED", "UNDER_REVIEW"} : work' = [work EXCEPT ![t] = Filed(f, s)]
  BY DEF SubmitClaim
<1>3. filed' = filed \union {f} /\ signed' = signed /\ sequence' = sequence + 1
  BY DEF SubmitClaim, TakeSequence
<1>4. f \in Facts
  <2>1. Seeded + 1 + sequence \in Nat \ {0}
    BY SizeAssumption DEF TypeOK
  <2>2. policy \in Policy /\ amount \in Int
    BY InputAssumption DEF SubmitClaim, validateCoverage
  <2>. QED
    BY <2>1, <2>2, FactsType
<1>5. PolicyActive(policy) /\ PolicyTenant(policy) = tenant
  BY DEF SubmitClaim, validateCoverage
<1>. HIDE DEF f
<1>6. \A g \in filed : g.ref \in Nat /\ g.ref <= Seeded + sequence
  BY DEF IInv, FiledSound, TypeOK, Facts
<1>7. FiledSound'
  <2>1. f.ref \notin SeedId /\ f.ref <= Seeded + sequence + 1
    BY <1>1, SizeAssumption DEF SeedId, TypeOK
  <2>2. \A g \in filed : g.ref <= Seeded + (sequence + 1)
    BY <1>6, SizeAssumption DEF TypeOK
  <2>3. sequence \in Nat /\ Seeded \in Nat
    BY SizeAssumption DEF TypeOK
  <2>. QED
    BY <1>1, <1>3, <1>5, <2>1, <2>2, <2>3 DEF FiledSound, IInv
<1>8. RefsUnique'
  <2>1. \A g \in filed : g.ref # f.ref
    BY <1>1, <1>6, SizeAssumption DEF TypeOK
  <2>. QED
    BY <1>3, <2>1 DEF RefsUnique, IInv
<1>9. (StoredAsFiled /\ SeedsStay /\ ApprovedIsSigned)'
  BY <1>3, StoreKeeps DEF SubmitClaim
<1>10. PayoutsAuthorised'
  BY <1>3 DEF IInv, PayoutsAuthorised
<1>11. WorkSound'
  <2>1. /\ work'[t] = Filed(f, s) /\ actor'[t] = Partner /\ pc'[t] = "save"
    BY <1>2 DEF SubmitClaim, TypeOK
  <2>2. Filed(f, s).facts = f /\ Filed(f, s).status = s
    BY <1>4, FiledType
  <2>3. /\ EntryOf(t)'.action = "SUBMIT"
        /\ EntryOf(t)'.facts = f
        /\ EntryOf(t)'.actor = Partner
    BY <2>1, <2>2 DEF EntryOf
  <2>4. Truthful(EntryOf(t))'
    BY <1>3, <2>3 DEF Truthful
  <2>5. \A u \in Thread \ {t} : pc'[u] = pc[u] /\ work'[u] = work[u] /\ actor'[u] = actor[u]
    BY <1>2 DEF SubmitClaim, TypeOK
  <2>. QED
    BY <1>3, <2>1, <2>2, <2>4, <2>5, OthersKeep
<1>12. (HeadsTruthful /\ AuditTruthful)'
  BY <1>3, LogsKeep DEF SubmitClaim
<1>13. FreshUntilSaved'
  <2>1. f \notin filed
    BY <1>1, <1>6, SizeAssumption DEF TypeOK
  <2>2. \A id \in ClaimId : store[id] # NoClaim => store[id].facts # f
    BY <2>1 DEF IInv, StoredAsFiled
  <2>3. \A u \in Thread : pc[u] # "idle" => work[u].facts # f
    BY <2>1 DEF IInv, WorkSound
  <2>4. work'[t].facts = f
    BY <1>2, <1>4, FiledType DEF TypeOK
  <2>5. /\ \A u \in Thread \ {t} : pc'[u] = pc[u] /\ work'[u] = work[u]
        /\ pc[t] = "idle" /\ store' = store
    BY <1>2 DEF SubmitClaim, Accept, TypeOK
  <2>6. \A u \in Thread : pc[u] = "save" /\ work[u].status \notin Decided =>
          /\ \A id \in ClaimId : store[id] # NoClaim => store[id].facts # work[u].facts
          /\ \A v \in Thread \ {u} : pc[v] # "idle" => work[v].facts # work[u].facts
    BY DEF IInv, FreshUntilSaved
  <2>. QED
    BY <2>2, <2>3, <2>4, <2>5, <2>6 DEF FreshUntilSaved
<1>. QED
  BY <1>7, <1>8, <1>9, <1>10, <1>11, <1>12, <1>13 DEF IInv

LEMMA ReadInv ==
  ASSUME TypeOK, IInv, NEW t \in Thread, NEW tenant \in Tenant,
         NEW id \in ClaimId, NEW adjuster \in Adjuster,
         ReadForApproval(t, tenant, id, adjuster)
  PROVE  IInv'
<1>1. UNCHANGED <<store, sequence, chain, head, filed, signed>>
  BY DEF ReadForApproval
<1>2. (FiledSound /\ RefsUnique /\ PayoutsAuthorised)'
  BY <1>1 DEF IInv, FiledSound, RefsUnique, PayoutsAuthorised
<1>3. /\ work'[t] = store[id] /\ actor'[t] = adjuster /\ pc'[t] = "decide"
      /\ \A u \in Thread \ {t} : pc'[u] = pc[u] /\ work'[u] = work[u] /\ actor'[u] = actor[u]
  BY DEF ReadForApproval, TypeOK
<1>4. /\ store[id].facts \in filed
      /\ store[id].status = "APPROVED" => SignedFor(store[id])
  BY DEF ReadForApproval, IInv, StoredAsFiled, ApprovedIsSigned
<1>5. work'[t].status = "APPROVED" => SignedFor(work[t])'
  BY <1>1, <1>3, <1>4 DEF SignedFor
<1>6. WorkSound'
  BY <1>1, <1>3, <1>4, <1>5, OthersKeep
<1>7. FreshUntilSaved'
  BY <1>1, <1>3 DEF IInv, FreshUntilSaved, ReadForApproval
<1>. QED
  BY <1>1, <1>2, <1>6, <1>7, StoreKeeps, LogsKeep DEF IInv

LEMMA DenyInv ==
  ASSUME TypeOK, IInv, NEW t \in Thread, Deny(t)
  PROVE  IInv'
<1>1. UNCHANGED <<store, sequence, chain, head, filed, signed>>
  BY DEF Deny
<1>2. (FiledSound /\ RefsUnique /\ PayoutsAuthorised)'
  BY <1>1 DEF IInv, FiledSound, RefsUnique, PayoutsAuthorised
<1>3. /\ work'[t] = withAdjudication(work[t], "DENIED", 0)
      /\ actor'[t] = actor[t] /\ pc'[t] = "save" /\ pc[t] = "decide"
      /\ \A u \in Thread \ {t} : pc'[u] = pc[u] /\ work'[u] = work[u] /\ actor'[u] = actor[u]
  BY DEF Deny, TypeOK
<1>4. work[t] \in Claim /\ work[t].facts \in filed /\ actor[t] \in Adjuster
  BY <1>3 DEF TypeOK, IInv, WorkSound
<1>5. work'[t].facts = work[t].facts /\ work'[t].status = "DENIED"
  BY <1>3, <1>4, AdjudicatedType DEF Decided
<1>6. /\ EntryOf(t)'.action = "DENY"
      /\ EntryOf(t)'.facts = work[t].facts
      /\ EntryOf(t)'.actor = actor[t]
  BY <1>3, <1>5 DEF EntryOf
<1>7. Truthful(EntryOf(t))'
  <2>1. ~authorizeApproval(actor[t], work[t].facts) /\ actor[t] # Partner
    BY <1>4, ThreadAssumption DEF Deny
  <2>. QED
    BY <1>1, <1>4, <1>6, <2>1 DEF Truthful, authorizeApproval
<1>8. WorkSound'
  BY <1>1, <1>3, <1>4, <1>5, <1>7, OthersKeep
<1>9. FreshUntilSaved'
  BY <1>1, <1>3, <1>5 DEF IInv, FreshUntilSaved, Decided
<1>. QED
  BY <1>1, <1>2, <1>8, <1>9, StoreKeeps, LogsKeep DEF IInv

LEMMA SignInv ==
  ASSUME TypeOK, IInv, NEW t \in Thread, SignPayout(t)
  PROVE  IInv'
<1>. DEFINE f == work[t].facts
            p == calculatePayout(f)
            new == [facts |-> f, payout |-> p, adjuster |-> actor[t]]
<1>1. UNCHANGED <<store, sequence, chain, head, filed>> /\ signed' = signed \union {new}
  BY DEF SignPayout
<1>2. /\ work'[t] = withAdjudication(work[t], "APPROVED", p)
      /\ actor'[t] = actor[t] /\ pc'[t] = "save" /\ pc[t] = "decide"
      /\ \A u \in Thread \ {t} : pc'[u] = pc[u] /\ work'[u] = work[u] /\ actor'[u] = actor[u]
  BY DEF SignPayout, TypeOK
<1>3. work[t] \in Claim /\ f \in filed /\ f \in Facts /\ actor[t] \in Adjuster
  BY <1>2 DEF TypeOK, IInv, WorkSound
<1>4. p \in Nat /\ p <= CoverageLimit(f.policy) /\ (p = 0 \/ p < f.amount)
  BY <1>3, PayoutLemma
<1>5. authorizeApproval(actor[t], f)
  BY DEF SignPayout
<1>6. new.facts = f /\ new.payout = p /\ new.adjuster = actor[t]
  OBVIOUS
<1>. HIDE DEF new, p
<1>7. work'[t].facts = f /\ work'[t].status = "APPROVED" /\ work'[t].payout = p
  <2>1. "APPROVED" \in Decided
    BY DEF Decided
  <2>. QED
    BY <1>2, <1>3, <1>4, <2>1, AdjudicatedType
<1>8. (FiledSound /\ RefsUnique)'
  BY <1>1 DEF IInv, FiledSound, RefsUnique
<1>9. PayoutsAuthorised'
  <2>1. f.ref > Seeded => PolicyActive(f.policy) /\ PolicyTenant(f.policy) = f.tenant
    BY <1>3, SizeAssumption DEF IInv, FiledSound, SeedId, Facts
  <2>. QED
    BY <1>1, <1>3, <1>4, <1>5, <1>6, <2>1 DEF IInv, PayoutsAuthorised, authorizeApproval
<1>10. SignedFor(work[t])'
  BY <1>1, <1>7, <1>6 DEF SignedFor
<1>11. Truthful(EntryOf(t))'
  <2>1. /\ EntryOf(t)'.action = "APPROVE"
        /\ EntryOf(t)'.facts = f
        /\ EntryOf(t)'.actor = actor[t]
    BY <1>2, <1>7 DEF EntryOf
  <2>2. actor[t] # Partner
    BY <1>3, ThreadAssumption
  <2>. QED
    BY <1>1, <1>3, <1>6, <2>1, <2>2 DEF Truthful
<1>12. WorkSound'
  BY <1>1, <1>2, <1>3, <1>7, <1>10, <1>11, OthersKeep
<1>13. FreshUntilSaved'
  BY <1>1, <1>2, <1>7 DEF IInv, FreshUntilSaved, Decided
<1>. QED
  BY <1>1, <1>8, <1>9, <1>12, <1>13, StoreKeeps, LogsKeep DEF IInv

LEMMA SaveInv ==
  ASSUME TypeOK, IInv, NEW t \in Thread, Save(t)
  PROVE  IInv'
<1>. DEFINE slot == Slot(work[t].facts.ref)
<1>1. /\ UNCHANGED <<sequence, chain, work, actor, head, filed, signed>>
      /\ pc[t] = "save" /\ pc'[t] = "chain"
      /\ \A u \in Thread \ {t} : pc'[u] = pc[u]
      /\ store' = [store EXCEPT ![slot] = work[t]]
  BY DEF Save, TypeOK
<1>2. /\ work[t] \in Claim /\ work[t] # NoClaim /\ work[t].facts \in filed
      /\ work[t].facts.ref \in Nat \ {0}
  BY <1>1, NoClaimAssumption DEF TypeOK, IInv, WorkSound, Claim, Facts
<1>3. slot \in ClaimId
  BY <1>2, SlotLemma
<1>4. /\ store'[slot] = work[t]
      /\ \A id \in ClaimId \ {slot} : store'[id] = store[id]
  BY <1>1, <1>3 DEF TypeOK
<1>5. (FiledSound /\ RefsUnique /\ PayoutsAuthorised)'
  BY <1>1 DEF IInv, FiledSound, RefsUnique, PayoutsAuthorised
<1>6. StoredAsFiled'
  BY <1>1, <1>2, <1>4 DEF IInv, StoredAsFiled
<1>7. SeedsStay'
  <2>1. slot \in SeedId => work[t].facts = SeedFacts(slot)
    BY <1>2, SlotLemma DEF IInv, FiledSound
  <2>. QED
    BY <1>2, <1>4, <2>1, SizeAssumption DEF IInv, SeedsStay, SeedId, ClaimId
<1>8. ApprovedIsSigned'
  <2>1. work[t].status = "APPROVED" => SignedFor(work[t])
    BY <1>1 DEF IInv, WorkSound
  <2>. QED
    BY <1>1, <1>4, <2>1 DEF IInv, ApprovedIsSigned, SignedFor
<1>9. WorkSound'
  <2>1. Truthful(EntryOf(t)) /\ EntryOf(t)' = EntryOf(t)
    BY <1>1 DEF IInv, WorkSound, EntryOf
  <2>2. EntryOf(t) \in Entry
    BY <1>2, EntryType DEF TypeOK
  <2>3. Truthful(EntryOf(t))'
    BY <1>1, <2>1, <2>2, TruthGrows
  <2>4. work'[t].status = "APPROVED" => SignedFor(work[t])'
    BY <1>1 DEF IInv, WorkSound, SignedFor
  <2>. QED
    BY <1>1, <1>2, <2>3, <2>4, OthersKeep
<1>10. FreshUntilSaved'
  <2>. SUFFICES ASSUME NEW u \in Thread, pc'[u] = "save", work'[u].status \notin Decided
                PROVE  /\ \A id \in ClaimId : store'[id] # NoClaim => store'[id].facts # work'[u].facts
                       /\ \A v \in Thread \ {u} : pc'[v] # "idle" => work'[v].facts # work'[u].facts
    BY DEF FreshUntilSaved
  <2>1. u # t /\ pc[u] = "save" /\ work[u].status \notin Decided
    BY <1>1
  <2>2. /\ \A id \in ClaimId : store[id] # NoClaim => store[id].facts # work[u].facts
        /\ \A v \in Thread \ {u} : pc[v] # "idle" => work[v].facts # work[u].facts
    BY <2>1 DEF IInv, FreshUntilSaved
  <2>. QED
    BY <1>1, <1>4, <2>1, <2>2
<1>. QED
  BY <1>1, <1>5, <1>6, <1>7, <1>8, <1>9, <1>10, LogsKeep DEF IInv

LEMMA RecordInv ==
  ASSUME TypeOK, IInv, NEW t \in Thread, ReadHead(t) \/ WriteHead(t)
  PROVE  IInv'
<1>1. /\ UNCHANGED <<store, sequence, actor, filed, signed>>
      /\ pc[t] \in {"chain", "record"} /\ pc'[t] \notin {"save", "decide"}
      /\ \A u \in Thread \ {t} : pc'[u] = pc[u] /\ work'[u] = work[u] /\ head'[u] = head[u]
      /\ pc'[t] # "idle" => work'[t] = work[t]
  BY DEF ReadHead, WriteHead, TypeOK
<1>2. Truthful(EntryOf(t)) /\ EntryOf(t) \in Entry
  BY <1>1, EntryType DEF IInv, WorkSound, TypeOK
<1>3. (FiledSound /\ RefsUnique /\ PayoutsAuthorised)'
  BY <1>1 DEF IInv, FiledSound, RefsUnique, PayoutsAuthorised
<1>4. WorkSound'
  <2>1. pc'[t] # "idle" => EntryOf(t)' = EntryOf(t)
    BY <1>1 DEF EntryOf
  <2>2. pc'[t] # "idle" => Truthful(EntryOf(t))'
    BY <1>1, <1>2, <2>1, TruthGrows
  <2>3. /\ work[t].facts \in filed
        /\ work[t].status = "APPROVED" => SignedFor(work[t])
    BY <1>1 DEF IInv, WorkSound
  <2>. QED
    BY <1>1, <2>2, <2>3, OthersKeep DEF SignedFor
<1>5. FreshUntilSaved'
  BY <1>1 DEF IInv, FreshUntilSaved
<1>7. (HeadsTruthful /\ AuditTruthful)'
  <2>1. CASE ReadHead(t)
    <3>1. chain' = chain /\ head'[t] = chain
      BY <2>1 DEF ReadHead, TypeOK
    <3>2. AuditTruthful'
      BY <1>1, <3>1 DEF IInv, AuditTruthful, Truthful, authorizeApproval
    <3>3. HeadsTruthful'
      BY <1>1, <3>1
      DEF IInv, HeadsTruthful, AuditTruthful, Truthful, authorizeApproval
    <3>. QED
      BY <3>2, <3>3
  <2>2. CASE WriteHead(t)
    <3>1. chain' = Append(head[t], EntryOf(t)) /\ head'[t] = <<>> /\ head[t] \in Seq(Entry)
      BY <2>2 DEF WriteHead, Chained, TypeOK
    <3>2. ASSUME NEW k \in 1 .. Len(chain')
          PROVE  Truthful(chain[k])'
      <4>1. chain'[k] = EntryOf(t) \/ \E j \in 1 .. Len(head[t]) : chain'[k] = head[t][j]
        BY <1>2, <3>1
      <4>2. Truthful(chain'[k])
        BY <1>2, <4>1 DEF IInv, HeadsTruthful
      <4>. QED
        BY <1>1, <4>2 DEF Truthful, authorizeApproval
    <3>3. HeadsTruthful'
      BY <1>1, <3>1 DEF IInv, HeadsTruthful, Truthful, authorizeApproval
    <3>. QED
      BY <3>2, <3>3 DEF AuditTruthful
  <2>. QED
    BY <2>1, <2>2
<1>. QED
  BY <1>1, <1>3, <1>4, <1>5, <1>7, StoreKeeps DEF IInv

-----------------------------------------------------------------------------
(* What was answered stays in the store until ids wrap. *)

\* As long as ids have not wrapped, no two refs share one.
LEMMA SlotInjective ==
  ASSUME NEW a \in Nat \ {0}, NEW b \in Nat \ {0},
         a <= Seeded + MaxSubmitted, b <= Seeded + MaxSubmitted, Slot(a) = Slot(b)
  PROVE  a = b
<1>1. ASSUME NEW r \in Nat \ {0}, r <= Seeded + MaxSubmitted
      PROVE  Slot(r) = r
  <2>1. CASE r <= Seeded
    BY <2>1 DEF Slot
  <2>2. CASE r > Seeded
    <3>1. r - Seeded - 1 \in 0 .. MaxSubmitted - 1
      BY <1>1, <2>2, SizeAssumption
    <3>2. (r - Seeded - 1) % MaxSubmitted = r - Seeded - 1
      BY <3>1, SizeAssumption
    <3>. QED
      BY <2>2, <3>2, SizeAssumption DEF Slot
  <2>. QED
    BY <2>1, <2>2, SizeAssumption
<1>. QED
  BY <1>1

\* Until then a save finds under its id nothing, or the same claim.
LEMMA SaveKeeps ==
  ASSUME TypeOK, IInv, NEW t \in Thread, Save(t), sequence <= MaxSubmitted,
         NEW f \in Facts, f = work[t].facts \/ Kept(f)
  PROVE  Kept(f)'
<1>1. work[t] \in Claim /\ work[t] # NoClaim /\ work[t].facts \in filed
  BY NoClaimAssumption DEF Save, TypeOK, IInv, WorkSound
<1>2. \A g \in filed : g \in Facts /\ g.ref \in Nat \ {0} /\ g.ref <= Seeded + MaxSubmitted
  BY SizeAssumption DEF IInv, FiledSound, TypeOK, Facts
<1>3. f.ref \in Nat \ {0} /\ Slot(f.ref) \in ClaimId
  BY SlotLemma DEF Facts
<1>4. f \in filed
  BY <1>1, <1>3 DEF Kept, IInv, StoredAsFiled
<1>5. \A id \in ClaimId :
        store'[id] = IF id = Slot(work[t].facts.ref) THEN work[t] ELSE store[id]
  BY DEF Save, TypeOK
<1>6. CASE Slot(f.ref) = Slot(work[t].facts.ref)
  <2>1. f.ref = work[t].facts.ref
    BY <1>1, <1>2, <1>4, <1>6, SlotInjective
  <2>2. f = work[t].facts
    BY <1>1, <1>4, <2>1 DEF IInv, RefsUnique
  <2>. QED
    BY <1>1, <1>3, <1>5, <2>2 DEF Kept
<1>7. CASE Slot(f.ref) # Slot(work[t].facts.ref)
  BY <1>3, <1>5, <1>7 DEF Kept
<1>. QED
  BY <1>6, <1>7

\* A request that arrives takes a number at most, and leaves the store alone.
LEMMA ArriveFrame ==
  ASSUME NEW t \in Thread, Arrive(t)
  PROVE  /\ UNCHANGED <<store, recorded>>
         /\ sequence' = sequence \/ sequence' = sequence + 1
         /\ \E w, p : /\ work' = [work EXCEPT ![t] = w]
                      /\ pc' = [pc EXCEPT ![t] = p]
                      /\ p \in {"save", "decide"}
<1>1. CASE \E tenant \in Tenant, policy \in 0 .. PolicyCount, amount \in Amount,
              category \in Category : SubmitClaim(t, tenant, policy, amount, category)
  BY <1>1 DEF SubmitClaim, TakeSequence
<1>2. CASE \E tenant \in Tenant, id \in ClaimId, adjuster \in Adjuster :
              ReadForApproval(t, tenant, id, adjuster)
  BY <1>2 DEF ReadForApproval
<1>. QED
  BY <1>1, <1>2 DEF Arrive

\* The other steps take no number, and only Save writes the store.
LEMMA StepFrame ==
  ASSUME NEW t \in Thread, Step(t)
  PROVE  /\ sequence' = sequence
         /\ Save(t) \/ UNCHANGED store
<1>1. CASE Deny(t)
  BY <1>1 DEF Deny
<1>2. CASE SignPayout(t)
  BY <1>2 DEF SignPayout
<1>3. CASE Save(t)
  BY <1>3 DEF Save
<1>4. CASE ReadHead(t)
  BY <1>4 DEF ReadHead
<1>5. CASE WriteHead(t)
  BY <1>5 DEF WriteHead
<1>. QED
  BY <1>1, <1>2, <1>3, <1>4, <1>5 DEF Step

LEMMA KeptInv ==
  ASSUME TypeOK, IInv, SavedKept, AcknowledgedKept, [Next]_vars
  PROVE  (SavedKept /\ AcknowledgedKept)'
<1>. SUFFICES ASSUME sequence' <= MaxSubmitted
              PROVE  /\ \A u \in Thread : pc'[u] \in {"chain", "record"} => Kept(work[u].facts)'
                     /\ \A k \in 1 .. Len(recorded') : Kept(recorded[k].facts)'
  BY DEF SavedKept, AcknowledgedKept
<1>1. sequence <= MaxSubmitted
  <2>1. sequence' = sequence \/ sequence' = sequence + 1
    BY ArriveFrame, StepFrame DEF Next, vars
  <2>2. sequence \in Nat /\ MaxSubmitted \in Nat
    BY SizeAssumption DEF TypeOK
  <2>. QED
    BY <2>1, <2>2
<1>2. /\ \A u \in Thread : pc[u] \in {"chain", "record"} => Kept(work[u].facts)
      /\ \A k \in 1 .. Len(recorded) : Kept(recorded[k].facts)
  BY <1>1 DEF SavedKept, AcknowledgedKept
<1>3. /\ \A u \in Thread : pc[u] # "idle" => work[u].facts \in Facts
      /\ \A k \in 1 .. Len(recorded) : recorded[k].facts \in Facts
  <2>1. \A c \in Claim : c.facts \in Facts
    BY DEF Claim
  <2>2. \A e \in Entry : e.facts \in Facts
    BY DEF Entry
  <2>3. recorded \in Seq(Entry) /\ \A u \in Thread : pc[u] # "idle" => work[u] \in Claim
    BY DEF TypeOK
  <2>. QED
    BY <2>1, <2>2, <2>3
<1>4. ASSUME NEW t \in Thread, Save(t)
      PROVE  /\ \A u \in Thread : pc'[u] \in {"chain", "record"} => Kept(work[u].facts)'
             /\ \A k \in 1 .. Len(recorded') : Kept(recorded[k].facts)'
  <2>1. /\ recorded' = recorded /\ work' = work
        /\ \A u \in Thread \ {t} : pc'[u] = pc[u]
        /\ pc[t] = "save"
    BY <1>4 DEF Save, TypeOK
  <2>2. ASSUME NEW f \in Facts, f = work[t].facts \/ Kept(f) PROVE Kept(f)'
    BY <1>1, <1>4, <2>2, SaveKeeps
  <2>3. \A u \in Thread : pc'[u] \in {"chain", "record"} => Kept(work[u].facts)'
    BY <1>2, <1>3, <2>1, <2>2 DEF Kept
  <2>4. \A k \in 1 .. Len(recorded') : Kept(recorded[k].facts)'
    BY <1>2, <1>3, <2>1, <2>2 DEF Kept
  <2>. QED
    BY <2>3, <2>4
<1>5. ASSUME NEW t \in Thread, WriteHead(t)
      PROVE  /\ \A u \in Thread : pc'[u] \in {"chain", "record"} => Kept(work[u].facts)'
             /\ \A k \in 1 .. Len(recorded') : Kept(recorded[k].facts)'
  <2>1. /\ recorded' = Append(recorded, EntryOf(t)) /\ EntryOf(t).facts = work[t].facts
        /\ store' = store /\ pc[t] = "record" /\ pc'[t] = "idle"
        /\ \A u \in Thread \ {t} : pc'[u] = pc[u] /\ work'[u] = work[u]
    BY <1>5 DEF WriteHead, TypeOK, EntryOf
  <2>2. recorded \in Seq(Entry)
    BY DEF TypeOK
  <2>3. \A k \in 1 .. Len(recorded') :
          \/ recorded'[k].facts = work[t].facts
          \/ k \in 1 .. Len(recorded) /\ recorded'[k] = recorded[k]
    BY <2>1, <2>2
  <2>. QED
    BY <1>2, <2>1, <2>3 DEF Kept
<1>6. CASE /\ UNCHANGED <<store, recorded>>
           /\ \A u \in Thread : pc'[u] \in {"chain", "record"} =>
                pc[u] \in {"chain", "record"} /\ work'[u] = work[u]
  BY <1>2, <1>6 DEF Kept
<1>7. ASSUME NEW t \in Thread, Arrive(t) \/ Deny(t) \/ SignPayout(t) \/ ReadHead(t)
      PROVE  /\ UNCHANGED <<store, recorded>>
             /\ \A u \in Thread : pc'[u] \in {"chain", "record"} =>
                  pc[u] \in {"chain", "record"} /\ work'[u] = work[u]
  <2>1. CASE Arrive(t)
    <3>1. PICK w, p : /\ work' = [work EXCEPT ![t] = w]
                      /\ pc' = [pc EXCEPT ![t] = p]
                      /\ p \in {"save", "decide"}
      BY <2>1, ArriveFrame
    <3>2. /\ pc'[t] \in {"save", "decide"}
          /\ \A u \in Thread \ {t} : pc'[u] = pc[u] /\ work'[u] = work[u]
      BY <3>1 DEF TypeOK
    <3>. QED
      BY <2>1, <3>2, ArriveFrame
  <2>2. CASE Deny(t) \/ SignPayout(t)
    BY <2>2 DEF Deny, SignPayout, TypeOK
  <2>3. CASE ReadHead(t)
    BY <2>3 DEF ReadHead, TypeOK
  <2>. QED
    BY <1>7, <2>1, <2>2, <2>3
<1>8. CASE UNCHANGED vars
  BY <1>6, <1>8 DEF vars
<1>. QED
  BY <1>4, <1>5, <1>6, <1>7, <1>8 DEF Next, Step

-----------------------------------------------------------------------------
(* Theorems. *)

LEMMA NextInv == TypeOK /\ IInv /\ [Next]_vars => IInv'
<1>. SUFFICES ASSUME TypeOK, IInv, [Next]_vars PROVE IInv'
  OBVIOUS
<1>1. ASSUME NEW t \in Thread, Arrive(t) PROVE IInv'
  BY <1>1, SubmitInv, ReadInv DEF Arrive
<1>2. ASSUME NEW t \in Thread, Step(t) PROVE IInv'
  BY <1>2, DenyInv, SignInv, SaveInv, RecordInv DEF Step
<1>3. CASE UNCHANGED vars
  <2>1. /\ UNCHANGED <<store, sequence, chain, pc, work, actor, head, filed, signed>>
        /\ \A t \in Thread : EntryOf(t)' = EntryOf(t)
    BY <1>3 DEF vars, EntryOf
  <2>2. WorkSound'
    BY <2>1 DEF IInv, WorkSound, SignedFor, Truthful, authorizeApproval
  <2>. QED
    BY <2>1, <2>2, StoreKeeps, LogsKeep
    DEF IInv, FiledSound, RefsUnique, PayoutsAuthorised, FreshUntilSaved
<1>. QED
  BY <1>1, <1>2, <1>3 DEF Next

LEMMA Inductive == Spec => []IInv
BY InitInv, NextInv, TypeCorrect, PTL DEF Spec

\* The store only holds claims as they were filed, under their own ids.
THEOREM StoreSound == Spec => [](StoredAsFiled /\ RefsUnique /\ SeedsStay)
<1>1. IInv => StoredAsFiled /\ RefsUnique /\ SeedsStay
  BY DEF IInv
<1>. QED
  BY <1>1, Inductive, PTL

\* Every approval shown is a signed one, whatever snapshots concurrent approvals
\* write back.
THEOREM ApprovalsSound == Spec => []ApprovedIsSigned
<1>1. IInv => ApprovedIsSigned
  BY DEF IInv
<1>. QED
  BY <1>1, Inductive, PTL

\* Every payout that was signed is authorised.
THEOREM PayoutsSound == Spec => []PayoutsAuthorised
<1>1. IInv => PayoutsAuthorised
  BY DEF IInv
<1>. QED
  BY <1>1, Inductive, PTL

\* The audit chain may lose entries but tells nothing that did not happen.
THEOREM AuditSound == Spec => []AuditTruthful
<1>1. IInv => AuditTruthful
  BY DEF IInv
<1>. QED
  BY <1>1, Inductive, PTL

\* Until the ids wrap, whatever was answered can be looked up.
THEOREM AcknowledgedSound == Spec => []AcknowledgedKept
<1>1. Init => SavedKept /\ AcknowledgedKept
  BY DEF Init, SavedKept, AcknowledgedKept
<1>2. TypeOK /\ IInv /\ SavedKept /\ AcknowledgedKept /\ [Next]_vars
        => (SavedKept /\ AcknowledgedKept)'
  BY KeptInv
<1>. QED
  BY <1>1, <1>2, TypeCorrect, Inductive, PTL DEF Spec

\* No interleaving of adjudications and submissions takes a decision back.
THEOREM DecisionsSound == Spec => DecisionsStick
<1>. DEFINE Keeps(id) == /\ store[id] # NoClaim
                         /\ store[id].status \in Decided
                         /\ store'[id].facts = store[id].facts
                         => store'[id].status \in Decided
<1>1. [Next]_vars => UNCHANGED store \/ \E t \in Thread : Save(t)
  BY ArriveFrame, StepFrame DEF Next, vars
<1>2. TypeOK /\ IInv /\ (\E t \in Thread : Save(t)) => \A id \in ClaimId : Keeps(id)
  <2>. SUFFICES ASSUME TypeOK, IInv, NEW t \in Thread, Save(t), NEW id \in ClaimId
                PROVE  Keeps(id)
    OBVIOUS
  <2>1. store'[id] = IF id = Slot(work[t].facts.ref) THEN work[t] ELSE store[id]
    BY DEF Save, TypeOK
  <2>2. CASE work[t].status \in Decided
    BY <2>1, <2>2
  <2>3. CASE work[t].status \notin Decided
    BY <2>1, <2>3 DEF IInv, FreshUntilSaved, Save
  <2>. QED
    BY <2>2, <2>3
<1>3. TypeOK /\ IInv /\ [Next]_vars => [\A id \in ClaimId : Keeps(id)]_store
  BY <1>1, <1>2
<1>. QED
  BY <1>3, TypeCorrect, Inductive, PTL DEF Spec, DecisionsStick
=============================================================================
