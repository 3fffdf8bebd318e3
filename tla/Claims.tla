------------------------------- MODULE Claims -------------------------------
(***************************************************************************)
(* The claims-intake service: Spring serves every request on a thread of   *)
(* its own, and the threads share an in-memory claim store, the sequence   *)
(* that hands out claim ids and the head of the audit chain.  Nothing      *)
(* holds a lock across two of those accesses, so each access to shared     *)
(* state is one action and everything a thread computes in between is part *)
(* of the action before it.                                                *)
(*                                                                         *)
(* A refused request (401, 403, 404, 422) changes nothing: the refusals    *)
(* are the guards of the actions.  GET /claims/{id} only reads.            *)
(*                                                                         *)
(* The number n stands for the id "CLM-n", the number i for the policy     *)
(* "POL-(1000+i)"; amounts are cents.  Every claim carries its ref, the id *)
(* it would have if ids did not wrap, so that two claims that used one id  *)
(* can be told apart.                                                      *)
(***************************************************************************)
EXTENDS Integers, Sequences

CONSTANTS
  Thread,        \* request threads
  Adjuster,      \* adjuster ids
  Senior,        \* those whose id starts with "senior-"
  Partner,       \* the bearer of the one session token of the clients
  Amount,        \* amounts clients ask for, in cents
  Category,      \* categories clients name
  Seeded,        \* SEEDED, 300 in the code
  MaxSubmitted,  \* MAX_SUBMITTED, 5000 in the code
  PolicyCount,   \* POLICY_COUNT, 200 in the code
  LapseEvery,    \* one policy in 25 is lapsed in the code
  MaxRequests,   \* bound: requests that are accepted in one behaviour
  NoClaim        \* the store has no claim under this id

ASSUME ThreadAssumption == Senior \subseteq Adjuster /\ Partner \notin Adjuster
ASSUME SizeAssumption ==
  /\ Seeded \in Nat
  /\ MaxSubmitted \in Nat \ {0}
  /\ PolicyCount \in Nat \ {0}
  /\ LapseEvery \in Nat \ {0}
  /\ MaxRequests \in Nat
ASSUME InputAssumption == Amount \subseteq Int

JuniorLimit == 300000
Tenant      == 0 .. 2
Policy      == 0 .. PolicyCount - 1
SeedId      == 1 .. Seeded
ClaimId     == 1 .. Seeded + MaxSubmitted

\* The policies the store is seeded with.
PolicyTenant(i)   == i % 3
CoverageLimit(i)  == 2500000 + i * 10000
PolicyExcess(i)   == 25000 + (i % 5) * 10000
PolicyActive(i)   == i % LapseEvery # LapseEvery - 1

\* What a claim says when it is filed; adjudication never changes it.
Facts == [ref : Nat \ {0}, tenant : Tenant, policy : Policy,
          amount : Int, category : Category \union {"AUTO", "PROPERTY"}]

Status  == {"RECEIVED", "UNDER_REVIEW", "APPROVED", "DENIED"}
Decided == {"APPROVED", "DENIED"}
Claim   == [facts : Facts, status : Status, payout : Nat]
Actor   == Adjuster \union {Partner}
Entry   == [action : {"SUBMIT", "APPROVE", "DENY"}, facts : Facts, actor : Actor]

ASSUME NoClaimAssumption == NoClaim \notin Claim

\* Mutants of Slot: the offset forgotten, the range cut in half.
SlotFromOne(ref)   == 1 + ((ref - 1) % MaxSubmitted)
SlotHalfRange(ref) ==
  IF ref <= Seeded THEN ref
                   ELSE Seeded + 1 + ((ref - Seeded - 1) % (MaxSubmitted \div 2))

\* The id under which the claim with this ref is stored.
Slot(ref) == IF ref <= Seeded
             THEN ref
             ELSE Seeded + 1 + ((ref - Seeded - 1) % MaxSubmitted)

SeedFacts(n) ==
  [ref |-> n, tenant |-> n % 3, policy |-> (n * 3) % PolicyCount,
   amount |-> 150000 + n * 1250,
   category |-> IF n % 2 = 0 THEN "AUTO" ELSE "PROPERTY"]

Filed(f, s) == [facts |-> f, status |-> s, payout |-> 0]

\* Mutants of withAdjudication: two of the constructor's long arguments swapped,
\* the payout lost.
withAdjudicationSwapped(c, s, p) ==
  [facts |-> [c.facts EXCEPT !.amount = p], status |-> s, payout |-> c.facts.amount]
withAdjudicationUnpaid(c, s, p) == [facts |-> c.facts, status |-> s, payout |-> 0]

withAdjudication(c, s, p) == [facts |-> c.facts, status |-> s, payout |-> p]

AtLeastZero(x) == IF x < 0 THEN 0 ELSE x
AtMost(x, y)   == IF x < y THEN x ELSE y

\* Mutant of applyDeductible: Math.max(0, ...) dropped.
applyDeductibleUnclamped(f) ==
  f.amount - (IF f.category = "AUTO" THEN PolicyExcess(f.policy)
                                     ELSE 2 * PolicyExcess(f.policy))

applyDeductible(f) ==
  AtLeastZero(f.amount - (IF f.category = "AUTO" THEN PolicyExcess(f.policy)
                                                 ELSE 2 * PolicyExcess(f.policy)))

calculatePayout(f) == AtMost(applyDeductible(f), CoverageLimit(f.policy))

\* Mutant of authorizeApproval: only the blank adjuster id is refused.
authorizeAnyone(a, f) == a \in Adjuster

authorizeApproval(a, f) == a \in Senior \/ f.amount <= JuniorLimit

\* Mutant of validateCoverage: lapsed policies pass.
validateLapsed(tenant, policy, amount) ==
  policy \in Policy /\ PolicyTenant(policy) = tenant /\ amount <= CoverageLimit(policy)

validateCoverage(tenant, policy, amount) ==
  /\ policy \in Policy
  /\ PolicyTenant(policy) = tenant
  /\ PolicyActive(policy)
  /\ amount <= CoverageLimit(policy)

VARIABLES
  store,     \* ClaimRepository.claims
  sequence,  \* ClaimRepository.sequence
  chain,     \* the entries AuditTrail.chainHead hashes together
  pc,        \* what each thread does next
  work,      \* the claim each thread has in hand
  actor,     \* the partner or adjuster the thread works for
  head,      \* the chain a thread has read in record() and not yet written
  filed,     \* history: the facts of every claim ever created
  signed,    \* history: the payout instructions that were signed
  recorded,  \* history: the audit entries of the requests answered, in order
  requests   \* number of requests accepted

vars == <<store, sequence, chain, pc, work, actor, head, filed, signed,
          recorded, requests>>

Init ==
  /\ store = [n \in ClaimId |-> IF n \in SeedId
                                THEN Filed(SeedFacts(n), "RECEIVED")
                                ELSE NoClaim]
  /\ sequence = 0
  /\ chain = <<>>
  /\ pc = [t \in Thread |-> "idle"]
  /\ work = [t \in Thread |-> NoClaim]
  /\ actor = [t \in Thread |-> Partner]
  /\ head = [t \in Thread |-> <<>>]
  /\ filed = {SeedFacts(n) : n \in SeedId}
  /\ signed = {}
  /\ recorded = <<>>
  /\ requests = 0

Accept(t) ==
  /\ pc[t] = "idle"
  /\ requests < MaxRequests
  /\ requests' = requests + 1

\* Mutant of TakeSequence: get() in place of getAndIncrement().
ReadSequence == sequence' = sequence

\* nextId is one atomic getAndIncrement; the ref of the claim is taken from the
\* value before.
TakeSequence == sequence' = sequence + 1

\* ClaimIntakeService.submitClaim up to and including nextId: coverage is
\* validated against policies that never change, so the first access to
\* shared state is the sequence.  The fraud score puts a claim under review.
SubmitClaim(t, tenant, policy, amount, category) ==
  /\ Accept(t)
  /\ validateCoverage(tenant, policy, amount)
  /\ LET f == [ref |-> Seeded + 1 + sequence, tenant |-> tenant,
               policy |-> policy, amount |-> amount, category |-> category]
     IN /\ filed' = filed \union {f}
        /\ \E s \in {"RECEIVED", "UNDER_REVIEW"} :
             work' = [work EXCEPT ![t] = Filed(f, s)]
  /\ TakeSequence
  /\ actor' = [actor EXCEPT ![t] = Partner]
  /\ pc' = [pc EXCEPT ![t] = "save"]
  /\ UNCHANGED <<store, chain, head, signed, recorded>>

\* AdjudicationService.adjudicate up to findById: the thread works from here
\* on with the claim it has read.  TenantGuard refuses the other tenants.
ReadForApproval(t, tenant, id, adjuster) ==
  /\ Accept(t)
  /\ store[id] # NoClaim
  /\ store[id].facts.tenant = tenant
  /\ work' = [work EXCEPT ![t] = store[id]]
  /\ actor' = [actor EXCEPT ![t] = adjuster]
  /\ pc' = [pc EXCEPT ![t] = "decide"]
  /\ UNCHANGED <<store, sequence, chain, head, filed, signed, recorded>>

Deny(t) ==
  /\ pc[t] = "decide"
  /\ ~authorizeApproval(actor[t], work[t].facts)
  /\ work' = [work EXCEPT ![t] = withAdjudication(@, "DENIED", 0)]
  /\ pc' = [pc EXCEPT ![t] = "save"]
  /\ UNCHANGED <<store, sequence, chain, actor, head, filed, signed, recorded,
                 requests>>

\* The instruction is signed for the bank before the claim is saved.
SignPayout(t) ==
  /\ pc[t] = "decide"
  /\ authorizeApproval(actor[t], work[t].facts)
  /\ LET payout == calculatePayout(work[t].facts)
     IN /\ signed' = signed \union {[facts |-> work[t].facts, payout |-> payout,
                                     adjuster |-> actor[t]]}
        /\ work' = [work EXCEPT ![t] = withAdjudication(@, "APPROVED", payout)]
  /\ pc' = [pc EXCEPT ![t] = "save"]
  /\ UNCHANGED <<store, sequence, chain, actor, head, filed, recorded, requests>>

\* ClaimRepository.save: an unconditional put under the id of the claim.
Save(t) ==
  /\ pc[t] = "save"
  /\ store' = [store EXCEPT ![Slot(work[t].facts.ref)] = work[t]]
  /\ pc' = [pc EXCEPT ![t] = "chain"]
  /\ UNCHANGED <<sequence, chain, work, actor, head, filed, signed, recorded,
                 requests>>

\* AuditTrail.record reads the volatile head ...
ReadHead(t) ==
  /\ pc[t] = "chain"
  /\ head' = [head EXCEPT ![t] = chain]
  /\ pc' = [pc EXCEPT ![t] = "record"]
  /\ UNCHANGED <<store, sequence, chain, work, actor, filed, signed, recorded,
                 requests>>

\* Mutant of EntryOf: the bearer of the token is recorded, not the adjuster.
EntryOfPartner(t) ==
  [action |-> CASE work[t].status = "APPROVED" -> "APPROVE"
                [] work[t].status = "DENIED"   -> "DENY"
                [] OTHER                       -> "SUBMIT",
   facts |-> work[t].facts, actor |-> Partner]

EntryOf(t) ==
  [action |-> CASE work[t].status = "APPROVED" -> "APPROVE"
                [] work[t].status = "DENIED"   -> "DENY"
                [] OTHER                       -> "SUBMIT",
   facts |-> work[t].facts, actor |-> actor[t]]

Chained(h, e) == Append(h, e)

\* ... and later writes the head it has computed from it; the reply follows.
WriteHead(t) ==
  /\ pc[t] = "record"
  /\ chain' = Chained(head[t], EntryOf(t))
  /\ recorded' = Append(recorded, EntryOf(t))
  /\ work' = [work EXCEPT ![t] = NoClaim]
  /\ head' = [head EXCEPT ![t] = <<>>]
  /\ pc' = [pc EXCEPT ![t] = "idle"]
  /\ UNCHANGED <<store, sequence, actor, filed, signed, requests>>

Arrive(t) ==
  \/ \E tenant \in Tenant, policy \in 0 .. PolicyCount, amount \in Amount,
        category \in Category : SubmitClaim(t, tenant, policy, amount, category)
  \/ \E tenant \in Tenant, id \in ClaimId, adjuster \in Adjuster :
        ReadForApproval(t, tenant, id, adjuster)

Step(t) == Deny(t) \/ SignPayout(t) \/ Save(t) \/ ReadHead(t) \/ WriteHead(t)

Next == \E t \in Thread : Arrive(t) \/ Step(t)

Spec == Init /\ [][Next]_vars

-----------------------------------------------------------------------------
(* Properties *)

\* Every variable ranges over the values its Java type allows here.
TypeOK ==
  /\ store \in [ClaimId -> Claim \union {NoClaim}]
  /\ sequence \in Nat
  /\ chain \in Seq(Entry)
  /\ pc \in [Thread -> {"idle", "decide", "save", "chain", "record"}]
  /\ work \in [Thread -> Claim \union {NoClaim}]
  /\ \A t \in Thread : pc[t] # "idle" => work[t] \in Claim
  /\ actor \in [Thread -> Actor]
  /\ head \in [Thread -> Seq(Entry)]
  /\ filed \subseteq Facts
  /\ signed \subseteq [facts : Facts, payout : Nat, adjuster : Actor]
  /\ recorded \in Seq(Entry)
  /\ requests \in Nat

\* Whatever two threads do to one id, the claim stored under it is a claim that
\* was filed, under the id it was filed with: adjudications that write back an
\* old snapshot never mix the data of two claims.
StoredAsFiled ==
  \A id \in ClaimId : store[id] # NoClaim =>
    store[id].facts \in filed /\ Slot(store[id].facts.ref) = id

\* No two claims ever share a ref, so one id is reused only after all the
\* others of the range above the seeds have been used.
RefsUnique == \A f, g \in filed : f.ref = g.ref => f = g

\* "Status lookups and approvals always hit" (ClaimRepository.java:15): no
\* submission, however often the ids wrap, takes the place of a seeded claim.
SeedsStay == \A n \in SeedId :
  store[n] # NoClaim /\ store[n].facts = SeedFacts(n)

SignedFor(c) == \E s \in signed : s.facts = c.facts /\ s.payout = c.payout

\* A claim shown as approved has a signed instruction for exactly the amount
\* the claim shows, in spite of the stale snapshots concurrent approvals write.
ApprovedIsSigned ==
  \A id \in ClaimId :
    store[id] # NoClaim /\ store[id].status = "APPROVED" => SignedFor(store[id])

\* Every signed payout was authorised for the amount the claim was filed with,
\* is no more than that amount, and never exceeds the coverage of the policy;
\* a claim filed by a partner was on an active policy of its own tenant.
PayoutsAuthorised ==
  \A s \in signed :
    /\ s.facts \in filed
    /\ s.adjuster \in Adjuster
    /\ s.adjuster \in Senior \/ s.facts.amount <= JuniorLimit
    /\ s.payout <= CoverageLimit(s.facts.policy)
    /\ s.payout = 0 \/ s.payout < s.facts.amount
    /\ s.facts.ref > Seeded =>
         PolicyActive(s.facts.policy) /\ PolicyTenant(s.facts.policy) = s.facts.tenant

Truthful(e) ==
  /\ e.facts \in filed
  /\ e.action = "SUBMIT" <=> e.actor = Partner
  /\ e.action = "APPROVE" =>
       \E s \in signed : s.facts = e.facts /\ s.adjuster = e.actor
  /\ e.action = "DENY" => ~authorizeApproval(e.actor, e.facts)

\* The audit chain never tells of something that did not happen: an approval in
\* it was signed by that adjuster, a denial was of a claim beyond the
\* adjuster's authority, a submission was filed.
AuditTruthful == \A k \in 1 .. Len(chain) : Truthful(chain[k])

\* A decision may be replaced by another decision, or its id by a later claim,
\* but a decided claim never becomes undecided again.
DecisionsStick ==
  [][\A id \in ClaimId :
       /\ store[id] # NoClaim
       /\ store[id].status \in Decided
       /\ store'[id].facts = store[id].facts
       => store'[id].status \in Decided]_store

\* "Append-only regulatory audit log [...] hash-chaining each entry to the
\* previous one" (AuditTrail.java:7): the head only ever moves to itself
\* extended by one entry.
AppendOnly ==
  [][/\ Len(chain') = Len(chain) + 1
     /\ SubSeq(chain', 1, Len(chain)) = chain]_chain

\* A claim with these facts is found under their id.
Kept(f) == store[Slot(f.ref)] # NoClaim /\ store[Slot(f.ref)].facts = f

\* Until ids come round again, a submission that was answered 201 can be looked
\* up under its id: nothing an adjudication of another claim writes back erases
\* it.  Once the range has wrapped an older snapshot may.
AcknowledgedKept ==
  sequence <= MaxSubmitted => \A k \in 1 .. Len(recorded) : Kept(recorded[k].facts)

-----------------------------------------------------------------------------
(* What makes the invariants above inductive. *)

\* Refs come from the sequence, and only eligible claims are filed.
FiledSound ==
  \A f \in filed :
    /\ f.ref <= Seeded + sequence
    /\ f.ref \in SeedId => f = SeedFacts(f.ref)
    /\ f.ref \notin SeedId =>
         PolicyActive(f.policy) /\ PolicyTenant(f.policy) = f.tenant

\* What a thread is about to save and record is already true.
WorkSound ==
  \A t \in Thread : pc[t] # "idle" =>
    /\ work[t].facts \in filed
    /\ work[t].status = "APPROVED" => SignedFor(work[t])
    /\ IF pc[t] = "decide" THEN actor[t] \in Adjuster ELSE Truthful(EntryOf(t))

\* So is the chain it has read.
HeadsTruthful ==
  \A t \in Thread : \A k \in 1 .. Len(head[t]) : Truthful(head[t][k])

\* A new claim exists nowhere but in the hands of the thread that files it
\* until it is saved, so nobody can have decided it before.
FreshUntilSaved ==
  \A t \in Thread : pc[t] = "save" /\ work[t].status \notin Decided =>
    /\ \A id \in ClaimId : store[id] # NoClaim => store[id].facts # work[t].facts
    /\ \A u \in Thread \ {t} : pc[u] # "idle" => work[u].facts # work[t].facts

\* A thread that has saved will find what it saved when it answers.
SavedKept ==
  sequence <= MaxSubmitted =>
    \A t \in Thread : pc[t] \in {"chain", "record"} => Kept(work[t].facts)

IInv ==
  /\ FiledSound
  /\ RefsUnique
  /\ StoredAsFiled
  /\ SeedsStay
  /\ ApprovedIsSigned
  /\ PayoutsAuthorised
  /\ WorkSound
  /\ FreshUntilSaved
  /\ HeadsTruthful
  /\ AuditTruthful
=============================================================================
