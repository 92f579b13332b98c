------------------------------ MODULE Outbox ------------------------------
(***************************************************************************)
(* The transactional outbox of one tenant and the relays that drain it:    *)
(* writeOutboxEvent (packages/db/src/outbox.ts), relayTenant               *)
(* (packages/workers/src/relay.ts) and the requeue of failed rows          *)
(* (packages/services/reconciliation/src/outbox-exceptions.ts).            *)
(*                                                                         *)
(* Every database statement and every publish of a sweep is a step of its  *)
(* own, so two worker processes interleave between any two of them.  An    *)
(* event is a number: its place in occurredAt order, which is not the      *)
(* order in which rows are committed.                                      *)
(***************************************************************************)
EXTENDS Naturals, FiniteSets

CONSTANTS
  Events,        \* events a producer may record, one per dedupe key
  Poison,        \* rows the registry of the running build rejects
  Relays,        \* worker processes, each running one relay loop
  BatchSize,     \* OUTBOX_BATCH_SIZE
  MaxAttempts,   \* OUTBOX_MAX_ATTEMPTS
  MaxFaults,     \* bound: failed calls, crashes and slow sweeps
  MaxRequeues    \* bound: requeues of failed rows

ASSUME OutboxAssumption ==
  /\ Events \subseteq Nat
  /\ Poison \subseteq Events
  /\ BatchSize \in Nat \ {0}
  /\ MaxAttempts \in Nat \ {0}
  /\ MaxFaults \in Nat
  /\ MaxRequeues \in Nat

VARIABLES
  state,       \* state[e]: OutboxEvent.state, "absent" before the row exists
  attempts,    \* attempts[e]: OutboxEvent.attempts
  aged,        \* rows whose updatedAt is past the reclaim or cooldown limit
  relay,       \* relay[r]: what the sweep of process r holds in memory
  enqueued,    \* events a queue has accepted at least once
  failures,    \* failures[e]: tries of e that have failed (history)
  faults,      \* faults so far
  requeues     \* requeues so far

vars == <<state, attempts, aged, relay, enqueued, failures, faults, requeues>>

States == {"absent", "pending", "publishing", "published", "failed"}
Steps  == {"idle", "select", "claim", "reread", "publish", "mark", "record"}

\* ids: the candidates selected; todo: the rows re-read and not yet settled;
\* seen[e]: the attempts of row e when it was re-read.
RelayState == [pc : Steps, ids : SUBSET Events, todo : SUBSET Events,
               seen : [Events -> Nat]]

Idle == [pc |-> "idle", ids |-> {}, todo |-> {}, seen |-> [e \in Events |-> 0]]

TypeOK ==
  /\ state \in [Events -> States]
  /\ attempts \in [Events -> Nat]
  /\ aged \in SUBSET Events
  /\ relay \in [Relays -> RelayState]
  /\ enqueued \in SUBSET Events
  /\ failures \in [Events -> Nat]
  /\ faults \in Nat
  /\ requeues \in Nat

Init ==
  /\ state = [e \in Events |-> "absent"]
  /\ attempts = [e \in Events |-> 0]
  /\ aged = {}
  /\ relay = [r \in Relays |-> Idle]
  /\ enqueued = {}
  /\ failures = [e \in Events |-> 0]
  /\ faults = 0
  /\ requeues = 0

----------------------------------------------------------------------------
(* Helpers                                                                 *)

In(s) == {e \in Events : state[e] = s}

\* orderBy occurredAt asc, take BatchSize
Oldest(S) == {e \in S : Cardinality({x \in S : x < e}) < BatchSize}

\* the row the for-loop of the sweep is at
AtRow(r, e) == e \in relay[r].todo /\ \A x \in relay[r].todo : e <= x

\* a claimed row that some sweep has among its candidates or its rows
Held(e) ==
  /\ state[e] = "publishing"
  /\ \E r \in Relays : e \in relay[r].ids \union relay[r].todo

\* one UPDATE over the rows of S: their state, and updatedAt = now
SetState(S, s) ==
  /\ state' = [e \in Events |-> IF e \in S THEN s ELSE state[e]]
  /\ aged' = aged \ S

Goto(r, step) == relay' = [relay EXCEPT ![r].pc = step]

\* the loop leaves row e: on to the next row, or to the end of the sweep
Leave(r, e) ==
  relay' = [relay EXCEPT ![r] =
    IF @.todo = {e} THEN Idle
    ELSE [@ EXCEPT !.pc = "publish", !.todo = relay[r].todo \ {e},
                   !.seen[e] = 0]]

----------------------------------------------------------------------------
(* Seeded faults: wrong versions of the actions below, each of which one   *)
(* of the properties must catch.                                           *)

\* The row is written by an upsert that starts it over.
WriteAndReset(e) ==
  /\ state' = [state EXCEPT ![e] = "pending"]
  /\ UNCHANGED <<attempts, aged, relay, enqueued, failures, faults, requeues>>

\* The producer enqueues the job itself, besides writing the row.
WriteAndEnqueue(e) ==
  /\ state' = [state EXCEPT ![e] = IF @ = "absent" THEN "pending" ELSE @]
  /\ enqueued' = enqueued \union {e}
  /\ UNCHANGED <<attempts, aged, relay, failures, faults, requeues>>

\* Nothing takes back what a dead relay claimed.
ReclaimNothing(r) ==
  /\ relay[r].pc = "idle"
  /\ Goto(r, "select")
  /\ UNCHANGED <<state, attempts, aged, enqueued, failures, faults, requeues>>

\* A sweep that lost any of its candidates to another ends: claim.count is
\* compared with ids.length, and not with 0.
ClaimAllOrNothing(r) ==
  LET claimed == relay[r].ids \intersect In("pending") IN
  /\ relay[r].pc = "claim"
  /\ SetState(claimed, "publishing")
  /\ relay' = [relay EXCEPT ![r] =
       IF claimed # relay[r].ids THEN Idle ELSE [@ EXCEPT !.pc = "reread"]]
  /\ UNCHANGED <<attempts, enqueued, failures, faults, requeues>>

\* A failed publish is logged, and the row marked as if it had succeeded.
PublishFailsSilently(r, e) ==
  /\ relay[r].pc = "publish"
  /\ AtRow(r, e)
  /\ faults < MaxFaults
  /\ faults' = faults + 1
  /\ Goto(r, "mark")
  /\ UNCHANGED <<state, attempts, aged, enqueued, failures, requeues>>

\* One try too few.
RecordFailureEarly(r, e) ==
  LET tries == relay[r].seen[e] + 1 IN
  /\ relay[r].pc = "record"
  /\ AtRow(r, e)
  /\ SetState({e}, IF tries + 1 >= MaxAttempts THEN "failed" ELSE "pending")
  /\ attempts' = [attempts EXCEPT ![e] = tries]
  /\ Leave(r, e)
  /\ UNCHANGED <<enqueued, failures, faults, requeues>>

----------------------------------------------------------------------------
(* The producer and the clock                                              *)

\* createMany with skipDuplicates, in the transaction of the fact: a key
\* that is already there is a no-op.
WriteOutboxEvent(e) ==
  /\ state' = [state EXCEPT ![e] = IF @ = "absent" THEN "pending" ELSE @]
  /\ UNCHANGED <<attempts, aged, relay, enqueued, failures, faults, requeues>>

\* updatedAt of an untouched row falls behind now() - reclaimAfterMs (for a
\* claimed row) or now() - cooldownMs (for a failed one).  A sweep that still
\* has the row after reclaimAfterMs is slow, which counts as a fault.
Age(e) ==
  /\ state[e] \in {"publishing", "failed"}
  /\ e \notin aged
  /\ ~Held(e)
  /\ aged' = aged \union {e}
  /\ UNCHANGED <<state, attempts, relay, enqueued, failures, faults, requeues>>

AgeUnderSlowSweep(e) ==
  /\ Held(e)
  /\ e \notin aged
  /\ faults < MaxFaults
  /\ faults' = faults + 1
  /\ aged' = aged \union {e}
  /\ UNCHANGED <<state, attempts, relay, enqueued, failures, requeues>>

----------------------------------------------------------------------------
(* One sweep: relayTenant                                                  *)

Reclaim(r) ==
  /\ relay[r].pc = "idle"
  /\ SetState(In("publishing") \intersect aged, "pending")
  /\ Goto(r, "select")
  /\ UNCHANGED <<attempts, enqueued, failures, faults, requeues>>

Select(r) ==
  /\ relay[r].pc = "select"
  /\ relay' = [relay EXCEPT ![r] =
       IF In("pending") = {} THEN Idle
       ELSE [@ EXCEPT !.pc = "claim", !.ids = Oldest(In("pending"))]]
  /\ UNCHANGED <<state, attempts, aged, enqueued, failures, faults, requeues>>

\* updateMany guarded by state = pending; a claim that updates no row ends
\* the sweep.
Claim(r) ==
  LET claimed == relay[r].ids \intersect In("pending") IN
  /\ relay[r].pc = "claim"
  /\ SetState(claimed, "publishing")
  /\ relay' = [relay EXCEPT ![r] =
       IF claimed = {} THEN Idle ELSE [@ EXCEPT !.pc = "reread"]]
  /\ UNCHANGED <<attempts, enqueued, failures, faults, requeues>>

\* The rows are read back by id and state, not by who claimed them.
Reread(r) ==
  LET rows == relay[r].ids \intersect In("publishing") IN
  /\ relay[r].pc = "reread"
  /\ relay' = [relay EXCEPT ![r] =
       IF rows = {} THEN Idle
       ELSE [pc |-> "publish", ids |-> {}, todo |-> rows,
             seen |-> [e \in Events |-> IF e \in rows THEN attempts[e] ELSE 0]]]
  /\ UNCHANGED <<state, attempts, aged, enqueued, failures, faults, requeues>>

PublishOk(r, e) ==
  /\ relay[r].pc = "publish"
  /\ AtRow(r, e)
  /\ e \notin Poison
  /\ enqueued' = enqueued \union {e}
  /\ Goto(r, "mark")
  /\ UNCHANGED <<state, attempts, aged, failures, faults, requeues>>

\* The event is unknown, its payload does not parse, or the queue refuses it.
PublishFails(r, e) ==
  /\ relay[r].pc = "publish"
  /\ AtRow(r, e)
  /\ \/ e \in Poison /\ UNCHANGED faults
     \/ e \notin Poison /\ faults < MaxFaults /\ faults' = faults + 1
  /\ failures' = [failures EXCEPT ![e] = @ + 1]
  /\ Goto(r, "record")
  /\ UNCHANGED <<state, attempts, aged, enqueued, requeues>>

\* An unconditional update by id.
Mark(r, e) ==
  /\ relay[r].pc = "mark"
  /\ AtRow(r, e)
  /\ SetState({e}, "published")
  /\ Leave(r, e)
  /\ UNCHANGED <<attempts, enqueued, failures, faults, requeues>>

\* The update to published is inside the try: when it throws, the catch
\* counts a failed attempt of an event the queue already has.
MarkFails(r, e) ==
  /\ relay[r].pc = "mark"
  /\ AtRow(r, e)
  /\ faults < MaxFaults
  /\ faults' = faults + 1
  /\ failures' = [failures EXCEPT ![e] = @ + 1]
  /\ Goto(r, "record")
  /\ UNCHANGED <<state, attempts, aged, enqueued, requeues>>

\* attempts is computed from the row as it was re-read, and written by id.
RecordFailure(r, e) ==
  LET tries == relay[r].seen[e] + 1 IN
  /\ relay[r].pc = "record"
  /\ AtRow(r, e)
  /\ SetState({e}, IF tries >= MaxAttempts THEN "failed" ELSE "pending")
  /\ attempts' = [attempts EXCEPT ![e] = tries]
  /\ Leave(r, e)
  /\ UNCHANGED <<enqueued, failures, faults, requeues>>

\* The process dies, or a statement outside the try throws out of the sweep:
\* what it held in memory is gone, its rows stay as they are.
Abort(r) ==
  /\ relay[r].pc # "idle"
  /\ faults < MaxFaults
  /\ faults' = faults + 1
  /\ relay' = [relay EXCEPT ![r] = Idle]
  /\ UNCHANGED <<state, attempts, aged, enqueued, failures, requeues>>

----------------------------------------------------------------------------
(* The exception tray and the nightly sweep                                *)

\* attempts is not reset: the row gets one more try.
RequeueOutboxEvent(e) ==
  /\ state[e] = "failed"
  /\ requeues < MaxRequeues
  /\ requeues' = requeues + 1
  /\ SetState({e}, "pending")
  /\ UNCHANGED <<attempts, relay, enqueued, failures, faults>>

RequeueStaleFailedOutboxEvents ==
  LET rows == In("failed") \intersect aged IN
  /\ rows # {}
  /\ requeues < MaxRequeues
  /\ requeues' = requeues + 1
  /\ SetState(rows, "pending")
  /\ UNCHANGED <<attempts, relay, enqueued, failures, faults>>

----------------------------------------------------------------------------

RelayStep(r) ==
  \/ Reclaim(r) \/ Select(r) \/ Claim(r) \/ Reread(r)
  \/ \E e \in Events : PublishOk(r, e) \/ Mark(r, e) \/ RecordFailure(r, e)
  \/ \E e \in Poison : PublishFails(r, e)

Fault(r) ==
  \/ \E e \in Events : PublishFails(r, e) \/ MarkFails(r, e)
  \/ Abort(r)

Next ==
  \/ \E e \in Events : \/ WriteOutboxEvent(e) \/ RequeueOutboxEvent(e)
                       \/ Age(e) \/ AgeUnderSlowSweep(e)
  \/ \E r \in Relays : RelayStep(r) \/ Fault(r)
  \/ RequeueStaleFailedOutboxEvents

Spec == Init /\ [][Next]_vars

\* The interval keeps every loop ticking and a sweep is never suspended for
\* ever; the clock advances; the nightly sweep runs.
Fairness ==
  /\ \A r \in Relays : WF_vars(RelayStep(r))
  /\ \A e \in Events : WF_vars(Age(e))
  /\ WF_vars(RequeueStaleFailedOutboxEvents)

FairSpec == Spec /\ Fairness

----------------------------------------------------------------------------
(* Properties                                                              *)

\* A row is marked published only for an event the queue really has: the
\* publish comes before the mark and a crash between them errs on the side
\* of publishing again (relay.ts, at-least-once).
PublishedWasEnqueued == In("published") \subseteq enqueued

\* A row is parked in `failed` only after OUTBOX_MAX_ATTEMPTS tries of it
\* have really failed, whatever stale copies of `attempts` the racing sweeps
\* wrote back.
ParkedAfterMaxAttempts ==
  \A e \in In("failed") : failures[e] >= MaxAttempts

\* Until a call fails, a process dies or a sweep is slow, every claimed row is
\* in the hands of a sweep that will settle it: no interleaving of the select,
\* claim and re-read of two relays strands a row in `publishing`.
ClaimedRowHasHolder ==
  faults = 0 => \A e \in In("publishing") : Held(e)

\* A published row stays published (one relay process).
PublishedIsFinal ==
  [][\A e \in Events : state[e] = "published" => state'[e] = "published"]_vars

\* "The loser updates zero rows and re-reads nothing it owns" (relay.ts:78):
\* of two relays that race for a batch, only one gets to publish a row.
\* This does not hold (README, "What the code does not promise").
ClaimIsExclusive ==
  \A r1, r2 \in Relays :
    r1 # r2 => relay[r1].todo \intersect relay[r2].todo = {}

\* The outbox delivers what it promises.
Delivery == INSTANCE EventDelivery
  WITH Deliverable <- Events \ Poison,
       committed <- Events \ In("absent"),
       delivered <- enqueued

\* Only committed events reach a queue, and none is taken back.
DeliversOnlyCommitted == Delivery!Safety

\* Every event recorded with its fact reaches its queue, through failed
\* publishes, crashed relays and rows parked in `failed`.
EveryEventDelivered == Delivery!Spec

----------------------------------------------------------------------------
(* The inductive invariant behind the safety properties                    *)

\* Between its publish and its mark, the row a relay is at has been published.
MarkFollowsPublish ==
  \A r \in Relays, e \in Events :
    relay[r].pc = "mark" /\ AtRow(r, e) => e \in enqueued

\* No copy of `attempts`, stored or remembered, runs ahead of what happened.
AttemptsAreReal ==
  /\ \A e \in Events : attempts[e] <= failures[e]
  /\ \A r \in Relays, e \in Events :
       e \in relay[r].todo =>
         /\ relay[r].seen[e] <= failures[e]
         /\ relay[r].pc = "record" /\ AtRow(r, e)
              => relay[r].seen[e] + 1 <= failures[e]

\* A relay that has claimed a row and not yet settled it.
Owns(r, e) ==
  \/ relay[r].pc = "reread" /\ e \in relay[r].ids
  \/ e \in relay[r].todo

ClaimedRowHasOwner ==
  faults = 0 => \A e \in In("publishing") : \E r \in Relays : Owns(r, e)

\* What a relay remembers, by where it is in its sweep.
RelayMemory ==
  \A r \in Relays :
    /\ relay[r].pc \in {"claim", "reread"} \/ relay[r].ids = {}
    /\ relay[r].pc \in {"publish", "mark", "record"} \/ relay[r].todo = {}
    /\ (relay[r].ids \union relay[r].todo) \intersect In("absent") = {}

\* The inductive strengthening of the safety properties of the outbox.
OutboxInv ==
  /\ PublishedWasEnqueued
  /\ MarkFollowsPublish
  /\ ParkedAfterMaxAttempts
  /\ AttemptsAreReal
  /\ ClaimedRowHasOwner
  /\ RelayMemory
  /\ enqueued \intersect In("absent") = {}
============================================================================
