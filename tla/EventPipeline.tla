--------------------------- MODULE EventPipeline ---------------------------
(***************************************************************************)
(* The whole road of an event: the outbox and its relays (Outbox), the     *)
(* queue and its handlers (JobQueue), joined at the publish, where the     *)
(* relay's call is the queue's add.                                        *)
(***************************************************************************)
EXTENDS Outbox

CONSTANTS Handlers, MaxTries, MaxStalledCount, MaxHandlerFaults   \* see JobQueue

ASSUME PipelineAssumption ==
  /\ Handlers \in Nat \ {0}
  /\ MaxTries \in Nat \ {0}
  /\ MaxStalledCount \in Nat
  /\ MaxHandlerFaults \in Nat

VARIABLES job, tries, stalls, at, failed, effects, hfaults

Queue == INSTANCE JobQueue WITH Jobs <- Events

queueVars == <<job, tries, stalls, at, failed, effects, hfaults>>
allVars == <<vars, queueVars>>

PipelineTypeOK == TypeOK /\ Queue!TypeOK

PipelineInit == Init /\ Queue!Init

Publish(r, e) == PublishOk(r, e) /\ Queue!Add(e)

\* A step of a relay that is not a publish.
Sweep(r) ==
  /\ \/ Reclaim(r) \/ Select(r) \/ Claim(r) \/ Reread(r)
     \/ \E e \in Events : Mark(r, e) \/ RecordFailure(r, e)
  /\ UNCHANGED queueVars

Tend ==
  /\ \/ \E e \in Events : \/ WriteOutboxEvent(e) \/ RequeueOutboxEvent(e)
                          \/ Age(e) \/ AgeUnderSlowSweep(e)
     \/ \E r \in Relays : Fault(r)
     \/ RequeueStaleFailedOutboxEvents
  /\ UNCHANGED queueVars

Consume(e) == Queue!Work(e) /\ UNCHANGED vars

PipelineNext ==
  \/ \E r \in Relays : Sweep(r) \/ \E e \in Events : Publish(r, e)
  \/ Tend
  \/ Queue!Step /\ UNCHANGED vars

PipelineSpec == PipelineInit /\ [][PipelineNext]_allVars

\* As in Outbox, and the queue's workers keep working.
PipelineFairness ==
  /\ \A r \in Relays :
       WF_allVars(Sweep(r) \/ \E e \in Events : Publish(r, e))
  /\ \A e \in Events : WF_allVars(Age(e) /\ UNCHANGED queueVars)
  /\ WF_allVars(RequeueStaleFailedOutboxEvents /\ UNCHANGED queueVars)
  /\ \A e \in Events : WF_allVars(Consume(e))

FairPipelineSpec == PipelineSpec /\ PipelineFairness

----------------------------------------------------------------------------
(* Properties                                                              *)

\* A job leaves the queue as completed only when every handler of its event
\* has had its effect (registry.ts: a failed email must not lose the
\* projection, and a failed projection must not pass for success), also for
\* a job that was retried, stalled, or published again after its eviction.
CompletedMeansHandled ==
  \A e \in Events : job[e] = "completed" => effects[e] = 1..Handlers

\* A job is given up because its tries are used up, or because its worker died
\* under it more than maxStalledCount times (consumer.ts sets none: once).
UsedUp(e) == job[e] = "failed" /\ tries[e] = MaxTries
StalledOut(e) == job[e] = "failed" /\ stalls[e] > MaxStalledCount

\* In a job given up by its tries, each handler either had its effect or was
\* itself called and threw in the last try: one throwing handler never costs
\* another its turn.  A job given up for its stalls promises no handler a turn.
HandlersAreIsolated ==
  \A e \in Events :
    job[e] = "failed" /\ ~StalledOut(e)
      => UsedUp(e) /\ effects[e] \union failed[e] = 1..Handlers

\* No handler acts on a fact whose transaction has not committed, and a row
\* marked published has a job or all its effects: between the two stores
\* nothing is lost.
NothingLostBetweenStores ==
  /\ \A e \in Events : effects[e] # {} => state[e] # "absent"
  /\ \A e \in In("published") : job[e] # "none" \/ effects[e] = 1..Handlers

\* Every committed event ends with all its effects, or with a job that used up
\* its tries, or with a job whose worker died under it once more than it may.
\* (Where no row is one the registry rejects: Poison = {}.)
EveryFactTakesEffect ==
  \A e \in Events :
    state[e] # "absent" ~> effects[e] = 1..Handlers \/ UsedUp(e) \/ StalledOut(e)
============================================================================
