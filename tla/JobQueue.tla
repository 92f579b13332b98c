----------------------------- MODULE JobQueue -----------------------------
(***************************************************************************)
(* The consuming half of the event pipeline: a BullMQ queue whose job id   *)
(* is the outbox row id (packages/workers/src/publisher.ts), its worker    *)
(* (consumer.ts) and dispatchEvent (handlers/registry.ts).  BullMQ itself  *)
(* is external: a job is stored once per id while it is retained, tried    *)
(* up to `attempts` times, kept when it fails and removed some time after  *)
(* it completes.  A job whose worker died is stalled: it goes back to the  *)
(* queue, and once it has stalled more than maxStalledCount times, which   *)
(* consumer.ts leaves at its default of 1, it fails, whatever tries it has *)
(* left and without its handlers being called again.                       *)
(*                                                                         *)
(* Handler h of an event is its h-th registered handler, 1..Handlers.  A   *)
(* handler is idempotent by contract, so its effect is a flag.             *)
(***************************************************************************)
EXTENDS Naturals

CONSTANTS
  Jobs,             \* job ids: the outbox rows
  Handlers,         \* how many handlers are registered for the event
  MaxTries,         \* defaultJobOptions.attempts
  MaxStalledCount,  \* the worker's maxStalledCount
  MaxHandlerFaults  \* bound: handler failures and worker deaths

VARIABLES
  job,         \* job[j]: where BullMQ has the job
  tries,       \* tries[j]: tries that ended in HandlerFailures
  stalls,      \* stalls[j]: times the worker of the job died under it
  at,          \* at[j]: the handler dispatchEvent is about to call
  failed,      \* failed[j]: handlers that threw in the current (or last) try
  effects,     \* effects[j]: handlers whose effect has happened
  hfaults      \* handler failures and worker deaths so far

vars == <<job, tries, stalls, at, failed, effects, hfaults>>

JobStates == {"none", "waiting", "active", "completed", "failed"}

TypeOK ==
  /\ job \in [Jobs -> JobStates]
  /\ tries \in [Jobs -> 0..MaxTries]
  /\ stalls \in [Jobs -> 0..MaxStalledCount + 1]
  /\ at \in [Jobs -> 1..Handlers + 1]
  /\ failed \in [Jobs -> SUBSET (1..Handlers)]
  /\ effects \in [Jobs -> SUBSET (1..Handlers)]
  /\ hfaults \in 0..MaxHandlerFaults

Init ==
  /\ job = [j \in Jobs |-> "none"]
  /\ tries = [j \in Jobs |-> 0]
  /\ stalls = [j \in Jobs |-> 0]
  /\ at = [j \in Jobs |-> 1]
  /\ failed = [j \in Jobs |-> {}]
  /\ effects = [j \in Jobs |-> {}]
  /\ hfaults = 0

\* Seeded faults: wrong versions of the actions below.

\* The job fails only if every handler threw.
SettleIfAny(j) ==
  /\ job[j] = "active" /\ at[j] > Handlers
  /\ IF failed[j] # 1..Handlers
     THEN job' = [job EXCEPT ![j] = "completed"] /\ UNCHANGED tries
     ELSE /\ tries' = [tries EXCEPT ![j] = @ + 1]
          /\ job' = [job EXCEPT ![j] =
               IF tries[j] + 1 >= MaxTries THEN "failed" ELSE "waiting"]
  /\ UNCHANGED <<stalls, at, failed, effects, hfaults>>

\* The job is acknowledged when it is taken: a death loses it.
DeathLosesJob(j) ==
  /\ job[j] = "active"
  /\ hfaults < MaxHandlerFaults
  /\ hfaults' = hfaults + 1
  /\ job' = [job EXCEPT ![j] = "none"]
  /\ UNCHANGED <<tries, stalls, at, failed, effects>>

\* removeOnFail as well as removeOnComplete.
EvictFailed(j) ==
  /\ job[j] \in {"completed", "failed"}
  /\ job' = [job EXCEPT ![j] = "none"]
  /\ UNCHANGED <<tries, stalls, at, failed, effects, hfaults>>

\* queue.add with a jobId: a second copy is dropped while the first is kept.
Add(j) ==
  IF job[j] = "none"
  THEN /\ job' = [job EXCEPT ![j] = "waiting"]
       /\ tries' = [tries EXCEPT ![j] = 0]
       /\ stalls' = [stalls EXCEPT ![j] = 0]
       /\ UNCHANGED <<at, failed, effects, hfaults>>
  ELSE UNCHANGED vars

Take(j) ==
  /\ job[j] = "waiting"
  /\ job' = [job EXCEPT ![j] = "active"]
  /\ at' = [at EXCEPT ![j] = 1]
  /\ failed' = [failed EXCEPT ![j] = {}]
  /\ UNCHANGED <<tries, stalls, effects, hfaults>>

Running(j) == job[j] = "active" /\ at[j] <= Handlers

HandlerReturns(j) ==
  /\ Running(j)
  /\ effects' = [effects EXCEPT ![j] = @ \union {at[j]}]
  /\ at' = [at EXCEPT ![j] = @ + 1]
  /\ UNCHANGED <<job, tries, stalls, failed, hfaults>>

\* A handler that throws may have had its effect before it did; the ones
\* registered after it run all the same.
HandlerThrows(j) ==
  /\ Running(j)
  /\ hfaults < MaxHandlerFaults
  /\ hfaults' = hfaults + 1
  /\ \E happened \in {{}, {at[j]}} :
       effects' = [effects EXCEPT ![j] = @ \union happened]
  /\ failed' = [failed EXCEPT ![j] = @ \union {at[j]}]
  /\ at' = [at EXCEPT ![j] = @ + 1]
  /\ UNCHANGED <<job, tries, stalls>>

\* dispatchEvent returns or throws HandlerFailures.
Settle(j) ==
  /\ job[j] = "active" /\ at[j] > Handlers
  /\ IF failed[j] = {}
     THEN /\ job' = [job EXCEPT ![j] = "completed"]
          /\ UNCHANGED tries
     ELSE /\ tries' = [tries EXCEPT ![j] = @ + 1]
          /\ job' = [job EXCEPT ![j] =
               IF tries[j] + 1 >= MaxTries THEN "failed" ELSE "waiting"]
  /\ UNCHANGED <<stalls, at, failed, effects, hfaults>>

\* The lock of the job expires, and the stalled check finds it.
WorkerDies(j) ==
  /\ job[j] = "active"
  /\ hfaults < MaxHandlerFaults
  /\ hfaults' = hfaults + 1
  /\ stalls' = [stalls EXCEPT ![j] = @ + 1]
  /\ job' = [job EXCEPT ![j] =
       IF stalls[j] + 1 > MaxStalledCount THEN "failed" ELSE "waiting"]
  /\ UNCHANGED <<tries, at, failed, effects>>

\* removeOnComplete; removeOnFail is false.
Evict(j) ==
  /\ job[j] = "completed"
  /\ job' = [job EXCEPT ![j] = "none"]
  /\ UNCHANGED <<tries, stalls, at, failed, effects, hfaults>>

Work(j) == Take(j) \/ HandlerReturns(j) \/ Settle(j)

Step == \E j \in Jobs : Work(j) \/ HandlerThrows(j) \/ WorkerDies(j) \/ Evict(j)
============================================================================
