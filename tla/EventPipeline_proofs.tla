------------------------ MODULE EventPipeline_proofs ------------------------
(***************************************************************************)
(* Proofs about the event pipeline, for any events, relays, handlers, any  *)
(* batch size, any limits of attempts and tries and any number of faults:  *)
(* first about the outbox by itself, then about the outbox with its queue, *)
(* whose every step is a step of the outbox or leaves it alone.            *)
(***************************************************************************)
EXTENDS EventPipeline, TLAPS

----------------------------------------------------------------------------
(* Type correctness                                                        *)

\* A relay between two sweeps is a relay.
LEMMA IdleType == Idle \in RelayState
  BY DEF Idle, RelayState, Steps

\* Going on to the next step of a sweep keeps the type of a relay's memory.
LEMMA GotoType ==
  ASSUME TypeOK, NEW r \in Relays, NEW step \in Steps, Goto(r, step)
  PROVE  relay' \in [Relays -> RelayState]
<1>1. relay[r] \in RelayState
  BY DEF TypeOK
<1>2. [relay[r] EXCEPT !.pc = step] \in RelayState
  BY <1>1 DEF RelayState
<1>3. QED
  BY <1>2 DEF Goto, TypeOK

\* So does leaving a row, whether it was the last of the sweep or not.
LEMMA LeaveType ==
  ASSUME TypeOK, NEW r \in Relays, NEW e \in Events, Leave(r, e)
  PROVE  relay' \in [Relays -> RelayState]
<1>1. relay[r] \in RelayState
  BY DEF TypeOK
<1> DEFINE next == [relay[r] EXCEPT !.pc = "publish", !.todo = relay[r].todo \ {e},
                                  !.seen[e] = 0]
<1>2. next \in RelayState
  BY <1>1 DEF RelayState, Steps
<1>3. relay' = [relay EXCEPT ![r] = IF relay[r].todo = {e} THEN Idle ELSE next]
  BY DEF Leave
<1> HIDE DEF next
<1>4. QED
  BY <1>2, <1>3, IdleType DEF TypeOK

\* A batch consists of rows.
LEMMA OldestType == ASSUME NEW S \in SUBSET Events PROVE Oldest(S) \in SUBSET Events
  BY DEF Oldest

\* Every variable of the outbox keeps its type.
THEOREM TypeCorrect == Spec => []TypeOK
<1>1. Init => TypeOK
  BY DEF Init, TypeOK, Idle, RelayState, Steps, States
<1>2. TypeOK /\ [Next]_vars => TypeOK'
  <2> SUFFICES ASSUME TypeOK, [Next]_vars PROVE TypeOK'
    OBVIOUS
  <2> USE DEF TypeOK
  <2>1. ASSUME NEW e \in Events, WriteOutboxEvent(e) PROVE TypeOK'
    BY <2>1 DEF WriteOutboxEvent, States
  <2>2. ASSUME NEW e \in Events, RequeueOutboxEvent(e) PROVE TypeOK'
    BY <2>2 DEF RequeueOutboxEvent, SetState, States
  <2>3. ASSUME NEW e \in Events, Age(e) PROVE TypeOK'
    BY <2>3 DEF Age
  <2>4. ASSUME NEW e \in Events, AgeUnderSlowSweep(e) PROVE TypeOK'
    BY <2>4 DEF AgeUnderSlowSweep
  <2>5. ASSUME RequeueStaleFailedOutboxEvents PROVE TypeOK'
    BY <2>5 DEF RequeueStaleFailedOutboxEvents, SetState, States
  <2>6. ASSUME NEW r \in Relays, Reclaim(r) PROVE TypeOK'
    BY <2>6, ZenonT(40) DEF Reclaim, SetState, Goto, States, Steps, RelayState
  <2>7. ASSUME NEW r \in Relays, Select(r) PROVE TypeOK'
    <3>1. In("pending") \in SUBSET Events
      BY DEF In
    <3>2. relay[r] \in RelayState
      OBVIOUS
    <3>3. [relay[r] EXCEPT !.pc = "claim", !.ids = Oldest(In("pending"))] \in RelayState
      BY <3>1, <3>2, OldestType DEF RelayState, Steps
    <3>4. relay' \in [Relays -> RelayState]
      BY <2>7, <3>3, IdleType DEF Select
    <3>5. QED
      BY <2>7, <3>4 DEF Select
  <2>8. ASSUME NEW r \in Relays, Claim(r) PROVE TypeOK'
    BY <2>8, SMTT(30) DEF Claim, SetState, Idle, States, Steps, RelayState
  <2>9. ASSUME NEW r \in Relays, Reread(r) PROVE TypeOK'
    BY <2>9 DEF Reread, In, Idle, Steps, RelayState
  <2>10. ASSUME NEW r \in Relays, NEW e \in Events, PublishOk(r, e) PROVE TypeOK'
    BY <2>10, ZenonT(40) DEF PublishOk, Goto, Steps, RelayState
  <2>11. ASSUME NEW r \in Relays, NEW e \in Events, PublishFails(r, e) PROVE TypeOK'
    <3>1. relay' \in [Relays -> RelayState]
      BY <2>11, GotoType DEF PublishFails, Steps
    <3>2. QED
      BY <2>11, <3>1 DEF PublishFails
  <2>12. ASSUME NEW r \in Relays, NEW e \in Events, Mark(r, e) PROVE TypeOK'
    <3>1. relay' \in [Relays -> RelayState]
      BY <2>12, LeaveType DEF Mark
    <3>2. QED
      BY <2>12, <3>1 DEF Mark, SetState, States
  <2>13. ASSUME NEW r \in Relays, NEW e \in Events, MarkFails(r, e) PROVE TypeOK'
    <3>1. relay' \in [Relays -> RelayState]
      BY <2>13, GotoType DEF MarkFails, Steps
    <3>2. QED
      BY <2>13, <3>1 DEF MarkFails
  <2>14. ASSUME NEW r \in Relays, NEW e \in Events, RecordFailure(r, e) PROVE TypeOK'
    <3>1. relay' \in [Relays -> RelayState]
      BY <2>14, LeaveType DEF RecordFailure
    <3>2. relay[r].seen[e] + 1 \in Nat
      BY DEF RelayState
    <3>3. QED
      BY <2>14, <3>1, <3>2 DEF RecordFailure, SetState, States
  <2>15. ASSUME NEW r \in Relays, Abort(r) PROVE TypeOK'
    BY <2>15 DEF Abort, Idle, Steps, RelayState
  <2>16. CASE UNCHANGED vars
    BY <2>16 DEF vars
  <2>17. QED
    BY <2>1, <2>2, <2>3, <2>4, <2>5, <2>6, <2>7, <2>8, <2>9, <2>10, <2>11, <2>12,
       <2>13, <2>14, <2>15, <2>16, OutboxAssumption DEF Next, RelayStep, Fault
<1>3. QED
  BY <1>1, <1>2, PTL DEF Spec

----------------------------------------------------------------------------
(* Helpers of the sweep                                                    *)

\* The loop of a sweep is at one row at a time.
LEMMA AtRowUnique ==
  ASSUME NEW r, NEW e \in Events, NEW x \in Events, AtRow(r, e), AtRow(r, x)
  PROVE  x = e
  BY OutboxAssumption DEF AtRow

\* A failed try only adds to the failures, and it does add one.
LEMMA FailureCounted ==
  ASSUME TypeOK, NEW e \in Events, failures' = [failures EXCEPT ![e] = @ + 1]
  PROVE  /\ failures'[e] = failures[e] + 1
         /\ \A x \in Events : failures[x] \in Nat /\ failures[x] <= failures'[x]
  BY DEF TypeOK

----------------------------------------------------------------------------
(* Each part of OutboxInv is preserved by every step.                      *)

\* What a relay holds in memory fits where it is in its sweep.
LEMMA MemoryStep == TypeOK /\ OutboxInv /\ [Next]_vars => RelayMemory'
<1> SUFFICES ASSUME TypeOK, OutboxInv, [Next]_vars PROVE RelayMemory'
  OBVIOUS
<1> USE DEF TypeOK, OutboxInv, RelayMemory
<1>1. QED
  <2>1. ASSUME NEW e \in Events, WriteOutboxEvent(e) PROVE RelayMemory'
    BY <2>1 DEF WriteOutboxEvent, RelayState, In
  <2>2. ASSUME NEW e \in Events, RequeueOutboxEvent(e) PROVE RelayMemory'
    BY <2>2 DEF RequeueOutboxEvent, SetState, RelayState, In
  <2>3. ASSUME NEW e \in Events, Age(e) PROVE RelayMemory'
    BY <2>3 DEF Age, RelayState, In
  <2>4. ASSUME NEW e \in Events, AgeUnderSlowSweep(e) PROVE RelayMemory'
    BY <2>4 DEF AgeUnderSlowSweep, RelayState, In
  <2>5. ASSUME RequeueStaleFailedOutboxEvents PROVE RelayMemory'
    BY <2>5 DEF RequeueStaleFailedOutboxEvents, SetState, RelayState, In
  <2>6. ASSUME NEW r \in Relays, Reclaim(r) PROVE RelayMemory'
    BY <2>6 DEF Reclaim, SetState, Goto, RelayState, In
  <2>7. ASSUME NEW r \in Relays, Select(r) PROVE RelayMemory'
    BY <2>7 DEF Select, Idle, Oldest, RelayState, In
  <2>8. ASSUME NEW r \in Relays, Claim(r) PROVE RelayMemory'
    BY <2>8 DEF Claim, SetState, Idle, RelayState, In
  <2>9. ASSUME NEW r \in Relays, Reread(r) PROVE RelayMemory'
    BY <2>9 DEF Reread, Idle, RelayState, In
  <2>10. ASSUME NEW r \in Relays, NEW e \in Events, PublishOk(r, e) PROVE RelayMemory'
    BY <2>10 DEF PublishOk, Goto, RelayState, In
  <2>11. ASSUME NEW r \in Relays, NEW e \in Events, PublishFails(r, e) PROVE RelayMemory'
    BY <2>11 DEF PublishFails, Goto, RelayState, In
  <2>12. ASSUME NEW r \in Relays, NEW e \in Events, Mark(r, e) PROVE RelayMemory'
    BY <2>12 DEF Mark, SetState, Leave, Idle, RelayState, In
  <2>13. ASSUME NEW r \in Relays, NEW e \in Events, MarkFails(r, e) PROVE RelayMemory'
    BY <2>13 DEF MarkFails, Goto, RelayState, In
  <2>14. ASSUME NEW r \in Relays, NEW e \in Events, RecordFailure(r, e) PROVE RelayMemory'
    BY <2>14 DEF RecordFailure, SetState, Leave, Idle, RelayState, In
  <2>15. ASSUME NEW r \in Relays, Abort(r) PROVE RelayMemory'
    BY <2>15 DEF Abort, Idle, RelayState, In
  <2>16. CASE UNCHANGED vars
    BY <2>16 DEF vars, RelayState, In
  <2>17. QED
    BY <2>1, <2>2, <2>3, <2>4, <2>5, <2>6, <2>7, <2>8, <2>9, <2>10, <2>11, <2>12, <2>13, <2>14, <2>15, <2>16,
       OutboxAssumption DEF Next, RelayStep, Fault

\* The row a relay is about to mark is one that it has published.
LEMMA MarkStep == TypeOK /\ OutboxInv /\ [Next]_vars => MarkFollowsPublish'
<1> SUFFICES ASSUME TypeOK, OutboxInv, [Next]_vars PROVE MarkFollowsPublish'
  OBVIOUS
<1> USE DEF TypeOK, OutboxInv, MarkFollowsPublish
<1>1. QED
  <2>1. ASSUME NEW e \in Events, WriteOutboxEvent(e) PROVE MarkFollowsPublish'
    BY <2>1 DEF WriteOutboxEvent, RelayState, AtRow
  <2>2. ASSUME NEW e \in Events, RequeueOutboxEvent(e) PROVE MarkFollowsPublish'
    BY <2>2 DEF RequeueOutboxEvent, SetState, RelayState, AtRow
  <2>3. ASSUME NEW e \in Events, Age(e) PROVE MarkFollowsPublish'
    BY <2>3 DEF Age, RelayState, AtRow
  <2>4. ASSUME NEW e \in Events, AgeUnderSlowSweep(e) PROVE MarkFollowsPublish'
    BY <2>4 DEF AgeUnderSlowSweep, RelayState, AtRow
  <2>5. ASSUME RequeueStaleFailedOutboxEvents PROVE MarkFollowsPublish'
    BY <2>5 DEF RequeueStaleFailedOutboxEvents, SetState, RelayState, AtRow
  <2>6. ASSUME NEW r \in Relays, Reclaim(r) PROVE MarkFollowsPublish'
    BY <2>6 DEF Reclaim, SetState, Goto, RelayState, AtRow
  <2>7. ASSUME NEW r \in Relays, Select(r) PROVE MarkFollowsPublish'
    BY <2>7 DEF Select, Idle, Oldest, RelayState, AtRow
  <2>8. ASSUME NEW r \in Relays, Claim(r) PROVE MarkFollowsPublish'
    BY <2>8 DEF Claim, SetState, Idle, RelayState, AtRow
  <2>9. ASSUME NEW r \in Relays, Reread(r) PROVE MarkFollowsPublish'
    BY <2>9 DEF Reread, Idle, RelayState, AtRow
  <2>10. ASSUME NEW r \in Relays, NEW e \in Events, PublishOk(r, e) PROVE MarkFollowsPublish'
    <3>1. \A x \in Events : AtRow(r, x) => x = e
      BY <2>10, AtRowUnique DEF PublishOk
    <3>2. e \in enqueued' /\ enqueued \subseteq enqueued'
      BY <2>10 DEF PublishOk
    <3>3. QED
      BY <2>10, <3>1, <3>2 DEF PublishOk, Goto, RelayState, AtRow
  <2>11. ASSUME NEW r \in Relays, NEW e \in Events, PublishFails(r, e) PROVE MarkFollowsPublish'
    BY <2>11 DEF PublishFails, Goto, RelayState, AtRow
  <2>12. ASSUME NEW r \in Relays, NEW e \in Events, Mark(r, e) PROVE MarkFollowsPublish'
    BY <2>12 DEF Mark, SetState, Leave, Idle, RelayState, AtRow
  <2>13. ASSUME NEW r \in Relays, NEW e \in Events, MarkFails(r, e) PROVE MarkFollowsPublish'
    BY <2>13 DEF MarkFails, Goto, RelayState, AtRow
  <2>14. ASSUME NEW r \in Relays, NEW e \in Events, RecordFailure(r, e) PROVE MarkFollowsPublish'
    BY <2>14 DEF RecordFailure, SetState, Leave, Idle, RelayState, AtRow
  <2>15. ASSUME NEW r \in Relays, Abort(r) PROVE MarkFollowsPublish'
    BY <2>15 DEF Abort, Idle, RelayState, AtRow
  <2>16. CASE UNCHANGED vars
    BY <2>16 DEF vars, RelayState, AtRow
  <2>17. QED
    BY <2>1, <2>2, <2>3, <2>4, <2>5, <2>6, <2>7, <2>8, <2>9, <2>10, <2>11, <2>12, <2>13, <2>14, <2>15, <2>16,
       OutboxAssumption DEF Next, RelayStep, Fault

\* A row becomes published only once the queue has its event.
LEMMA PublishedStep == TypeOK /\ OutboxInv /\ [Next]_vars => PublishedWasEnqueued'
<1> SUFFICES ASSUME TypeOK, OutboxInv, [Next]_vars PROVE PublishedWasEnqueued'
  OBVIOUS
<1> USE DEF TypeOK, OutboxInv, PublishedWasEnqueued
<1>1. QED
  <2>1. ASSUME NEW e \in Events, WriteOutboxEvent(e) PROVE PublishedWasEnqueued'
    BY <2>1 DEF WriteOutboxEvent, In
  <2>2. ASSUME NEW e \in Events, RequeueOutboxEvent(e) PROVE PublishedWasEnqueued'
    BY <2>2 DEF RequeueOutboxEvent, SetState, In
  <2>3. ASSUME NEW e \in Events, Age(e) PROVE PublishedWasEnqueued'
    BY <2>3 DEF Age, In
  <2>4. ASSUME NEW e \in Events, AgeUnderSlowSweep(e) PROVE PublishedWasEnqueued'
    BY <2>4 DEF AgeUnderSlowSweep, In
  <2>5. ASSUME RequeueStaleFailedOutboxEvents PROVE PublishedWasEnqueued'
    BY <2>5 DEF RequeueStaleFailedOutboxEvents, SetState, In
  <2>6. ASSUME NEW r \in Relays, Reclaim(r) PROVE PublishedWasEnqueued'
    BY <2>6 DEF Reclaim, SetState, Goto, In
  <2>7. ASSUME NEW r \in Relays, Select(r) PROVE PublishedWasEnqueued'
    BY <2>7 DEF Select, Idle, Oldest, In
  <2>8. ASSUME NEW r \in Relays, Claim(r) PROVE PublishedWasEnqueued'
    BY <2>8 DEF Claim, SetState, Idle, In
  <2>9. ASSUME NEW r \in Relays, Reread(r) PROVE PublishedWasEnqueued'
    BY <2>9 DEF Reread, Idle, In
  <2>10. ASSUME NEW r \in Relays, NEW e \in Events, PublishOk(r, e) PROVE PublishedWasEnqueued'
    BY <2>10 DEF PublishOk, Goto, In
  <2>11. ASSUME NEW r \in Relays, NEW e \in Events, PublishFails(r, e) PROVE PublishedWasEnqueued'
    BY <2>11 DEF PublishFails, Goto, In
  <2>12. ASSUME NEW r \in Relays, NEW e \in Events, Mark(r, e) PROVE PublishedWasEnqueued'
    <3>1. e \in enqueued
      BY <2>12 DEF Mark, MarkFollowsPublish
    <3>2. QED
      BY <2>12, <3>1 DEF Mark, SetState, In
  <2>13. ASSUME NEW r \in Relays, NEW e \in Events, MarkFails(r, e) PROVE PublishedWasEnqueued'
    BY <2>13 DEF MarkFails, Goto, In
  <2>14. ASSUME NEW r \in Relays, NEW e \in Events, RecordFailure(r, e) PROVE PublishedWasEnqueued'
    BY <2>14 DEF RecordFailure, SetState, Leave, Idle, In
  <2>15. ASSUME NEW r \in Relays, Abort(r) PROVE PublishedWasEnqueued'
    BY <2>15 DEF Abort, Idle, In
  <2>16. CASE UNCHANGED vars
    BY <2>16 DEF vars, In
  <2>17. QED
    BY <2>1, <2>2, <2>3, <2>4, <2>5, <2>6, <2>7, <2>8, <2>9, <2>10, <2>11, <2>12, <2>13, <2>14, <2>15, <2>16,
       OutboxAssumption DEF Next, RelayStep, Fault

\* No counter of attempts runs ahead of the failures.
LEMMA AttemptsStep == TypeOK /\ OutboxInv /\ [Next]_vars => AttemptsAreReal'
<1> SUFFICES ASSUME TypeOK, OutboxInv, [Next]_vars PROVE AttemptsAreReal'
  OBVIOUS
<1> USE DEF TypeOK, OutboxInv, AttemptsAreReal
<1>1. QED
  <2>1. ASSUME NEW e \in Events, WriteOutboxEvent(e) PROVE AttemptsAreReal'
    BY <2>1 DEF WriteOutboxEvent, RelayState, AtRow
  <2>2. ASSUME NEW e \in Events, RequeueOutboxEvent(e) PROVE AttemptsAreReal'
    BY <2>2 DEF RequeueOutboxEvent, SetState, RelayState, AtRow
  <2>3. ASSUME NEW e \in Events, Age(e) PROVE AttemptsAreReal'
    BY <2>3 DEF Age, RelayState, AtRow
  <2>4. ASSUME NEW e \in Events, AgeUnderSlowSweep(e) PROVE AttemptsAreReal'
    BY <2>4 DEF AgeUnderSlowSweep, RelayState, AtRow
  <2>5. ASSUME RequeueStaleFailedOutboxEvents PROVE AttemptsAreReal'
    BY <2>5 DEF RequeueStaleFailedOutboxEvents, SetState, RelayState, AtRow
  <2>6. ASSUME NEW r \in Relays, Reclaim(r) PROVE AttemptsAreReal'
    BY <2>6 DEF Reclaim, SetState, Goto, RelayState, AtRow
  <2>7. ASSUME NEW r \in Relays, Select(r) PROVE AttemptsAreReal'
    BY <2>7 DEF Select, Idle, Oldest, RelayState, AtRow
  <2>8. ASSUME NEW r \in Relays, Claim(r) PROVE AttemptsAreReal'
    BY <2>8 DEF Claim, SetState, Idle, RelayState, AtRow
  <2>9. ASSUME NEW r \in Relays, Reread(r) PROVE AttemptsAreReal'
    BY <2>9 DEF Reread, Idle, RelayState, AtRow
  <2>10. ASSUME NEW r \in Relays, NEW e \in Events, PublishOk(r, e) PROVE AttemptsAreReal'
    BY <2>10 DEF PublishOk, Goto, RelayState, AtRow
  <2>11. ASSUME NEW r \in Relays, NEW e \in Events, PublishFails(r, e) PROVE AttemptsAreReal'
    <3>1. failures' = [failures EXCEPT ![e] = @ + 1]
      BY <2>11 DEF PublishFails
    <3>2. relay' = [relay EXCEPT ![r].pc = "record"] /\ attempts' = attempts
      BY <2>11 DEF PublishFails, Goto
    <3>3. \A x \in Events : attempts'[x] <= failures'[x]
      BY <3>1, <3>2, FailureCounted
    <3>4. ASSUME NEW q \in Relays, NEW x \in Events, x \in relay'[q].todo
          PROVE  /\ relay'[q].seen[x] <= failures'[x]
                 /\ relay'[q].pc = "record" /\ AtRow(q, x)'
                      => relay'[q].seen[x] + 1 <= failures'[x]
      <4>1. x \in relay[q].todo /\ relay'[q].seen[x] = relay[q].seen[x]
        BY <3>2, <3>4 DEF RelayState
      <4>2. relay[q].seen[x] \in Nat /\ relay[q].seen[x] <= failures[x]
        BY <4>1 DEF RelayState
      <4>3. relay'[q].seen[x] <= failures'[x]
        BY <4>1, <4>2, <3>1, FailureCounted
      <4>4. CASE q = r /\ x = e
        BY <4>1, <4>2, <4>3, <4>4, <3>1, FailureCounted
      <4>5. CASE q = r /\ x # e
        <5>1. ~AtRow(q, x)
          BY <2>11, <4>5, AtRowUnique DEF PublishFails
        <5>2. relay'[q].todo = relay[q].todo
          BY <3>2, <4>5 DEF RelayState
        <5>3. QED
          BY <4>3, <5>1, <5>2 DEF AtRow
      <4>6. CASE q # r
        <5>1. relay'[q] = relay[q]
          BY <3>2, <4>6
        <5>2. relay[q].pc = "record" /\ AtRow(q, x)
                => relay[q].seen[x] + 1 <= failures[x]
          BY <4>1
        <5>3. failures[x] \in Nat /\ failures'[x] \in Nat /\ failures[x] <= failures'[x]
          BY <3>1, FailureCounted
        <5>4. QED
          BY <4>2, <4>3, <5>1, <5>2, <5>3 DEF AtRow
      <4>7. QED
        BY <4>4, <4>5, <4>6
    <3>5. QED
      BY <3>3, <3>4
  <2>12. ASSUME NEW r \in Relays, NEW e \in Events, Mark(r, e) PROVE AttemptsAreReal'
    BY <2>12 DEF Mark, SetState, Leave, Idle, RelayState, AtRow
  <2>13. ASSUME NEW r \in Relays, NEW e \in Events, MarkFails(r, e) PROVE AttemptsAreReal'
    <3>1. failures' = [failures EXCEPT ![e] = @ + 1]
      BY <2>13 DEF MarkFails
    <3>2. relay' = [relay EXCEPT ![r].pc = "record"] /\ attempts' = attempts
      BY <2>13 DEF MarkFails, Goto
    <3>3. \A x \in Events : attempts'[x] <= failures'[x]
      BY <3>1, <3>2, FailureCounted
    <3>4. ASSUME NEW q \in Relays, NEW x \in Events, x \in relay'[q].todo
          PROVE  /\ relay'[q].seen[x] <= failures'[x]
                 /\ relay'[q].pc = "record" /\ AtRow(q, x)'
                      => relay'[q].seen[x] + 1 <= failures'[x]
      <4>1. x \in relay[q].todo /\ relay'[q].seen[x] = relay[q].seen[x]
        BY <3>2, <3>4 DEF RelayState
      <4>2. relay[q].seen[x] \in Nat /\ relay[q].seen[x] <= failures[x]
        BY <4>1 DEF RelayState
      <4>3. relay'[q].seen[x] <= failures'[x]
        BY <4>1, <4>2, <3>1, FailureCounted
      <4>4. CASE q = r /\ x = e
        BY <4>1, <4>2, <4>3, <4>4, <3>1, FailureCounted
      <4>5. CASE q = r /\ x # e
        <5>1. ~AtRow(q, x)
          BY <2>13, <4>5, AtRowUnique DEF MarkFails
        <5>2. relay'[q].todo = relay[q].todo
          BY <3>2, <4>5 DEF RelayState
        <5>3. QED
          BY <4>3, <5>1, <5>2 DEF AtRow
      <4>6. CASE q # r
        <5>1. relay'[q] = relay[q]
          BY <3>2, <4>6
        <5>2. relay[q].pc = "record" /\ AtRow(q, x)
                => relay[q].seen[x] + 1 <= failures[x]
          BY <4>1
        <5>3. failures[x] \in Nat /\ failures'[x] \in Nat /\ failures[x] <= failures'[x]
          BY <3>1, FailureCounted
        <5>4. QED
          BY <4>2, <4>3, <5>1, <5>2, <5>3 DEF AtRow
      <4>7. QED
        BY <4>4, <4>5, <4>6
    <3>5. QED
      BY <3>3, <3>4
  <2>14. ASSUME NEW r \in Relays, NEW e \in Events, RecordFailure(r, e) PROVE AttemptsAreReal'
    BY <2>14 DEF RecordFailure, SetState, Leave, Idle, RelayState, AtRow
  <2>15. ASSUME NEW r \in Relays, Abort(r) PROVE AttemptsAreReal'
    BY <2>15 DEF Abort, Idle, RelayState, AtRow
  <2>16. CASE UNCHANGED vars
    BY <2>16 DEF vars, RelayState, AtRow
  <2>17. QED
    BY <2>1, <2>2, <2>3, <2>4, <2>5, <2>6, <2>7, <2>8, <2>9, <2>10, <2>11, <2>12, <2>13, <2>14, <2>15, <2>16,
       OutboxAssumption DEF Next, RelayStep, Fault

\* A row is parked only by a try that reaches the limit.
LEMMA ParkedStep == TypeOK /\ OutboxInv /\ [Next]_vars => ParkedAfterMaxAttempts'
<1> SUFFICES ASSUME TypeOK, OutboxInv, [Next]_vars PROVE ParkedAfterMaxAttempts'
  OBVIOUS
<1> USE DEF TypeOK, OutboxInv, ParkedAfterMaxAttempts
<1>1. QED
  <2>1. ASSUME NEW e \in Events, WriteOutboxEvent(e) PROVE ParkedAfterMaxAttempts'
    BY <2>1 DEF WriteOutboxEvent, In, AttemptsAreReal
  <2>2. ASSUME NEW e \in Events, RequeueOutboxEvent(e) PROVE ParkedAfterMaxAttempts'
    BY <2>2 DEF RequeueOutboxEvent, SetState, In, AttemptsAreReal
  <2>3. ASSUME NEW e \in Events, Age(e) PROVE ParkedAfterMaxAttempts'
    BY <2>3 DEF Age, In, AttemptsAreReal
  <2>4. ASSUME NEW e \in Events, AgeUnderSlowSweep(e) PROVE ParkedAfterMaxAttempts'
    BY <2>4 DEF AgeUnderSlowSweep, In, AttemptsAreReal
  <2>5. ASSUME RequeueStaleFailedOutboxEvents PROVE ParkedAfterMaxAttempts'
    BY <2>5 DEF RequeueStaleFailedOutboxEvents, SetState, In, AttemptsAreReal
  <2>6. ASSUME NEW r \in Relays, Reclaim(r) PROVE ParkedAfterMaxAttempts'
    BY <2>6 DEF Reclaim, SetState, Goto, In, AttemptsAreReal
  <2>7. ASSUME NEW r \in Relays, Select(r) PROVE ParkedAfterMaxAttempts'
    BY <2>7 DEF Select, Idle, Oldest, In, AttemptsAreReal
  <2>8. ASSUME NEW r \in Relays, Claim(r) PROVE ParkedAfterMaxAttempts'
    BY <2>8 DEF Claim, SetState, Idle, In, AttemptsAreReal
  <2>9. ASSUME NEW r \in Relays, Reread(r) PROVE ParkedAfterMaxAttempts'
    BY <2>9 DEF Reread, Idle, In, AttemptsAreReal
  <2>10. ASSUME NEW r \in Relays, NEW e \in Events, PublishOk(r, e) PROVE ParkedAfterMaxAttempts'
    BY <2>10 DEF PublishOk, Goto, In, AttemptsAreReal
  <2>11. ASSUME NEW r \in Relays, NEW e \in Events, PublishFails(r, e) PROVE ParkedAfterMaxAttempts'
    <3>1. failures' = [failures EXCEPT ![e] = @ + 1] /\ state' = state
      BY <2>11 DEF PublishFails
    <3>2. QED
      BY <3>1, FailureCounted, OutboxAssumption DEF In
  <2>12. ASSUME NEW r \in Relays, NEW e \in Events, Mark(r, e) PROVE ParkedAfterMaxAttempts'
    BY <2>12 DEF Mark, SetState, Leave, Idle, In, AttemptsAreReal
  <2>13. ASSUME NEW r \in Relays, NEW e \in Events, MarkFails(r, e) PROVE ParkedAfterMaxAttempts'
    <3>1. failures' = [failures EXCEPT ![e] = @ + 1] /\ state' = state
      BY <2>13 DEF MarkFails
    <3>2. QED
      BY <3>1, FailureCounted, OutboxAssumption DEF In
  <2>14. ASSUME NEW r \in Relays, NEW e \in Events, RecordFailure(r, e) PROVE ParkedAfterMaxAttempts'
    <3>1. relay[r].seen[e] \in Nat /\ relay[r].seen[e] + 1 <= failures[e]
      BY <2>14 DEF RecordFailure, AttemptsAreReal, AtRow, RelayState
    <3>2. state'[e] = "failed" => relay[r].seen[e] + 1 >= MaxAttempts
      BY <2>14 DEF RecordFailure, SetState
    <3>3. \A x \in Events : x # e => state'[x] = state[x]
      BY <2>14 DEF RecordFailure, SetState
    <3>4. failures' = failures
      BY <2>14 DEF RecordFailure
    <3>5. QED
      BY <3>1, <3>2, <3>3, <3>4, OutboxAssumption DEF In
  <2>15. ASSUME NEW r \in Relays, Abort(r) PROVE ParkedAfterMaxAttempts'
    BY <2>15 DEF Abort, Idle, In, AttemptsAreReal
  <2>16. CASE UNCHANGED vars
    BY <2>16 DEF vars, In, AttemptsAreReal
  <2>17. QED
    BY <2>1, <2>2, <2>3, <2>4, <2>5, <2>6, <2>7, <2>8, <2>9, <2>10, <2>11, <2>12, <2>13, <2>14, <2>15, <2>16,
       OutboxAssumption DEF Next, RelayStep, Fault

\* Without faults a claimed row keeps an owner.
LEMMA OwnerStep == TypeOK /\ OutboxInv /\ [Next]_vars => ClaimedRowHasOwner'
<1> SUFFICES ASSUME TypeOK, OutboxInv, [Next]_vars PROVE ClaimedRowHasOwner'
  OBVIOUS
<1> USE DEF TypeOK, OutboxInv, ClaimedRowHasOwner
<1>1. QED
  <2>1. ASSUME NEW e \in Events, WriteOutboxEvent(e) PROVE ClaimedRowHasOwner'
    BY <2>1 DEF WriteOutboxEvent, RelayState, In, Owns, AtRow, RelayMemory
  <2>2. ASSUME NEW e \in Events, RequeueOutboxEvent(e) PROVE ClaimedRowHasOwner'
    BY <2>2 DEF RequeueOutboxEvent, SetState, RelayState, In, Owns, AtRow, RelayMemory
  <2>3. ASSUME NEW e \in Events, Age(e) PROVE ClaimedRowHasOwner'
    BY <2>3 DEF Age, RelayState, In, Owns, AtRow, RelayMemory
  <2>4. ASSUME NEW e \in Events, AgeUnderSlowSweep(e) PROVE ClaimedRowHasOwner'
    BY <2>4 DEF AgeUnderSlowSweep, RelayState, In, Owns, AtRow, RelayMemory
  <2>5. ASSUME RequeueStaleFailedOutboxEvents PROVE ClaimedRowHasOwner'
    BY <2>5 DEF RequeueStaleFailedOutboxEvents, SetState, RelayState, In, Owns, AtRow, RelayMemory
  <2>6. ASSUME NEW r \in Relays, Reclaim(r) PROVE ClaimedRowHasOwner'
    BY <2>6 DEF Reclaim, SetState, Goto, RelayState, In, Owns, AtRow, RelayMemory
  <2>7. ASSUME NEW r \in Relays, Select(r) PROVE ClaimedRowHasOwner'
    BY <2>7 DEF Select, Idle, Oldest, RelayState, In, Owns, AtRow, RelayMemory
  <2>8. ASSUME NEW r \in Relays, Claim(r) PROVE ClaimedRowHasOwner'
    BY <2>8 DEF Claim, SetState, Idle, RelayState, In, Owns, AtRow, RelayMemory
  <2>9. ASSUME NEW r \in Relays, Reread(r) PROVE ClaimedRowHasOwner'
    BY <2>9 DEF Reread, Idle, RelayState, In, Owns, AtRow, RelayMemory
  <2>10. ASSUME NEW r \in Relays, NEW e \in Events, PublishOk(r, e) PROVE ClaimedRowHasOwner'
    BY <2>10 DEF PublishOk, Goto, RelayState, In, Owns, AtRow, RelayMemory
  <2>11. ASSUME NEW r \in Relays, NEW e \in Events, PublishFails(r, e) PROVE ClaimedRowHasOwner'
    BY <2>11 DEF PublishFails, Goto, RelayState, In, Owns, AtRow, RelayMemory
  <2>12. ASSUME NEW r \in Relays, NEW e \in Events, Mark(r, e) PROVE ClaimedRowHasOwner'
    BY <2>12 DEF Mark, SetState, Leave, Idle, RelayState, In, Owns, AtRow, RelayMemory
  <2>13. ASSUME NEW r \in Relays, NEW e \in Events, MarkFails(r, e) PROVE ClaimedRowHasOwner'
    BY <2>13 DEF MarkFails, Goto, RelayState, In, Owns, AtRow, RelayMemory
  <2>14. ASSUME NEW r \in Relays, NEW e \in Events, RecordFailure(r, e) PROVE ClaimedRowHasOwner'
    BY <2>14 DEF RecordFailure, SetState, Leave, Idle, RelayState, In, Owns, AtRow, RelayMemory
  <2>15. ASSUME NEW r \in Relays, Abort(r) PROVE ClaimedRowHasOwner'
    BY <2>15 DEF Abort, Idle, RelayState, In, Owns, AtRow, RelayMemory
  <2>16. CASE UNCHANGED vars
    BY <2>16 DEF vars, RelayState, In, Owns, AtRow, RelayMemory
  <2>17. QED
    BY <2>1, <2>2, <2>3, <2>4, <2>5, <2>6, <2>7, <2>8, <2>9, <2>10, <2>11, <2>12, <2>13, <2>14, <2>15, <2>16,
       OutboxAssumption DEF Next, RelayStep, Fault

\* Apart from a write and a publish, no step changes which events have a row or
\* which have reached a queue.
LEMMA OtherSteps ==
  ASSUME TypeOK, OutboxInv, [Next]_vars,
         \A e \in Events : ~WriteOutboxEvent(e),
         \A r \in Relays, e \in Events : ~PublishOk(r, e)
  PROVE  enqueued' = enqueued /\ In("absent")' = In("absent")
<1> DEFINE Same == enqueued' = enqueued /\ In("absent")' = In("absent")
<1> USE DEF TypeOK, In
<1>0. RelayMemory
  BY DEF OutboxInv
<1>1. ASSUME NEW e \in Events, RequeueOutboxEvent(e) PROVE Same
  BY <1>0, <1>1 DEF RequeueOutboxEvent, SetState
<1>2. ASSUME NEW e \in Events, Age(e) PROVE Same
  BY <1>0, <1>2 DEF Age
<1>3. ASSUME NEW e \in Events, AgeUnderSlowSweep(e) PROVE Same
  BY <1>0, <1>3 DEF AgeUnderSlowSweep
<1>4. ASSUME RequeueStaleFailedOutboxEvents PROVE Same
  BY <1>0, <1>4 DEF RequeueStaleFailedOutboxEvents, SetState
<1>5. ASSUME NEW r \in Relays, Reclaim(r) PROVE Same
  BY <1>0, <1>5 DEF Reclaim, SetState
<1>6. ASSUME NEW r \in Relays, Select(r) PROVE Same
  BY <1>0, <1>6 DEF Select
<1>7. ASSUME NEW r \in Relays, Claim(r) PROVE Same
  BY <1>0, <1>7 DEF Claim, SetState
<1>8. ASSUME NEW r \in Relays, Reread(r) PROVE Same
  BY <1>0, <1>8 DEF Reread
<1>9. ASSUME NEW r \in Relays, NEW e \in Events, PublishFails(r, e) PROVE Same
  BY <1>0, <1>9 DEF PublishFails
<1>10. ASSUME NEW r \in Relays, NEW e \in Events, Mark(r, e) PROVE Same
  BY <1>0, <1>10 DEF Mark, SetState, AtRow, RelayMemory
<1>11. ASSUME NEW r \in Relays, NEW e \in Events, MarkFails(r, e) PROVE Same
  BY <1>0, <1>11 DEF MarkFails
<1>12. ASSUME NEW r \in Relays, NEW e \in Events, RecordFailure(r, e) PROVE Same
  BY <1>0, <1>12 DEF RecordFailure, SetState, AtRow, RelayMemory
<1>13. ASSUME NEW r \in Relays, Abort(r) PROVE Same
  BY <1>0, <1>13 DEF Abort
<1>14. CASE UNCHANGED vars
  BY <1>14 DEF vars
<1>15. QED
  BY <1>1, <1>2, <1>3, <1>4, <1>5, <1>6, <1>7, <1>8, <1>9, <1>10, <1>11, <1>12, <1>13, <1>14,
     OutboxAssumption DEF Next, RelayStep, Fault

\* Nothing reaches a queue that was not committed.
LEMMA CommittedStep ==
  TypeOK /\ OutboxInv /\ [Next]_vars => (enqueued \intersect In("absent") = {})'
<1> SUFFICES ASSUME TypeOK, OutboxInv, [Next]_vars
             PROVE  (enqueued \intersect In("absent") = {})'
  OBVIOUS
<1> USE DEF TypeOK
<1>1. enqueued \intersect In("absent") = {} /\ RelayMemory
  BY DEF OutboxInv
<1>2. ASSUME NEW r \in Relays, NEW e \in Events, PublishOk(r, e)
      PROVE  enqueued' = enqueued \union {e} /\ state' = state /\ state[e] # "absent"
  BY <1>1, <1>2 DEF PublishOk, AtRow, RelayMemory, In
<1>3. ASSUME NEW e \in Events, WriteOutboxEvent(e)
      PROVE  enqueued' = enqueued /\ In("absent")' \subseteq In("absent")
  BY <1>3 DEF WriteOutboxEvent, In
<1>4. QED
  BY <1>1, <1>2, <1>3, OtherSteps DEF In

----------------------------------------------------------------------------
(* The invariant, and what follows from it                                 *)

\* The strengthened invariant holds in every reachable state.
THEOREM Invariance == Spec => []OutboxInv
<1>1. Init => OutboxInv
  BY OutboxAssumption
  DEF Init, Idle, In, OutboxInv, PublishedWasEnqueued, MarkFollowsPublish,
      ParkedAfterMaxAttempts, AttemptsAreReal, ClaimedRowHasOwner, RelayMemory, AtRow
<1>2. TypeOK /\ OutboxInv /\ [Next]_vars => OutboxInv'
  BY MemoryStep, MarkStep, PublishedStep, AttemptsStep, ParkedStep, OwnerStep,
     CommittedStep DEF OutboxInv
<1>3. QED
  BY <1>1, <1>2, TypeCorrect, PTL DEF Spec

\* A row is `published` only if a queue has accepted its event: no crash, no
\* failed call and no race of relays makes the outbox forget an event.
THEOREM PublishedIsEnqueued == Spec => []PublishedWasEnqueued
<1>1. OutboxInv => PublishedWasEnqueued
  BY DEF OutboxInv
<1>2. QED
  BY <1>1, Invariance, PTL

\* A row is parked in `failed` only after MaxAttempts tries of it have failed.
THEOREM ParkedIsExhausted == Spec => []ParkedAfterMaxAttempts
<1>1. OutboxInv => ParkedAfterMaxAttempts
  BY DEF OutboxInv
<1>2. QED
  BY <1>1, Invariance, PTL

\* Before the first fault, every claimed row is held by a sweep.
THEOREM ClaimedIsHeld == Spec => []ClaimedRowHasHolder
<1>1. OutboxInv => ClaimedRowHasHolder
  BY DEF OutboxInv, ClaimedRowHasOwner, ClaimedRowHasHolder, Held, Owns, In
<1>2. QED
  BY <1>1, Invariance, PTL

\* The outbox with its relays implements the safety part of EventDelivery.
THEOREM OutboxDelivers == Spec => DeliversOnlyCommitted
<1>1. Init => Delivery!Init
  BY DEF Init, In, Delivery!Init
<1>2. TypeOK /\ OutboxInv /\ [Next]_vars => [Delivery!Next]_(Delivery!vars)
  <2> SUFFICES ASSUME TypeOK, OutboxInv, [Next]_vars
               PROVE  [Delivery!Next]_(Delivery!vars)
    OBVIOUS
  <2> USE DEF TypeOK
  <2>1. ASSUME NEW e \in Events, WriteOutboxEvent(e)
        PROVE  [Delivery!Next]_(Delivery!vars)
    <3>1. CASE state[e] = "absent"
      BY <2>1, <3>1 DEF WriteOutboxEvent, In, Delivery!Next, Delivery!Commit, Delivery!vars
    <3>2. CASE state[e] # "absent"
      BY <2>1, <3>2 DEF WriteOutboxEvent, In, Delivery!vars
    <3>3. QED
      BY <3>1, <3>2
  <2>2. ASSUME NEW r \in Relays, NEW e \in Events, PublishOk(r, e)
        PROVE  [Delivery!Next]_(Delivery!vars)
    <3>1. state[e] # "absent"
      BY <2>2 DEF PublishOk, AtRow, OutboxInv, RelayMemory, In
    <3>2. CASE e \in enqueued
      BY <2>2, <3>2 DEF PublishOk, In, Delivery!vars
    <3>3. CASE e \notin enqueued
      BY <2>2, <3>1, <3>3 DEF PublishOk, In, Delivery!Next, Delivery!Deliver, Delivery!vars
    <3>4. QED
      BY <3>2, <3>3
  <2>3. QED
    BY <2>1, <2>2, OtherSteps DEF Delivery!vars
<1>3. QED
  BY <1>1, <1>2, TypeCorrect, Invariance, PTL DEF Spec, DeliversOnlyCommitted, Delivery!Safety

----------------------------------------------------------------------------
(* Published rows                                                          *)

\* With one relay process, no row that a sweep has in its hands is settled or
\* taken back by anyone else.
RowsInHand ==
  \A r \in Relays, e \in Events : e \in relay[r].todo => state[e] = "publishing"

\* One relay keeps the rows in its hands to itself, whatever fails or ages.
LEMMA RowsInHandStep ==
  ASSUME \A r1, r2 \in Relays : r1 = r2, TypeOK, OutboxInv, RowsInHand, [Next]_vars
  PROVE  RowsInHand'
<1> USE DEF TypeOK, RowsInHand, RelayState
<1>0. RelayMemory
  BY DEF OutboxInv
<1>1. ASSUME NEW e \in Events, WriteOutboxEvent(e) PROVE RowsInHand'
  BY <1>1 DEF WriteOutboxEvent
<1>2. ASSUME NEW e \in Events, RequeueOutboxEvent(e) PROVE RowsInHand'
  BY <1>2 DEF RequeueOutboxEvent, SetState
<1>3. ASSUME NEW e \in Events, Age(e) \/ AgeUnderSlowSweep(e) PROVE RowsInHand'
  BY <1>3 DEF Age, AgeUnderSlowSweep
<1>4. CASE RequeueStaleFailedOutboxEvents
  BY <1>4 DEF RequeueStaleFailedOutboxEvents, SetState, In
<1>5. ASSUME NEW r \in Relays, Reclaim(r) PROVE RowsInHand'
  <2>1. relay[r].todo = {}
    BY <1>0, <1>5 DEF Reclaim, RelayMemory
  <2>2. QED
    BY <1>5, <2>1 DEF Reclaim, Goto
<1>6. ASSUME NEW r \in Relays, Select(r) PROVE RowsInHand'
  BY <1>6 DEF Select, Idle
<1>7. ASSUME NEW r \in Relays, Claim(r) PROVE RowsInHand'
  <2>1. relay[r].todo = {}
    BY <1>0, <1>7 DEF Claim, RelayMemory
  <2>2. QED
    BY <1>7, <2>1 DEF Claim, Idle
<1>8. ASSUME NEW r \in Relays, Reread(r) PROVE RowsInHand'
  BY <1>8 DEF Reread, Idle, In
<1>9. ASSUME NEW r \in Relays, NEW e \in Events,
             PublishOk(r, e) \/ PublishFails(r, e) \/ MarkFails(r, e)
      PROVE  RowsInHand'
  BY <1>9 DEF PublishOk, PublishFails, MarkFails, Goto
<1>10. ASSUME NEW r \in Relays, NEW e \in Events, Mark(r, e) \/ RecordFailure(r, e)
       PROVE  RowsInHand'
  <2>1. relay'[r].todo = relay[r].todo \ {e}
    <3>1. Leave(r, e)
      BY <1>10 DEF Mark, RecordFailure
    <3>2. QED
      BY <3>1 DEF Leave, Idle
  <2>2. \A x \in Events : x # e => state'[x] = state[x]
    BY <1>10 DEF Mark, RecordFailure, SetState
  <2>3. QED
    BY <2>1, <2>2
<1>11. ASSUME NEW r \in Relays, Abort(r) PROVE RowsInHand'
  BY <1>11 DEF Abort, Idle
<1>12. CASE UNCHANGED vars
  BY <1>12 DEF vars
<1>13. QED
  BY <1>1, <1>2, <1>3, <1>4, <1>5, <1>6, <1>7, <1>8, <1>9, <1>10, <1>11, <1>12,
     OutboxAssumption DEF Next, RelayStep, Fault

\* The statements of a sweep that can take the mark off a published row are the
\* two updates by id, of a row the sweep has in its hands.
LEMMA OnlyARecordUnpublishes ==
  ASSUME TypeOK, [Next]_vars, NEW e \in Events, state[e] = "published",
         state'[e] # "published"
  PROVE  \E r \in Relays : relay[r].pc = "record" /\ AtRow(r, e)
<1> USE DEF TypeOK, In, SetState
<1>1. ASSUME NEW x \in Events,
             WriteOutboxEvent(x) \/ RequeueOutboxEvent(x) \/ Age(x) \/ AgeUnderSlowSweep(x)
      PROVE  FALSE
  BY <1>1 DEF WriteOutboxEvent, RequeueOutboxEvent, Age, AgeUnderSlowSweep
<1>2. ~RequeueStaleFailedOutboxEvents
  BY DEF RequeueStaleFailedOutboxEvents
<1>3. ASSUME NEW r \in Relays, Reclaim(r) \/ Select(r) \/ Claim(r) \/ Reread(r) \/ Abort(r)
      PROVE  FALSE
  BY <1>3 DEF Reclaim, Select, Claim, Reread, Abort
<1>4. ASSUME NEW r \in Relays, NEW x \in Events,
             PublishOk(r, x) \/ PublishFails(r, x) \/ MarkFails(r, x) \/ Mark(r, x)
      PROVE  FALSE
  BY <1>4 DEF PublishOk, PublishFails, MarkFails, Mark
<1>5. ASSUME NEW r \in Relays, NEW x \in Events, RecordFailure(r, x)
      PROVE  x = e /\ relay[r].pc = "record" /\ AtRow(r, x)
  BY <1>5 DEF RecordFailure
<1>6. ~UNCHANGED vars
  BY DEF vars
<1>7. QED
  BY <1>1, <1>2, <1>3, <1>4, <1>5, <1>6, OutboxAssumption DEF Next, RelayStep, Fault

\* With one relay process a published row stays published, through slow sweeps,
\* reclaims, failed updates and requeues.
THEOREM PublishedStays ==
  ASSUME \A r1, r2 \in Relays : r1 = r2
  PROVE  Spec => PublishedIsFinal
<1>1. Init => RowsInHand
  BY DEF Init, Idle, RowsInHand
<1>2. TypeOK /\ OutboxInv /\ RowsInHand /\ [Next]_vars => RowsInHand'
  BY RowsInHandStep
<1>3. TypeOK /\ RowsInHand /\ [Next]_vars
        => [\A e \in Events : state[e] = "published" => state'[e] = "published"]_vars
  BY OnlyARecordUnpublishes DEF RowsInHand, AtRow
<1>4. QED
  BY <1>1, <1>2, <1>3, TypeCorrect, Invariance, PTL DEF Spec, PublishedIsFinal

\* What a queue has is publishable, and before the first fault only a row that
\* is not is ever recorded as failed.
FailuresHaveCauses ==
  /\ enqueued \intersect Poison = {}
  /\ faults = 0 =>
       \A r \in Relays, e \in Events :
         relay[r].pc = "record" /\ AtRow(r, e) => e \in Poison

\* Every step keeps it.
LEMMA CausesStep ==
  ASSUME TypeOK, FailuresHaveCauses, [Next]_vars
  PROVE  FailuresHaveCauses'
<1> USE DEF TypeOK, FailuresHaveCauses, RelayState
<1>1. ASSUME NEW e \in Events,
             WriteOutboxEvent(e) \/ RequeueOutboxEvent(e) \/ Age(e) \/ AgeUnderSlowSweep(e)
      PROVE  FailuresHaveCauses'
  BY <1>1 DEF WriteOutboxEvent, RequeueOutboxEvent, Age, AgeUnderSlowSweep, AtRow
<1>2. CASE RequeueStaleFailedOutboxEvents
  BY <1>2 DEF RequeueStaleFailedOutboxEvents, AtRow
<1>3. ASSUME NEW r \in Relays, Reclaim(r) \/ Select(r) \/ Claim(r) \/ Reread(r)
      PROVE  FailuresHaveCauses'
  <2>1. enqueued' = enqueued /\ faults' = faults
    BY <1>3 DEF Reclaim, Select, Claim, Reread
  <2>2. relay'[r].pc # "record" /\ \A q \in Relays : q # r => relay'[q] = relay[q]
    <3>1. CASE Reclaim(r)
      BY <3>1 DEF Reclaim, Goto
    <3>2. CASE Select(r)
      BY <3>2 DEF Select, Idle
    <3>3. CASE Claim(r)
      BY <3>3 DEF Claim, Idle
    <3>4. CASE Reread(r)
      BY <3>4 DEF Reread, Idle
    <3>5. QED
      BY <1>3, <3>1, <3>2, <3>3, <3>4
  <2>3. QED
    BY <2>1, <2>2 DEF AtRow
<1>4. ASSUME NEW r \in Relays, NEW e \in Events, PublishOk(r, e)
      PROVE  FailuresHaveCauses'
  BY <1>4 DEF PublishOk, Goto, AtRow
<1>5. ASSUME NEW r \in Relays, NEW e \in Events, PublishFails(r, e) \/ MarkFails(r, e)
      PROVE  FailuresHaveCauses'
  <2>1. \A x \in Events : AtRow(r, x) => x = e
    BY <1>5, AtRowUnique DEF PublishFails, MarkFails
  <2>2. enqueued' = enqueued /\ (faults' = 0 => faults = 0 /\ e \in Poison)
    BY <1>5 DEF PublishFails, MarkFails
  <2>3. relay' = [relay EXCEPT ![r].pc = "record"]
    BY <1>5 DEF PublishFails, MarkFails, Goto
  <2>4. QED
    BY <2>1, <2>2, <2>3 DEF AtRow
<1>6. ASSUME NEW r \in Relays, NEW e \in Events, Mark(r, e) \/ RecordFailure(r, e)
      PROVE  FailuresHaveCauses'
  <2>1. enqueued' = enqueued /\ faults' = faults /\ Leave(r, e)
    BY <1>6 DEF Mark, RecordFailure
  <2>2. relay'[r].pc # "record" /\ \A q \in Relays : q # r => relay'[q] = relay[q]
    BY <2>1 DEF Leave, Idle
  <2>3. QED
    BY <2>1, <2>2 DEF AtRow
<1>7. ASSUME NEW r \in Relays, Abort(r) PROVE FailuresHaveCauses'
  BY <1>7 DEF Abort, Idle, AtRow
<1>8. CASE UNCHANGED vars
  BY <1>8 DEF vars, AtRow
<1>9. QED
  BY <1>1, <1>2, <1>3, <1>4, <1>5, <1>6, <1>7, <1>8, OutboxAssumption
  DEF Next, RelayStep, Fault

\* With any number of relay processes, however they interleave, a published row
\* stays published until a first call fails, a process dies or a sweep is slow.
THEOREM PublishedStaysUntilAFault ==
  Spec => [][faults = 0 =>
               \A e \in Events : state[e] = "published" => state'[e] = "published"]_vars
<1>1. Init => FailuresHaveCauses
  BY DEF Init, Idle, AtRow, FailuresHaveCauses
<1>2. TypeOK /\ FailuresHaveCauses /\ [Next]_vars => FailuresHaveCauses'
  BY CausesStep
<1>3. TypeOK /\ OutboxInv /\ FailuresHaveCauses /\ [Next]_vars
        => [faults = 0 =>
              \A e \in Events : state[e] = "published" => state'[e] = "published"]_vars
  BY OnlyARecordUnpublishes
  DEF FailuresHaveCauses, OutboxInv, PublishedWasEnqueued, In
<1>4. QED
  BY <1>1, <1>2, <1>3, TypeCorrect, Invariance, PTL DEF Spec

----------------------------------------------------------------------------
(* The pipeline                                                            *)

\* What the pipeline does to the outbox is what the outbox does.
LEMMA PipelineStepIsOutboxStep == [PipelineNext]_allVars => [Next]_vars
<1> SUFFICES ASSUME PipelineNext PROVE [Next]_vars
  BY DEF allVars, vars
<1>1. ASSUME NEW r \in Relays, Sweep(r) PROVE [Next]_vars
  BY <1>1 DEF Sweep, Next, RelayStep
<1>2. ASSUME NEW r \in Relays, NEW e \in Events, Publish(r, e) PROVE [Next]_vars
  BY <1>2 DEF Publish, Next, RelayStep
<1>3. CASE Tend
  BY <1>3 DEF Tend, Next
<1>4. CASE Queue!Step /\ UNCHANGED vars
  BY <1>4
<1> QED
  BY <1>1, <1>2, <1>3, <1>4 DEF PipelineNext

\* So the outbox keeps all its promises inside the pipeline.
LEMMA PipelineImplementsOutbox == PipelineSpec => Spec
<1>1. PipelineInit => Init
  BY DEF PipelineInit
<1> QED
  BY <1>1, PipelineStepIsOutboxStep, PTL DEF PipelineSpec, Spec

\* Only a publish and the queue itself change what the queue has.
LEMMA PipelineCases ==
  ASSUME [PipelineNext]_allVars
  PROVE  \/ UNCHANGED queueVars /\ enqueued' = enqueued
         \/ \E e \in Events : Queue!Add(e) /\ \E r \in Relays : PublishOk(r, e)
         \/ \E e \in Events :
              /\ \/ Queue!Take(e) \/ Queue!HandlerReturns(e) \/ Queue!HandlerThrows(e)
                 \/ Queue!Settle(e) \/ Queue!WorkerDies(e) \/ Queue!Evict(e)
              /\ UNCHANGED vars
<1>1. ASSUME NEW r \in Relays, Sweep(r) PROVE enqueued' = enqueued
  BY <1>1 DEF Sweep, Reclaim, Select, Claim, Reread, Mark, RecordFailure
<1>2. ASSUME Tend PROVE enqueued' = enqueued
  BY <1>2 DEF Tend, WriteOutboxEvent, RequeueOutboxEvent, Age, AgeUnderSlowSweep, Fault,
              PublishFails, MarkFails, Abort, RequeueStaleFailedOutboxEvents
<1>3. CASE PipelineNext
  BY <1>1, <1>2, <1>3 DEF PipelineNext, Sweep, Tend, Publish, Queue!Step, Queue!Work
<1>4. CASE UNCHANGED allVars
  BY <1>4 DEF allVars, vars
<1> QED
  BY <1>3, <1>4

\* A job that is to be tried has a try left, and has not stalled too often.
TriesLeft ==
  \A e \in Events :
    job[e] \in {"waiting", "active"} => tries[e] < MaxTries /\ stalls[e] <= MaxStalledCount

\* The handlers dispatchEvent has passed have had their effect or have thrown.
HandlersInOrder ==
  \A e \in Events : job[e] = "active" => 1..(at[e] - 1) \subseteq effects[e] \union failed[e]

\* The queue knows only what was enqueued, and keeps it until it is handled.
QueueHoldsEnqueued ==
  \A e \in Events :
    /\ job[e] # "none" \/ effects[e] # {} => e \in enqueued
    /\ e \in enqueued => job[e] # "none" \/ effects[e] = 1..Handlers

QueueInv ==
  /\ Queue!TypeOK /\ TriesLeft
  /\ HandlersInOrder /\ CompletedMeansHandled /\ HandlersAreIsolated

LEMMA QueueStep ==
  ASSUME QueueInv, [PipelineNext]_allVars
  PROVE  QueueInv'
<1> USE PipelineAssumption
    DEF QueueInv, Queue!TypeOK, TriesLeft, HandlersInOrder, CompletedMeansHandled,
        HandlersAreIsolated, UsedUp, StalledOut, Queue!JobStates
<1>1. CASE UNCHANGED queueVars
  BY <1>1 DEF queueVars
<1>2. ASSUME NEW e \in Events, Queue!Add(e) PROVE QueueInv'
  <2>1. CASE job[e] = "none"
    <3>1. /\ 0 \in 0..MaxTries /\ 0 < MaxTries
          /\ 0 \in 0..MaxStalledCount + 1 /\ 0 <= MaxStalledCount
      OBVIOUS
    <3>2. /\ job' = [job EXCEPT ![e] = "waiting"] /\ tries' = [tries EXCEPT ![e] = 0]
          /\ stalls' = [stalls EXCEPT ![e] = 0]
          /\ UNCHANGED <<at, failed, effects, hfaults>>
      BY <1>2, <2>1 DEF Queue!Add
    <3>3. Queue!TypeOK'
      BY <3>1, <3>2
    <3>4. TriesLeft'
      BY <3>1, <3>2
    <3>5. (HandlersInOrder /\ CompletedMeansHandled /\ HandlersAreIsolated)'
      BY <3>2
    <3> QED
      BY <3>3, <3>4, <3>5
  <2>2. CASE job[e] # "none"
    BY <1>2, <2>2 DEF Queue!Add, Queue!vars
  <2> QED
    BY <2>1, <2>2
<1>3. ASSUME NEW e \in Events, Queue!Take(e) PROVE QueueInv'
  BY <1>3 DEF Queue!Take
<1>4. ASSUME NEW e \in Events, Queue!HandlerReturns(e) PROVE QueueInv'
  BY <1>4, SMTT(30) DEF Queue!HandlerReturns, Queue!Running
<1>5. ASSUME NEW e \in Events, Queue!HandlerThrows(e) PROVE QueueInv'
  BY <1>5, SMTT(30) DEF Queue!HandlerThrows, Queue!Running
<1>6. ASSUME NEW e \in Events, Queue!Settle(e) PROVE QueueInv'
  <2>1. job[e] = "active" /\ 1..Handlers = effects[e] \union failed[e]
    BY <1>6 DEF Queue!Settle
  <2>2. CASE failed[e] = {}
    <3>1. /\ job' = [job EXCEPT ![e] = "completed"]
          /\ UNCHANGED <<tries, stalls, at, failed, effects, hfaults>>
      BY <1>6, <2>2 DEF Queue!Settle
    <3>2. (Queue!TypeOK /\ TriesLeft)'
      BY <3>1
    <3>3. (HandlersInOrder /\ CompletedMeansHandled)'
      BY <2>1, <2>2, <3>1
    <3>4. HandlersAreIsolated'
      BY <3>1
    <3> QED
      BY <3>2, <3>3, <3>4
  <2>3. CASE failed[e] # {}
    <3>1. /\ tries[e] + 1 \in 0..MaxTries
          /\ tries[e] + 1 >= MaxTries => tries[e] + 1 = MaxTries
      BY <2>1
    <3>2. /\ tries' = [tries EXCEPT ![e] = tries[e] + 1]
          /\ job' = [job EXCEPT ![e] = IF tries[e] + 1 >= MaxTries THEN "failed" ELSE "waiting"]
          /\ UNCHANGED <<stalls, at, failed, effects, hfaults>>
      BY <1>6, <2>3 DEF Queue!Settle
    <3>3. Queue!TypeOK'
      BY <3>1, <3>2
    <3>4. TriesLeft'
      <4> SUFFICES ASSUME NEW x \in Events, job'[x] \in {"waiting", "active"}
                   PROVE  tries'[x] < MaxTries /\ stalls'[x] <= MaxStalledCount
        OBVIOUS
      <4>1. CASE x = e
        BY <2>1, <3>1, <3>2, <4>1
      <4>2. CASE x # e
        BY <3>2, <4>2
      <4> QED
        BY <4>1, <4>2
    <3>5. (HandlersInOrder /\ CompletedMeansHandled)'
      BY <2>1, <3>2
    <3>6. HandlersAreIsolated'
      <4> SUFFICES ASSUME NEW x \in Events, job'[x] = "failed", ~StalledOut(x)'
                   PROVE  /\ tries'[x] = MaxTries
                          /\ effects'[x] \union failed'[x] = 1..Handlers
        OBVIOUS
      <4>1. CASE x = e
        BY <2>1, <3>1, <3>2, <4>1
      <4>2. CASE x # e
        BY <3>2, <4>2
      <4> QED
        BY <4>1, <4>2
    <3> QED
      BY <3>3, <3>4, <3>5, <3>6
  <2> QED
    BY <2>2, <2>3
<1>7. ASSUME NEW e \in Events, Queue!WorkerDies(e) PROVE QueueInv'
  <2>1. stalls[e] + 1 \in 0..MaxStalledCount + 1
    BY <1>7 DEF Queue!WorkerDies
  <2>2. /\ stalls' = [stalls EXCEPT ![e] = stalls[e] + 1]
        /\ job' = [job EXCEPT ![e] =
             IF stalls[e] + 1 > MaxStalledCount THEN "failed" ELSE "waiting"]
        /\ UNCHANGED <<tries, at, failed, effects>>
        /\ hfaults' \in 0..MaxHandlerFaults
    BY <1>7 DEF Queue!WorkerDies
  <2>3. Queue!TypeOK'
    BY <2>1, <2>2
  <2>4. TriesLeft'
    <3> SUFFICES ASSUME NEW x \in Events, job'[x] \in {"waiting", "active"}
                 PROVE  tries'[x] < MaxTries /\ stalls'[x] <= MaxStalledCount
      OBVIOUS
    <3>1. job[e] = "active"
      BY <1>7 DEF Queue!WorkerDies
    <3>2. CASE x = e
      BY <2>1, <2>2, <3>1, <3>2
    <3>3. CASE x # e
      BY <2>2, <3>3
    <3> QED
      BY <3>2, <3>3
  <2>5. (HandlersInOrder /\ CompletedMeansHandled)'
    BY <2>2
  <2>6. HandlersAreIsolated'
    <3> SUFFICES ASSUME NEW x \in Events, job'[x] = "failed", ~StalledOut(x)'
                 PROVE  /\ tries'[x] = MaxTries
                        /\ effects'[x] \union failed'[x] = 1..Handlers
      OBVIOUS
    <3>1. CASE x = e
      BY <2>1, <2>2, <3>1
    <3>2. CASE x # e
      BY <2>2, <3>2
    <3> QED
      BY <3>1, <3>2
  <2> QED
    BY <2>3, <2>4, <2>5, <2>6
<1>8. ASSUME NEW e \in Events, Queue!Evict(e) PROVE QueueInv'
  BY <1>8 DEF Queue!Evict
<1> QED
  BY <1>1, <1>2, <1>3, <1>4, <1>5, <1>6, <1>7, <1>8, PipelineCases

LEMMA HoldsStep ==
  ASSUME QueueInv, QueueHoldsEnqueued, [PipelineNext]_allVars
  PROVE  QueueHoldsEnqueued'
<1> USE PipelineAssumption
    DEF QueueInv, Queue!TypeOK, CompletedMeansHandled, QueueHoldsEnqueued
<1>1. CASE UNCHANGED queueVars /\ enqueued' = enqueued
  BY <1>1 DEF queueVars
<1>2. ASSUME NEW e \in Events, NEW r \in Relays, Queue!Add(e), PublishOk(r, e)
      PROVE  QueueHoldsEnqueued'
  BY <1>2 DEF Queue!Add, Queue!vars, PublishOk
<1>3. ASSUME NEW e \in Events, UNCHANGED vars,
             \/ Queue!Take(e) \/ Queue!HandlerReturns(e) \/ Queue!HandlerThrows(e)
             \/ Queue!Settle(e) \/ Queue!WorkerDies(e) \/ Queue!Evict(e)
      PROVE  QueueHoldsEnqueued'
  <2>1. enqueued' = enqueued
    BY <1>3 DEF vars
  <2>2. CASE Queue!Take(e) \/ Queue!WorkerDies(e)
    BY <2>1, <2>2 DEF Queue!Take, Queue!WorkerDies
  <2>3. CASE Queue!HandlerReturns(e)
    BY <2>1, <2>3 DEF Queue!HandlerReturns, Queue!Running
  <2>4. CASE Queue!HandlerThrows(e)
    BY <2>1, <2>4 DEF Queue!HandlerThrows, Queue!Running
  <2>5. CASE Queue!Settle(e)
    BY <2>1, <2>5 DEF Queue!Settle
  <2>6. CASE Queue!Evict(e)
    BY <2>1, <2>6 DEF Queue!Evict
  <2> QED
    BY <1>3, <2>2, <2>3, <2>4, <2>5, <2>6
<1> QED
  BY <1>1, <1>2, <1>3, PipelineCases

LEMMA InitQueue == PipelineInit => QueueInv /\ QueueHoldsEnqueued
BY PipelineAssumption
DEF PipelineInit, Init, Queue!Init, QueueInv, Queue!TypeOK, Queue!JobStates, TriesLeft,
    HandlersInOrder, CompletedMeansHandled, HandlersAreIsolated, UsedUp, StalledOut,
    QueueHoldsEnqueued

LEMMA QueueInvariance == PipelineSpec => [](QueueInv /\ QueueHoldsEnqueued)
<1>1. QueueInv /\ QueueHoldsEnqueued /\ [PipelineNext]_allVars
        => (QueueInv /\ QueueHoldsEnqueued)'
  BY QueueStep, HoldsStep
<1> QED
  BY <1>1, InitQueue, PTL DEF PipelineSpec

\* Every variable of the pipeline keeps its type; in particular no job is
\* tried more than MaxTries times, nor stalls more than MaxStalledCount + 1.
THEOREM PipelineTypeCorrect == PipelineSpec => []PipelineTypeOK
<1>1. TypeOK /\ QueueInv => PipelineTypeOK
  BY DEF PipelineTypeOK, QueueInv
<1> QED
  BY <1>1, TypeCorrect, QueueInvariance, PipelineImplementsOutbox, PTL

\* A job is completed only when every handler has had its effect, however
\* often it was retried, stalled or published again.
THEOREM CompletedIsHandled == PipelineSpec => []CompletedMeansHandled
<1>1. QueueInv => CompletedMeansHandled
  BY DEF QueueInv
<1> QED
  BY <1>1, QueueInvariance, PTL

\* In a job that is given up by its tries, and not because its workers died
\* under it, every handler had its turn.
THEOREM HandlersHaveTheirTurn == PipelineSpec => []HandlersAreIsolated
<1>1. QueueInv => HandlersAreIsolated
  BY DEF QueueInv
<1> QED
  BY <1>1, QueueInvariance, PTL

\* Between the outbox and the queue nothing is lost and nothing is made up.
THEOREM StoresAgree == PipelineSpec => []NothingLostBetweenStores
<1>1. TypeOK /\ OutboxInv /\ QueueInv /\ QueueHoldsEnqueued => NothingLostBetweenStores
  BY DEF OutboxInv, PublishedWasEnqueued, QueueHoldsEnqueued, NothingLostBetweenStores, In
<1> QED
  BY <1>1, TypeCorrect, Invariance, QueueInvariance, PipelineImplementsOutbox, PTL
=============================================================================
