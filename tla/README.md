# A TLA+ model of the CustomerConnect Portal backend

TLA+ modules, TLC configurations and TLAPS proofs about the parts of this
repository where order, failure and concurrency decide whether it is right: the
transactional outbox and the event queue it feeds, payments, the support desk, the
chase of a short delivery, credit decisions and their notifications, the way from
an inquiry to an order, order drafts, and the onboarding of customers.

Paths below are relative to the repository (`packages/...`, `apps/...`).
`PROJECT.json` maps every definition to the lines it models and lists the runs,
findings, hazards and theorems.

## 1. The system

The portal is a multi-tenant TypeScript monorepo. `apps/web` and `apps/ops` are
Next.js applications whose route handlers call the services in
`packages/services/*`; these share one Postgres (through Prisma, scoped by
tenant) and reach SAP, the payment gateway, GSTN, storage and mail through
adapters. `packages/workers` is one background process running a relay loop, an
SLA sweep, a reconciliation loop and a BullMQ worker per queue. Nothing prevents
two worker processes, or any number of web processes.

Almost every service has the same shape: read a row, check it, perhaps wait for
another system, write the row *by id*. Whether that is safe depends on what the
write repeats of the check, and most of what follows is about it.

| Component | State | Operations | Talks to | Hard part | What makes it right |
|---|---|---|---|---|---|
| Outbox and relay (`db/src/outbox.ts`, `workers/src/relay.ts`) | `OutboxEvent` rows: state, attempts, updatedAt | write, reclaim, select, claim, re-read, publish, mark, record failure, requeue | the queue; every service writes rows | two relays between any two statements, crash between publish and mark, stale attempts | nothing published that is not committed; every committed event delivered; parked only after real failures |
| Event queue, consumer, registry (`workers/src/publisher.ts`, `consumer.ts`, `handlers/registry.ts`) | BullMQ jobs (by outbox row id), handlers | add, take, run handlers, settle, stall, evict | the relay, handlers in services | retries after partial success, second publish after eviction, the second stall of a job | done means every handler had its effect; one failing handler costs no other its turn; only used-up tries or stalls end a job before its effects |
| Payments (`services/payment`, `domain/src/entities/payment.ts`) | `Payment` row, its events | initiate, webhook, record capture, post, reconcile | gateway, SAP, outbox, reconciliation | read–check–write over awaits by several processes, lost and repeated webhooks, lost SAP answers | money taken is recorded and posted exactly once; no receipt without a posting; no failure decided on after a capture |
| Reconciliation (`services/reconciliation`, `workers/src/reconciliation.ts`, the admin tray) | none of its own | list exceptions, retry payment, requeue outbox row | payments, outbox | races with webhooks and with the relay | everything stuck is found and moved on |
| Support desk and SLA sweep (`services/support`, `workers/src/sla-sweep.ts`) | tickets, numbers, comments, ratings, breach flag | create, transition, resolve, comment, rate, sweep | outbox, delivery events | customer, agent and sweep on one row; two unique keys in one insert | breaches are genuine, resolutions announced, one ticket per source, dense numbers |
| Deliveries (`services/delivery`) | proof of delivery | confirm receipt, record, upload scan | SAP, outbox → ticket | SAP first, then the transaction; receipts reversed in SAP | evidence is what SAP took; recorded discrepancies are chased |
| Credit requests and rebates (`services/loyalty`) | request rows | ask, withdraw, decide, settle | SAP, outbox | withdrawal against decision, two clerks | the figure on the row is the one announced |
| Notifications (`services/notification`) | inbox rows, emailSentAt, readAt | fan-out, mirror by mail, read | mail driver, events | redelivery, stalled workers, crash between send and record | nobody is forgotten unless the job is given up; a second mail has a reason |
| Inquiries, quotations (`services/inquiry`) | none of its own but drafts and events | ask, quote, accept, revise | SAP, outbox | two calls of SAP per acceptance, event after SAP | each revision announced; one order per PO reference |
| Orders and drafts (`services/order`) | drafts with lines | save, delete, submit, cancel, release | SAP | drafts rewritten outside a transaction, lost answers | no edit begins on a submitted draft; exposure covers what may be delivered |
| Onboarding (`services/onboarding`, `apps/ops` approval route) | application, documents, evidence, accounts, logins | save step, verify GSTIN, submit, decide, approve | GSTN, SAP, storage, identity | duplicate guard, two-step status writes, SAP before database | numbers are SAP's; reviews of applications edited by one call at a time are sound; one approved customer per GSTIN |
| Catalogue, customer, invoice, reporting | cart lines, cache | reads of SAP | SAP, cache | — | — |
| Identity, platform, tenant scoping | users, operators, tenants, SAP configuration | log in, administer | — | — | no query leaves its tenant |

`PROJECT.json` lists every component with its status, and under `hazards` what is
hardest to test in each, with the line where it bites.

## 2. Modules

    EventDelivery        what the outbox promises (abstract)
      ^ refined by
    Outbox               rows and relays
      ^ extended by
    EventPipeline        outbox + queue  -----INSTANCE---->  JobQueue
    PaymentPromise       what payments promise (abstract)
      ^ refined by
    Payment              payments, gateway, SAP, reconciliation
    SupportDesk          tickets in work, SLA sweep
    ProofOfDelivery  +  TicketIntake         -->  DeliveryChase
    CreditRequest    +  NotificationFanOut   -->  CreditDecision
    SalesOrders          the account's book in SAP
      ^ extended by
    SalesDesk            inquiries, quotations, orders
    OrderDrafts          drafts and their submission
    Onboarding           applications, SAP customers, accounts, logins

Eight modules `X_proofs` hold the theorems about `X` (section 4): `EventPipeline`
(with those about `Outbox`), `Payment`, `SupportDesk`, `DeliveryChase`,
`CreditDecision`, `SalesDesk`, `OrderDrafts`, `Onboarding`. A module `MCX` gives
`X` its model values and symmetry for TLC.

**Outbox** is one tenant's outbox. `state`, `attempts` are the columns; `aged`
stands for `updatedAt`: a row is in it when its `updatedAt` is older than the
limit that matters in its state (reclaim for `publishing`, cooldown for
`failed`), and every update of a row takes it out. `relay[r]` is what a sweep of
process r has in local variables: the ids it selected, the rows it re-read and
has not settled, and `attempts` as it saw them. Each SQL statement and each
publish is one action, named for what it does: `Reclaim`, `Select`, `Claim`,
`Reread`, `PublishOk`, `PublishFails`, `Mark`, `MarkFails`, `RecordFailure`; a
sweep that throws or a process that dies is `Abort`. `RequeueOutboxEvent` is the
tray's button, `RequeueStaleFailedOutboxEvents` the nightly sweep. An event is a
number, its place in `occurredAt` order; rows may be committed in any order.
`failures` (tries that failed) and `enqueued` (events a queue accepted) are
history.

**JobQueue** is BullMQ as `publisher.ts` and `consumer.ts` configure it (external,
modelled from its options: `attempts`, `jobId`, `removeOnComplete`,
`removeOnFail: false`) and `dispatchEvent`, one handler call per step. Handlers
are idempotent by contract, so an effect is a flag; a handler that throws may have
had its effect. A job whose worker dies has stalled (`WorkerDies`): it goes back to
the queue, and at one stall more than `MaxStalledCount` it fails, whatever tries it
has left and without its handlers being called. `consumer.ts:37` sets no
`maxStalledCount`, so that it is BullMQ's default, 1, in every run. **EventPipeline** joins the two at the publish: `PublishOk` and
`Queue!Add` are one step. Rows that no registry knows never get that far.

**Payment** has one process per call in flight, in three kinds: `Web` (requests of
customers, webhooks), `Desk` (the reconciliation loop, the tray's retry), `Bus`
(queue workers). A call is cut where the code awaits something another process can
get between: `Validate`–`Create`–`CreateOrder`–`StoreReference` or `Close`;
`Receive`–`RecordCapture` or `RecordFailure`; `ReadForPosting`–`SapPosts`–
`RecordPosting`; `Reconcile`–`Poll`. A database transaction is one action, outbox
write included. Writes are by id, as in the code: they do not look at what the row
has become. The gateway (external) may take or decline the money of an attempt and
sends webhooks, which may arrive any number of times, in any order, or never.
`Retryable` says whether a declined attempt can still be paid, `Eager` whether it
can be paid before `createOrder` has returned. SAP is the mock driver's
`postIncomingPayment`, whose answer may be lost. `acked` is history: payments for
whose capture a webhook was answered 2xx; the route answers 200 also when SAP
refuses the posting. **PaymentPromise** is the same without rows, calls, webhooks
and retries: `Charge` takes the money, `Post` gives it a document with a number of
its own, `Confirm` tells the customer of that document, each once and nothing is
taken back. `Payment!Promise` maps it to the gateway's status, SAP's documents, the
rows' document numbers and the `payment.posted` events.

**SupportDesk** is one ticket row per ticket, calls of customers and agents, and
sweeps. `CheckMove` and `CheckRating` read the row and apply `TICKET_TRANSITIONS`,
`canReopenTicket` and `canRateTicket`; `StartWork`, `Close`, `Reopen`, `Resolve`
and `Rate` write by id, whatever the row has become. `openedAt` and `resolvedAt`
are numbered (the window, the resolution), which is what the dedupe keys of the
two events tell apart; `late` and `lapsed` say where the clock is against them, and
may become true at any time. `ListDue` and `Claim` are the sweep's query and its
transaction per ticket; the limit of 200 per sweep is left out, as each claimed
ticket leaves the query. `startedAt`, assignment and comments are left out: nothing
here reads them.

**ProofOfDelivery** is `confirmReceipt`: the request reads the delivery and compares
quantities (`ConfirmReceipt`), SAP accepts and signs (`ConfirmPod`), accepts
unheard (`ConfirmPodUnheard`) or refuses (`SapRefusesPod`), and one transaction
writes the evidence and, for a discrepancy, its event (`RecordPod`), unless the
unique row is there (`AlreadyRecorded`). `signed` is SAP's `podConfirmed`, which a
clerk may undo (`Reverse`, VL03N). `receipts` is history. **TicketIntake** is
`insertTicket` for the customer's form and for the workers of discrepancy events:
`NextTicketNo` looks for the counter row, `Insert` is the transaction (counter,
ticket, event), `Collision` a unique violation of either key, `Lookup` the query
that tells which it was, followed by one more attempt. Two first tickets at once
collide on the counter row; two deliveries of one event on the source key.
**DeliveryChase** joins them at `reported`: only a committed event's job is taken.

**CreditRequest** is an account's requests and the credit desk. An ask is three
steps (nothing pending; the position; the row with its event), a withdrawal a
check and a write by id, a decision a check and a transaction that is conditional
on `pending`. `limit` is SAP's, and moves. **NotificationFanOut** is
`deliverEventNotifications` for one event at a time: resolve the recipients of a
template, write the inbox rows (duplicates skipped), then for each recipient read
the row, send, and record; then the next template. `holder` is the lock of an
event's job. A worker dies at any point (`MailerDies`), a statement of it throws
(`HandlerThrows`), or its lock expires while it goes on (`Stall`) and another worker
takes the job beside it; it then runs to its end, completing nothing, or dies or
throws unnoticed (`OvertakenEnds`). Deaths and lost locks are stalls, throws are
tries, and a job with too many of either is `GivenUp`, with the limits of
`JobQueue`. `doubts` is history: runs that ended between a mail and its record, or
lost the lock and went on. Users read, and lose their eligibility.
**CreditDecision** joins them: the facts are the committed
`credit.increase.decided`.

**SalesOrders** is what the driver keeps of one account: orders numbered in sequence,
the index of PO references, the exposure, the block. A call of the driver runs to
its end, so each is one action or an operator of a caller's action; the queue of
`ReleaseCreditBlock` is the credit status alone, as in the code. `despatched` is
history. **SalesDesk** puts the services' calls on top: `CheckCancel`–`CancelOrder`,
inquiry and quotation (quoted by the workbench, or when somebody looks at an
inquiry that has waited), `AcceptQuotation`–`ConvertQuoteToOrder`–
`CreateFromQuotation`–`Announce`, `CheckRevision`–`RequestRevision`–`Announce`. An
event is written after SAP and its failure swallowed (`lost` is history).
**OrderDrafts** puts the draft service and `POST /api/orders` on the same book:
a save is header, delete lines, create lines; a deletion is find, drop lines, drop
row; a submission is SAP first, then `MarkDraftSubmitted`. Snapshot v is the form
as the v-th save sends it. `disturbed` and `answered` are history.

**Onboarding** has one step per await of each call on an application: `ReadStep`–
`SaveStep`, `ReadGstin`–`StoreVerification`, `ReadForDocument`–`StoreDocument`,
`CheckSubmission`–`GuardDuplicate`–`Submit`–`Queue`, `CheckDecision`–
`RequestMoreInfo` or `RejectApplication`, `OpenApproval`–`CheckApproval`–
`CreateCustomer`–`RecordApproval`–`RegisterCustomerAccount`–
`ProvisionPortalAccess`. `Queue` goes on to the approval when the back office
registers a customer in one go. The form is reduced to the GSTIN and to whether the
documents are there; evidence is the number it was given for and whether its
outcome lets a submission pass. `disturbed` (applications two calls were on at
once) and `twins` (pairs that were past the duplicate guard together) are history.

Each module has a few *seeded faults*, wrong versions of its actions that keep
the properties honest: for each property, `PROJECT.json` names the fault that
violates it.

## 3. What the runs show

| Run | Bounds | Shows |
|---|---|---|
| `outbox_two_relays` | 2 relays, 3 rows, one of them poison, batch 2, 2 attempts, 1 fault, 1 requeue | published rows were enqueued, parked rows are exhausted, claimed rows are held before the first fault, refinement of `EventDelivery`'s safety |
| `outbox_one_relay` | 1 relay, 3 rows, batch 2, 2 faults, 2 requeues | with one process, published is final (two relays can undo it for a moment, through stale rows); every committed event is delivered |
| `pipeline_faults` | 2 relays, 1 event, 2 handlers, 2 tries, 1 stall forgiven, 2 relay faults, 3 handler faults | completed means handled; nothing is lost between the two stores; every fact takes effect, or its job used up its tries, or its worker died under it twice |
| `payment_races` | 2 payments sharing an item, 2 web and 1 desk process, 1 fault; a prompt gateway | items cleared once, acknowledged captures recorded; reconciliation alone gets every charge posted |
| `payment_conflicts` | 2 payments, 1 web, 1 desk and 1 bus process; the second cannot be posted after the first; a gateway that charges early and takes declined attempts again | receipt has posting, posted money was taken, capture is announced, no failure is decided on after a capture, refinement of `PaymentPromise` |
| `payment_retry_lost` | 1 payment; a gateway that takes declined attempts again | expected violation, see below |
| `support_desk` | 1 ticket, 2 agents, 1 customer, 2 sweeps, 2 windows, 2 resolutions, 1 fault | breaches are genuine, resolutions announced, ratings follow a settlement; overdue work is always flagged |
| `delivery_chase` | 1 delivery, 2 requests, 1 reversal, 2 ticket workers and 1 form, 1 fault each | evidence is SAP's, one ticket per delivery, dense numbers, completed jobs have tickets; every recorded discrepancy is chased |
| `credit_decision` | 1 request, 1 customer, 2 clerks, limits 1..2, 2 templates of which 1 mails, 1 user who may leave, 2 mailers, 1 try, 1 stall forgiven, 2 faults | the figure announced is the one kept, every mail beyond the first has its reason, completed means told; whoever keeps the right is told of the decision, unless its job threw or stalled twice |
| `sales_desk` | 2 users, 1 inquiry, 2 orders, 1 PO reference, values 1 and 2 with a limit of 2, 1 block, 2 revisions, 1 fault | no PO reference twice, exposure covers what may be delivered, revisions are announced |
| `order_drafts` | 2 drafts, 2 requests, 3 saves, 2 orders, 1 PO reference, 1 fault | submitted rows name their own order; no save or deletion begins on one, and none but those begun before touches it or its lines; undisturbed drafts are whole |
| `onboarding` | 2 applications, 1 of them the back office's, 2 GSTINs, 2 calls, 2 customers, 6 edits, 1 death | numbers are SAP's; no two approved applications have customers of one GSTIN, whatever overlaps; of the applications no two calls were on at once, reviews are sound and duplicates were twins |

`payment_retry_lost` is the one run that ends in a violation. `payment-service.ts:308`
says a SAP failure "can never lose the fact of the charge"; a capture of a declined
attempt that the customer paid again arrives for a row already closed as failed,
is answered 200 and recorded nowhere. The passing payment runs say under which
gateway that cannot happen.

### What the code does not promise

Some sentences of the sources do not hold of the code. The modules keep them as
definitions, each next to the property that does hold. Added to the configuration
named here, TLC finds the behaviour in the last column.

| Definition | Add to | The sentence | What happens |
|---|---|---|---|
| `Outbox!ClaimIsExclusive` (invariant) | `outbox_two_relays` | `relay.ts:79` "the loser ... re-reads nothing it owns" | the loser of part of a batch re-reads the winner's rows too; harmless for delivery, as the queue drops the second copy |
| `Payment!CaptureNeverFails` (property) | `payment_conflicts` | `payment-service.ts:42` a captured payment "is never rolled back to `failed`" | the gateway declines an attempt and takes it when paid again; a poll or webhook that saw the decline is written, by id, over the capture recorded meanwhile, and the worker of `payment.captured` then finds a failed row and posts nothing |
| `Payment!PostedIsFinal` (property) | `payment_races` | `payment.ts:16` the state machine is "deliberately linear" | a late `recordCapture` moves `posted` back to `captured`; the posting is repeated with the same document |
| `Payment!NoItemPaidTwice` (invariant) | `payment_conflicts` | `payment-service.ts:127` paying twice is what "this ordering prevents" | nothing reserves an item between validation and charge |
| `SupportDesk!LegalTransitions` (property) | `support_desk` | `support.ts:272` "Who may move a ticket where" | a closed ticket is in progress again, by a write decided on before |
| `SupportDesk!FlagMeansReported` (invariant) | `support_desk` | `schema.prisma:750` the flag is for "the current openedAt window" | a stale claim flags a reopened ticket's fresh window |
| `DeliveryChase!SapDiscrepancyIsChased` (property) | `delivery_chase` | `support-auto-ticket.ts:8` a POD discrepancy "auto-creates" a ticket | SAP takes the receipt, its answer is lost, and SAP refuses the retry: neither evidence nor event |
| `CreditRequest!DecisionIsFinal` (invariant) | `credit_decision` | `loyalty.ts:497` only a pending request may be withdrawn | a withdrawal checked before the decision is written after it |
| `SalesOrders!ClosedConsumesNothing` (invariant) | `sales_desk` | `driver.ts:922` a cancelled order's exposure "is given back" | an order cancelled while held is released later and consumes the limit |
| `SalesDesk!ConvertedAtQuotedPrice` (invariant) | `sales_desk` | `driver.ts:727` the quotation's prices are carried onto the lines | the PO reference was used before: the conversion answers with that order, of another value |
| `OrderDrafts!LinesOfOneSnapshot` (invariant) | `order_drafts` | `draft-service.ts:106` merging two snapshots is how a deleted line comes back | two saves that overlap leave the lines of both |
| `OrderDrafts!SubmittedLinesStand` (property) | `order_drafts` | `draft-service.ts:135` a submitted order "must not be editable through the draft endpoint" | a save past its check when the row is marked submitted goes on to delete and rewrite its lines (`:145`) |
| `OrderDrafts!SubmittedIsKept` (property) | `order_drafts` | `draft-service.ts:220` "The row is kept rather than deleted" | a deletion that found the draft before it was submitted removes the row by its id (`:213`) |
| `OrderDrafts!DraftOrderedOnce` (invariant) | `order_drafts` | `order-service.ts:322` a double-clicked submit "costs nothing" | true with a PO reference only; without one there are two orders |
| `Onboarding!EvidenceIsOfTheNumber` (invariant) | `onboarding` | `onboarding-service.ts` (`saveStepCore`) a changed GSTIN voids the verification | a verification read before the change is stored after it |
| `Onboarding!AllDuplicatesAreTwins` (invariant) | `onboarding` | `onboarding-service.ts:673` the duplicate guard of a submission | a save that read a draft is written after its submission and puts another applicant's number on it, past the guard |

Further consequences a reader of the models will meet, each at its line:

- `payment-service.ts:200`, `:219`: `createOrder` that times out after it reached
  the gateway closes its row as failed, and a crash before the reference is stored
  leaves an initiated row; with an `Eager` gateway a charge finds such a row and no
  webhook matches it. `ChargedIsPosted` is about charges under a stored reference
  of a gateway that is not.
- `payment-service.ts:271`: two processes that receive one webhook both take it for
  new; the posting is still made once.
- `mock/driver.ts:1315`: a posting rejected on a later item leaves the earlier ones
  reduced. `NoItemIsOverCleared` bounds the reduction; no property says it is undone.
- `payment.ts:196`: `validateAllocations` tolerates half a cent that SAP does not.
  Amounts here are whole units.
- `consumer.ts`, `publisher.ts`: a job that failed for good has a `published` outbox
  row, so the exception tray does not list it. That is also the end of a job whose
  worker died under it twice (`consumer.ts:37`), although its handlers may never
  have been called. `EveryFactTakesEffect` and `DecisionIsTold` name both cases.
- `workbench-service.ts`, `ticket-service.ts`: a rating can overwrite a rating, and
  one agent's resolution another's.
- `credit-request-service.ts:100`: two asks at once both see nothing pending and
  leave two pending rows; each is decided by itself.
- `fanout.ts:137`: the recipients are resolved again at each try, so a user who lost
  the right between two tries keeps the row of the first.
- `onboarding-service.ts:692`: a crash between the two updates of a submission leaves
  a row that can only be rejected; `:918`: after a lost answer of SAP every retry
  of the approval is refused as a duplicate; `:829`: a rejection decided on before
  an approval is written over it.
- the approval route, `:48–68`: a crash after the approval is recorded leaves a
  customer without account or login, and the approval cannot be repeated.

**Bounds.** Two relays and two web processes are enough for every race of a read
and a write, since each overtakes the other; three rows with a batch of two make
batches overlap in part; two attempts make a first and a last try. Faults and
requeues are counted because each adds a retry, not a new state of the protocol.
The faults of a job are counted against the real limit of one stall: `pipeline_faults`
has three handler faults, enough for a second stall with tries left and for tries
used up, and `credit_decision` two, enough for the second stall; its one try makes a
throw the end of the job, since what follows a forgiven throw is what follows a
forgiven stall.
Unbounded histories (`failures`) are bounded by them. A queue worker's
`HandleCaptured` starts where `Reconcile` of a captured row starts, so one of the
two kinds is enough in `payment_races`. The sweep treats tickets one by one, so one
ticket with two windows has every race of the desk; two agents and a customer are
the writers that can overtake each other in turn. Deliveries share only the ticket
counter, and the form is a second writer of that: one delivery, two workers and a
form collide on both unique keys. Credit requests of an account share only the
check that none is pending; the mailers share one event. `MaxTickets` leaves room
for one ticket per source (`Room`), so that the bound never stops a worker. Two
orders and one PO reference make a reference that is used, freed and used again;
the limit fits one order of value 2 or two of value 1. Three saves make two that
overlap and one later; six edits (a save, a verification, a document each) take
both applications to a submission, and a resubmission needs none. The theorems of section 4 hold without any of these bounds.

**Fairness.** The relay loop ticks on an interval and its sweep is not suspended
for ever: weak fairness of a relay's own steps. The clock advances: weak fairness
of `Age`. A row ages under a sweep that still holds it only if the sweep is slower
than a minute, which counts as a fault (`AgeUnderSlowSweep`): otherwise two
endlessly slow sweeps could hand a row to and fro. The nightly requeue runs; its
bound is at least the bound on faults, so that a row parked by a fault is always
requeued. BullMQ's workers keep taking jobs. In payments a call that has started
goes on, and the reconciliation loop returns to each exception as long as there is
one: strong fairness of `Reconcile`, because a webhook in flight may disable it
for a moment. Nothing is assumed of the gateway, its webhooks, the customer or the
queue. The SLA sweep ticks as long as a worker runs; customers and agents may do
nothing. In `DeliveryChase` a request that has begun goes on and ticket workers
keep taking jobs; that a job is retried at all is the queue's promise, and the one
fault of the run is below its five tries and no more than the one stall it forgives.
In `CreditDecision` only the mailers are bound to go on. `SalesDesk`, `OrderDrafts` and `Onboarding` have no liveness: no
one there is obliged to do anything.

## 4. What is proved

For all values of the constants that satisfy the modules' assumptions, which only
say that bounds are numbers and that sets do not overlap. Every model has its type
invariant proved rather than checked in a run. Each module's `Inv` is inductive and
is proved by one lemma per conjunct and one step per action. Of the properties of the
passing runs every safety invariant, action property and refinement is a theorem.

**EventPipeline_proofs**, first about the outbox alone: `Invariance` of `OutboxInv`.
`PublishedWasEnqueued` is not inductive: it needs `MarkFollowsPublish` (a relay
about to mark a row has published it). `ParkedAfterMaxAttempts` needs
`AttemptsAreReal`: no copy of `attempts`, in the row or in a sweep's memory, runs
ahead of the failures that happened, and a sweep about to record a failure is one
behind. `ClaimedRowHasHolder` needs `ClaimedRowHasOwner`, and all need `RelayMemory`
(what a sweep remembers fits where it is). `OutboxDelivers`: the outbox implements
the safety part of `EventDelivery`, each step mapping to a commit, a delivery or a
stutter. Then about the pipeline: every step of it is a step of the outbox or
leaves it alone (`PipelineImplementsOutbox`), so all of the above holds of it; and
`CompletedMeansHandled`, `HandlersAreIsolated` and `NothingLostBetweenStores` follow
from `HandlersInOrder` (the handlers passed have had their effect or thrown),
`TriesLeft` and `QueueHoldsEnqueued` (a job evicted from the queue was handled).
`HandlersAreIsolated` is about jobs given up for their tries: those ended by the
stall limit promise no handler a turn.
`PublishedIsFinal` is proved with one relay process as an assumption of the theorem
(`PublishedStays`): then a row in the hands of a sweep is `publishing` (`RowsInHand`),
so no mark or failure is ever written over a published row. With any number of
relays it holds until the first fault (`PublishedStaysUntilAFault`); that two relays
and a fault do break it is in section 3.

**Payment_proofs** follows the money backwards: what SAP posted was captured by the
gateway, because only an announced capture is posted, because only a webhook or a
poll of a captured attempt announces one (`WordOfCapture`), because one request
opens a payment (`OneRequest`) and nobody else knows of it before its row is there
(`NothingBeforeTheRow`). Hence `ReceiptHasPosting`, `PostedMoneyWasTaken`,
`CaptureIsAnnounced` and `ReceiptNeverChanges`, for any gateway, and
`NoFailureAfterCapture`: a webhook is checked against the row, a poll is answered by a
gateway that does not take a capture back, and a row that is closed for want of an
order has nothing at the gateway. That is about when a failure is decided on, and no
more can be said: its write by id may come after a capture (`CaptureNeverFails`,
section 3). Under `Prompt == ~Retryable /\ ~Eager`, an
assumption of the theorem itself, also `AckedCaptureIsRecorded`; `payment_retry_lost`
shows that it does need it.

`PromiseIsKept` is the refinement of `PaymentPromise`, for any gateway. All but four
kinds of step leave the four mapped values alone (`Quiet`): the gateway's capture is
`Charge`, a first posting is `Post` and its number is new because none is above
`docs` (`Numbered`), a first recording is `Confirm`, and what repeats one of them
finds the same values and stutters. Of the open items, `NoItemIsOverCleared` says
for all payments that what is open on an item and what the posted payments settle
of it are together never more than it was for: a posting moves an amount from one to
the other, a posting refused half-way takes from the first only. `ClearedExactly`
is `ItemsClearedOnce` under `TogetherFit`, an assumption of the theorem, which the
payments of `payment_races` satisfy: a payment not yet posted then fits what is left
(`UnpostedFits`), so no posting is refused half-way and the sum stays exact.

**SupportDesk_proofs**: `BreachIsGenuine`, which needs `ListsAreOverdue` (a stale list
still holds overdue windows only); `ResolutionIsAnnounced`, which needs
`AnnouncedInOrder`; `RatingJudgesWork`, which needs `SettledWasWorked` (a call that
found the ticket settled may write after it was reopened) and `SettledStays`.

**DeliveryChase_proofs**: what a request is about to record SAP has taken
(`RequestsFollowSap`), evidence and event are of one transaction
(`EvidenceIsReported`), a job works only on a committed event
(`CallsFollowEvents`). Hence `EvidenceIsSaps`, `TicketsHaveEvidence`,
`OneTicketPerDelivery`, `NumbersAreDense` and `SettledHasTicket`.

**CreditDecision_proofs**: an open request is undecided and calls carry what they read
(`CallsAreChecked`), hence `AgreedIsAnnounced` and `AskIsAnIncrease`;
`TellsInOrder` (the templates before a worker's own are done with, and of its own
nobody is forgotten), hence `CompletedMeansTold`; `ReadStaysRead`. `MailsAreExplained`
rests on the locks (`LocksAreHeld`: who holds a job runs it) and counts workers
(`MailsAreBounded`): the mails of a row and the workers that may yet send one
more (`MayMail`: those that have not come to it while none is recorded, those past
the check afterwards) are together at most one more than the event's doubts; and a
job that nobody runs, with no mail on record, has no more mails than doubts, which
leaves room for the next try. A run that ends with its mail unrecorded, or loses its
lock and goes on, adds its doubt.

**SalesDesk_proofs**: every order that counts is the one its PO reference leads to
(`CountingIsIndexed`), hence `NoPoTwice`; `LimitIsKept`; `RevisionsAreAnnounced`.
`ExposureIsCovered` compares a sum over the orders with SAP's running figure: every
step of the desk is one of a few of the book (`DeskStepIsBookStep`), and of those an
order begins to count with its value added, ceases with its value given back, or the
sum does not rise while the figure does not fall (`CoveredGrows`, `CoveredShrinks`,
`CoveredStays`).

**Sums.** `ExposureOf` and the amounts settled of an item are folds of the community
modules, recursive functions on the subsets of a finite set. Without an induction
principle to instantiate, that they add up is proved by a smallest counterexample:
strict inclusion is well founded on the subsets of a finite set, so of the subsets
for which a claim fails there is one with no smaller (`SmallestSet`). This gives that
the fold exists, that it does not depend on the order (`TotalRemove`) and what an
added element adds (`TotalAdd`). The lemmas are the same in `SalesDesk_proofs` and
`Payment_proofs`.

**OrderDrafts_proofs**: a request about to mark a draft has SAP's answer
(`MarksAreAnswered`), hence `SubmittedNamesItsOrder`; an undisturbed draft is in one
hand and its old lines are gone before the new ones come (`InOneHand`), hence
`QuietDraftIsWhole`; `SubmissionStands`, as a save and a deletion ask for a draft when
they begin, and nothing else touches its row or lines than they and the mark.

**Onboarding_proofs**: a call that writes a number down has it from SAP
(`CallsHaveSapsNumber`), hence `NumbersAreSaps`; SAP has one customer per GSTIN and
per number (`CustomersDiffer`) and an approved row has a number of its own
(`ApprovedHasNumber`), hence `GstinApprovedOnce`, whatever calls overlap: it is about
the GSTIN of the customer, as that of the row may be overwritten by a stale save.
On an undisturbed application what a call has read is still so when it writes
(`CallFits`), hence `QuietReviewIsSound`; of two such that are past the guard the pair
is in `twins` (`TwinInv`), hence `DuplicatesAreTwins`.

Only model-checked: the six liveness properties (`EveryEventDelivered`,
`EveryFactTakesEffect`, `ChargedIsPosted`, `OverdueIsFlagged`, `DiscrepancyIsChased`,
`DecisionIsTold`), as temporal reasoning under fairness and ENABLED is out of the
prover's reach.

## 5. Plan

What is left, the most consequential first:

1. The book of SalesOrders and the fan-out as abstract specifications of their own,
   with the refinement proved as for `PaymentPromise`.
2. `Allocations`: `validateAllocations` in cents against the posting's own check.
3. `RebateSettlement`, a claim that SAP settles and the portal records.
4. Pure modules: tenant scoping of a query, the rate limiter, the SLA clock.
5. Comments and assignment in `SupportDesk`, with the notifications they cause.

## 6. Not modelled

The screens, route guards and UI kit, which are by far most of the repository's
lines; the demo `frontend/`, which repeats them with fixtures; reads of SAP that
keep no state (catalogue, customer, invoice, reporting) and their cache; tokens and
passwords; single-row administration of tenants and users; the drivers of external
services beyond what the models above assume of them; the exact ages at which an
exception counts as stuck (the model lets reconciliation act at once, which only
adds behaviours); amounts below the unit of an item; rebates.
