------------------------------ MODULE Payment ------------------------------
(***************************************************************************)
(* The life of a payment in the portal's database, against a gateway that  *)
(* delivers webhooks at least once and in any order and a SAP that posts   *)
(* once per gateway reference: packages/services/payment/src/              *)
(* payment-service.ts, with the states of packages/domain/src/entities/    *)
(* payment.ts, the worker's payment.captured handler and the sweep of      *)
(* packages/workers/src/reconciliation.ts.                                 *)
(*                                                                         *)
(* Each process is one call in flight.  It is split where the code awaits: *)
(* a read of the row, a call to the gateway or to SAP, and a transaction   *)
(* are separate steps, and every write is by id, whatever the row has      *)
(* become since it was read.                                               *)
(***************************************************************************)
EXTENDS Naturals, FiniteSetsExt

CONSTANTS
  Payments,    \* payment ids; each is initiated by at most one request
  Items,       \* open items in SAP: numbers, in the order of an allocation
  OpenAmount,  \* OpenAmount[i]: what is open on item i at first
  Alloc,       \* Alloc[p][i]: what payment p settles of item i
  Web,         \* portal processes: requests of customers and webhooks
  Desk,        \* reconciling processes: the nightly worker, the tray's retry
  Bus,         \* queue workers that run the payment.captured handler
  None,        \* no payment
  Retryable,   \* may a customer pay an attempt that was declined before?
  Eager,       \* may the gateway charge before the checkout URL is returned?
  MaxFaults    \* bound: failed or unanswered calls, and crashes

Procs == Web \union Desk \union Bus

ASSUME PaymentAssumption ==
  /\ Items \subseteq Nat
  /\ OpenAmount \in [Items -> Nat]
  /\ Alloc \in [Payments -> [Items -> Nat]]
  /\ None \notin Payments
  /\ Retryable \in BOOLEAN
  /\ Eager \in BOOLEAN
  /\ MaxFaults \in Nat

VARIABLES
  row,      \* row[p]: the portal's Payment row
  outbox,   \* outbox events written, <<name, payment>>, one per dedupe key
  gateway,  \* gateway[p]: what the gateway did with the attempt of p
  hooks,    \* webhooks the gateway has sent; any may arrive again, or never
  acked,    \* payments whose captured webhook was answered 2xx (history)
  sapDoc,   \* sapDoc[p]: FI document posted for the reference of p, 0 if none
  docs,     \* how many FI documents SAP has posted
  open,     \* open[i]: what is still open on item i
  proc,     \* proc[w]: the call process w is in
  faults    \* faults so far

vars == <<row, outbox, gateway, hooks, acked, sapDoc, docs, open, proc, faults>>

States == {"absent", "initiated", "captured", "posted", "failed"}
Types  == {"captured", "failed"}
Steps  == {"idle", "create", "order", "store", "close", "poll", "fail",
           "capture", "read", "sap", "record"}

Row  == [state : States, ref : BOOLEAN, lastEvent : Types \union {"none"}, fi : Nat]
Call == [pc : Steps, p : Payments \union {None}, ev : Types \union {"none"}, doc : Nat]
Idle == [pc |-> "idle", p |-> None, ev |-> "none", doc |-> 0]

TypeOK ==
  /\ row \in [Payments -> Row]
  /\ outbox \in SUBSET ({"captured", "posted"} \X Payments)
  /\ gateway \in [Payments -> {"none", "created", "captured", "failed"}]
  /\ hooks \in SUBSET (Types \X Payments)
  /\ acked \in SUBSET Payments
  /\ sapDoc \in [Payments -> Nat]
  /\ docs \in Nat
  /\ open \in [Items -> Nat]
  /\ proc \in [Procs -> Call]
  /\ faults \in Nat

Init ==
  /\ row = [p \in Payments |->
       [state |-> "absent", ref |-> FALSE, lastEvent |-> "none", fi |-> 0]]
  /\ outbox = {}
  /\ gateway = [p \in Payments |-> "none"]
  /\ hooks = {}
  /\ acked = {}
  /\ sapDoc = [p \in Payments |-> 0]
  /\ docs = 0
  /\ open = OpenAmount
  /\ proc = [w \in Procs |-> Idle]
  /\ faults = 0

----------------------------------------------------------------------------
(* Helpers                                                                 *)

\* Seeded fault: a state machine that forgot the capture.
CanTransitionWithoutCapture(from, to) ==
  \/ from = "initiated" /\ to = "failed"
  \/ from = "captured" /\ to = "posted"

\* Seeded fault: a failure is taken of a captured payment too.
CanTransitionBack(from, to) ==
  \/ from = "initiated" /\ to \in {"captured", "failed"}
  \/ from = "captured" /\ to \in {"posted", "failed"}

CanTransition(from, to) ==
  \/ from = "initiated" /\ to \in {"captured", "failed"}
  \/ from = "captured" /\ to = "posted"

Fits(p) == \A i \in Items : Alloc[p][i] <= open[i]

At(w, step) == proc[w].pc = step
Goto(w, step) == proc' = [proc EXCEPT ![w].pc = step]
Return(w) == proc' = [proc EXCEPT ![w] = Idle]
Start(w, step, p, ev) ==
  proc' = [proc EXCEPT ![w] = [pc |-> step, p |-> p, ev |-> ev, doc |-> 0]]

\* a webhook call for a capture answers 2xx
Ack(w) ==
  acked' = IF w \in Web /\ proc[w].ev = "captured"
           THEN acked \union {proc[w].p} ELSE acked

Fault == faults < MaxFaults /\ faults' = faults + 1

----------------------------------------------------------------------------
(* Seeded faults: wrong versions of the actions below.                     *)

\* A capture learnt by polling is recorded without its event.
RecordCaptureUnannounced(w) ==
  LET p == proc[w].p
      ev == proc[w].ev
  IN
  /\ At(w, "capture")
  /\ row' = [row EXCEPT ![p].state = "captured",
                        ![p].lastEvent = IF ev = "none" THEN @ ELSE ev]
  /\ outbox' = IF ev = "none" THEN outbox ELSE outbox \union {<<"captured", p>>}
  /\ Goto(w, "read")
  /\ UNCHANGED <<gateway, hooks, acked, sapDoc, docs, open, faults>>

\* SAP posts every call, with the check of the open amount and without it.
PostEveryCall(p) ==
  /\ Fits(p)
  /\ docs' = docs + 1
  /\ sapDoc' = [sapDoc EXCEPT ![p] = docs + 1]
  /\ open' = [i \in Items |-> open[i] - Alloc[p][i]]

PostUnchecked(p) ==
  /\ docs' = docs + 1
  /\ sapDoc' = [sapDoc EXCEPT ![p] = docs + 1]
  /\ open' = [i \in Items |-> open[i] - Alloc[p][i]]

\* A posting error is swallowed.
SapErrorSwallowed(w) ==
  /\ At(w, "sap")
  /\ Fault
  /\ Goto(w, "record")
  /\ UNCHANGED <<row, outbox, gateway, hooks, acked, sapDoc, docs, open>>

\* Only captured rows are reconciled.
ReconcileCapturedOnly(w, p) ==
  /\ At(w, "idle")
  /\ row[p].state = "captured" /\ Start(w, "read", p, "none")
  /\ UNCHANGED <<row, outbox, gateway, hooks, acked, sapDoc, docs, open, faults>>

\* Any answer but "failed" is taken for a capture.
PollTrusting(w) ==
  LET status == gateway[proc[w].p] IN
  /\ At(w, "poll")
  /\ Goto(w, IF status = "failed" THEN "fail" ELSE "capture")
  /\ UNCHANGED <<row, outbox, gateway, hooks, acked, sapDoc, docs, open, faults>>

----------------------------------------------------------------------------
(* initiatePayment                                                         *)

\* listPayableItems and validateAllocations: nothing reserves the items.
Validate(w, p) ==
  /\ At(w, "idle")
  /\ row[p].state = "absent" /\ \A v \in Web : proc[v].p # p
  /\ Fits(p)
  /\ Start(w, "create", p, "none")
  /\ UNCHANGED <<row, outbox, gateway, hooks, acked, sapDoc, docs, open, faults>>

Create(w) ==
  /\ At(w, "create")
  /\ row' = [row EXCEPT ![proc[w].p].state = "initiated"]
  /\ Goto(w, "order")
  /\ UNCHANGED <<outbox, gateway, hooks, acked, sapDoc, docs, open, faults>>

CreateOrder(w) ==
  /\ At(w, "order")
  /\ gateway' = [gateway EXCEPT ![proc[w].p] = "created"]
  /\ Goto(w, "store")
  /\ UNCHANGED <<row, outbox, hooks, acked, sapDoc, docs, open, faults>>

\* Refused, or a timeout of a call that did reach the gateway.
CreateOrderFails(w) ==
  /\ At(w, "order")
  /\ Fault
  /\ \E reached \in {"none", "created"} :
       gateway' = [gateway EXCEPT ![proc[w].p] = reached]
  /\ Goto(w, "close")
  /\ UNCHANGED <<row, outbox, hooks, acked, sapDoc, docs, open>>

\* The row of an attempt that "never reached the gateway" is closed.
Close(w) ==
  /\ At(w, "close")
  /\ row' = [row EXCEPT ![proc[w].p].state = "failed"]
  /\ Return(w)
  /\ UNCHANGED <<outbox, gateway, hooks, acked, sapDoc, docs, open, faults>>

\* The reference is stored, and the checkout URL goes to the customer.
StoreReference(w) ==
  /\ At(w, "store")
  /\ row' = [row EXCEPT ![proc[w].p].ref = TRUE]
  /\ Return(w)
  /\ UNCHANGED <<outbox, gateway, hooks, acked, sapDoc, docs, open, faults>>

InitiatePayment(w) ==
  \/ \E p \in Payments : Validate(w, p)
  \/ Create(w) \/ CreateOrder(w) \/ CreateOrderFails(w)
  \/ Close(w) \/ StoreReference(w)

----------------------------------------------------------------------------
(* The gateway and its customer (external).  A payment.pending webhook     *)
(* changes nothing and is left out.                                        *)

CanPay(p) ==
  /\ gateway[p] = "created" \/ (Retryable /\ gateway[p] = "failed")
  /\ row[p].ref \/ Eager

GatewayCaptures(p) ==
  /\ CanPay(p)
  /\ gateway' = [gateway EXCEPT ![p] = "captured"]
  /\ hooks' = hooks \union {<<"captured", p>>}
  /\ UNCHANGED <<row, outbox, acked, sapDoc, docs, open, proc, faults>>

GatewayDeclines(p) ==
  /\ CanPay(p)
  /\ gateway' = [gateway EXCEPT ![p] = "failed"]
  /\ hooks' = hooks \union {<<"failed", p>>}
  /\ UNCHANGED <<row, outbox, acked, sapDoc, docs, open, proc, faults>>

----------------------------------------------------------------------------
(* handleGatewayWebhook                                                    *)

\* A webhook for a reference no row has is acknowledged and dropped.
ReceiveUnknown(w, ev, p) ==
  /\ At(w, "idle")
  /\ <<ev, p>> \in hooks
  /\ ~row[p].ref
  /\ acked' = IF ev = "captured" THEN acked \union {p} ELSE acked
  /\ UNCHANGED <<row, outbox, gateway, hooks, sapDoc, docs, open, proc, faults>>

\* The row is read, and the whole course of the call decided on what it says:
\* a replay and a refused failure return; a capture is recorded if the row
\* may still be captured, and posted in any case.
Receive(w, ev, p) ==
  LET fresh == row[p].lastEvent # ev IN
  /\ At(w, "idle")
  /\ <<ev, p>> \in hooks
  /\ row[p].ref
  /\ \/ /\ ~fresh
        /\ acked' = IF ev = "captured" THEN acked \union {p} ELSE acked
        /\ UNCHANGED proc
     \/ /\ fresh /\ ev = "failed"
        /\ CanTransition(row[p].state, "failed")
        /\ Start(w, "fail", p, ev)
        /\ UNCHANGED acked
     \/ /\ fresh /\ ev = "captured"
        /\ Start(w, IF CanTransition(row[p].state, "captured")
                    THEN "capture" ELSE "read", p, ev)
        /\ UNCHANGED acked
  /\ UNCHANGED <<row, outbox, gateway, hooks, sapDoc, docs, open, faults>>

\* A failure, from a webhook or from a poll.
RecordFailure(w) ==
  LET ev == proc[w].ev IN
  /\ At(w, "fail")
  /\ row' = [row EXCEPT ![proc[w].p].state = "failed",
                        ![proc[w].p].lastEvent = IF ev = "none" THEN @ ELSE ev]
  /\ Return(w)
  /\ UNCHANGED <<outbox, gateway, hooks, acked, sapDoc, docs, open, faults>>

\* One transaction: the state and the payment.captured event.
RecordCapture(w) ==
  LET p == proc[w].p
      ev == proc[w].ev
  IN
  /\ At(w, "capture")
  /\ row' = [row EXCEPT ![p].state = "captured",
                        ![p].lastEvent = IF ev = "none" THEN @ ELSE ev]
  /\ outbox' = outbox \union {<<"captured", p>>}
  /\ Goto(w, "read")
  /\ UNCHANGED <<gateway, hooks, acked, sapDoc, docs, open, faults>>

----------------------------------------------------------------------------
(* postCapturedPayment                                                     *)

\* Only a captured payment is posted; for any other the call returns.
ReadForPosting(w) ==
  /\ At(w, "read")
  /\ IF row[proc[w].p].state = "captured"
     THEN Goto(w, "sap") /\ UNCHANGED acked
     ELSE Return(w) /\ Ack(w)
  /\ UNCHANGED <<row, outbox, gateway, hooks, sapDoc, docs, open, faults>>

\* postIncomingPayment: at most one FI document per gateway reference.
PostInSap(p) ==
  /\ sapDoc[p] # 0 \/ Fits(p)
  /\ IF sapDoc[p] # 0
     THEN UNCHANGED <<sapDoc, docs, open>>
     ELSE /\ docs' = docs + 1
          /\ sapDoc' = [sapDoc EXCEPT ![p] = docs + 1]
          /\ open' = [i \in Items |-> open[i] - Alloc[p][i]]

SapPosts(w) ==
  /\ At(w, "sap")
  /\ PostInSap(proc[w].p)
  /\ proc' = [proc EXCEPT ![w].pc = "record", ![w].doc = sapDoc'[proc[w].p]]
  /\ UNCHANGED <<row, outbox, gateway, hooks, acked, faults>>

\* An item no longer has the amount open.  The driver has by then reduced
\* the items before it.  To the gateway a posting that failed is a 200
\* all the same: reconciliation owns the payment from here.
SapRejects(w) ==
  LET p == proc[w].p
      bad == {i \in Items : Alloc[p][i] > open[i]}
  IN
  /\ At(w, "sap")
  /\ sapDoc[p] = 0 /\ bad # {}
  /\ open' = [i \in Items |->
       IF \A b \in bad : i < b THEN open[i] - Alloc[p][i] ELSE open[i]]
  /\ Ack(w)
  /\ Return(w)
  /\ UNCHANGED <<row, outbox, gateway, hooks, sapDoc, docs, faults>>

\* SAP is down, or its answer is lost after it posted.
SapUnavailable(w) ==
  /\ At(w, "sap")
  /\ Fault
  /\ PostInSap(proc[w].p) \/ UNCHANGED <<sapDoc, docs, open>>
  /\ Ack(w)
  /\ Return(w)
  /\ UNCHANGED <<row, outbox, gateway, hooks>>

\* One transaction: the state, the document and the payment.posted event.
RecordPosting(w) ==
  LET p == proc[w].p IN
  /\ At(w, "record")
  /\ row' = [row EXCEPT ![p].state = "posted", ![p].fi = proc[w].doc]
  /\ outbox' = outbox \union {<<"posted", p>>}
  /\ Ack(w)
  /\ Return(w)
  /\ UNCHANGED <<gateway, hooks, sapDoc, docs, open, faults>>

PostCapturedPayment(w) ==
  ReadForPosting(w) \/ SapPosts(w) \/ SapRejects(w) \/ RecordPosting(w)

----------------------------------------------------------------------------
(* reconcilePayment, and the payment.captured handler                      *)

\* Only a captured row, or an initiated one with a reference, is an exception.
Reconcile(w, p) ==
  /\ At(w, "idle")
  /\ \/ row[p].state = "captured" /\ Start(w, "read", p, "none")
     \/ row[p].state = "initiated" /\ row[p].ref /\ Start(w, "poll", p, "none")
  /\ UNCHANGED <<row, outbox, gateway, hooks, acked, sapDoc, docs, open, faults>>

\* getPayment: what it answers decides, on the row as it was read before.
Poll(w) ==
  LET status == gateway[proc[w].p] IN
  /\ At(w, "poll")
  /\ CASE status = "captured" -> Goto(w, "capture")
       [] status = "failed"   -> Goto(w, "fail")
       [] OTHER               -> Return(w)
  /\ UNCHANGED <<row, outbox, gateway, hooks, acked, sapDoc, docs, open, faults>>

HandleCaptured(w, p) ==
  /\ At(w, "idle")
  /\ <<"captured", p>> \in outbox
  /\ Start(w, "read", p, "none")
  /\ UNCHANGED <<row, outbox, gateway, hooks, acked, sapDoc, docs, open, faults>>

\* The process dies, or a database call throws out of the call.
Die(w) ==
  /\ ~At(w, "idle")
  /\ Fault
  /\ Return(w)
  /\ UNCHANGED <<row, outbox, gateway, hooks, acked, sapDoc, docs, open>>

----------------------------------------------------------------------------

\* The steps of a call once it has started.
Continue(w) ==
  \/ Create(w) \/ CreateOrder(w) \/ Close(w) \/ StoreReference(w)
  \/ RecordFailure(w) \/ RecordCapture(w) \/ Poll(w)
  \/ PostCapturedPayment(w)

Next ==
  \/ \E w \in Web : \/ InitiatePayment(w)
                   \/ \E ev \in Types, p \in Payments :
                        Receive(w, ev, p) \/ ReceiveUnknown(w, ev, p)
  \/ \E w \in Desk, p \in Payments : Reconcile(w, p)
  \/ \E w \in Bus, p \in Payments : HandleCaptured(w, p)
  \/ \E w \in Procs : \/ RecordFailure(w) \/ RecordCapture(w) \/ Poll(w)
                     \/ PostCapturedPayment(w) \/ SapUnavailable(w) \/ Die(w)
  \/ \E p \in Payments : GatewayCaptures(p) \/ GatewayDeclines(p)

Spec == Init /\ [][Next]_vars

\* A call in flight goes on, and the reconciliation loop keeps coming back
\* to every exception.  Webhooks and queue jobs may never arrive, and a
\* customer may never pay.
Fairness ==
  /\ \A w \in Procs : WF_vars(Continue(w))
  /\ \A w \in Desk, p \in Payments : SF_vars(Reconcile(w, p))

FairSpec == Spec /\ Fairness

----------------------------------------------------------------------------
(* Properties                                                              *)

\* The customer is told "payment confirmed", and the row names an FI document,
\* only for a posting SAP has made: a receipt never outruns SAP
\* (postCapturedPayment).
ReceiptHasPosting ==
  \A p \in Payments :
    \/ <<"posted", p>> \notin outbox /\ row[p].state # "posted" /\ row[p].fi = 0
    \/ <<"posted", p>> \in outbox /\ sapDoc[p] # 0 /\ row[p].fi = sapDoc[p]

\* SAP is only ever told of money the gateway took: no race of webhooks,
\* polls and retries clears an item for a payment that was not captured.
PostedMoneyWasTaken ==
  \A p \in Payments : sapDoc[p] # 0 => gateway[p] = "captured"

\* One FI document per payment, and the open items are down by exactly what
\* the posted payments allocate, however often a posting was retried.
\* (For payments that together fit the items.)
Posted == {p \in Payments : sapDoc[p] # 0}
ItemsClearedOnce ==
  /\ docs = Cardinality(Posted)
  /\ \A i \in Items :
       OpenAmount[i] = open[i] + MapThenSumSet(LAMBDA p : Alloc[p][i], Posted)

\* A payment that is captured or posted always has its payment.captured event
\* in the outbox, so a queue worker will try to post it.
CaptureIsAnnounced ==
  \A p \in Payments :
    row[p].state \in {"captured", "posted"} => <<"captured", p>> \in outbox

\* Once the gateway's word that it took the money was answered 2xx, the row
\* says so: the gateway will not tell again.
AckedCaptureIsRecorded ==
  \A p \in acked : row[p].state \in {"captured", "posted"}

\* No call decides that a payment failed, or closes it, once the row says that
\* the money was taken: neither a webhook that comes late nor what a poll
\* answers.  Only a decision from before the capture can still be written.
NoFailureAfterCapture ==
  [][\A w \in Procs :
       proc'[w].pc \in {"fail", "close"} /\ proc'[w] # proc[w] =>
         row[proc'[w].p].state \notin {"captured", "posted"}]_vars

\* A captured payment "is never rolled back to `failed`" (payment-service.ts:42):
\* it is, by the write of a decision from before the capture.
\* This does not hold (README, "What the code does not promise").
CaptureNeverFails ==
  [][\A p \in Payments :
       row[p].state \in {"captured", "posted"} => row'[p].state # "failed"]_vars

\* The state machine is linear (payment.ts:16, NEXT): a posted payment moves
\* to no other state.
\* This does not hold (README, "What the code does not promise").
PostedIsFinal ==
  [][\A p \in Payments : row[p].state = "posted" => row'[p].state = "posted"]_vars

\* The document a receipt names is never replaced by another.
ReceiptNeverChanges ==
  [][\A p \in Payments : row[p].fi # 0 => row'[p].fi = row[p].fi]_vars

\* The portal keeps the promise of payments: SAP makes one document, of a
\* number of its own, for money the gateway took, and the customer is told
\* once, with that document, which no retry, late poll or second webhook
\* replaces or takes back (payment-service.ts, the rules at its head).
Promise == INSTANCE PaymentPromise
  WITH charged  <- {p \in Payments : gateway[p] = "captured"},
       document <- sapDoc,
       receipt  <- [p \in Payments |-> row[p].fi],
       told     <- {p \in Payments : <<"posted", p>> \in outbox}

KeepsPromise == Promise!Spec

\* "Paying it twice is exactly the failure this ordering prevents"
\* (initiatePayment): the gateway never takes more than was open on an item.
\* This does not hold (README, "What the code does not promise").
NoItemPaidTwice ==
  \A i \in Items :
    MapThenSumSet(LAMBDA p : Alloc[p][i], {p \in Payments : gateway[p] = "captured"})
      <= OpenAmount[i]

\* Money the gateway took under a stored reference ends up posted in SAP, and
\* the row stays posted: with no webhook and no queue job ever arriving, the
\* reconciliation alone gets it there.
ChargedIsPosted ==
  \A p \in Payments :
    gateway[p] = "captured" ~> [](row[p].state = "posted")
============================================================================
