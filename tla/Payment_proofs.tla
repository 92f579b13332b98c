--------------------------- MODULE Payment_proofs ---------------------------
(***************************************************************************)
(* Theorems about Payment, for any payments, items, amounts and processes. *)
(* The invariant follows the money backwards: what SAP posted was captured *)
(* by the gateway, because only an announced capture is posted, because    *)
(* only a webhook or a poll of a captured attempt announces one, because   *)
(* no process can start an attempt of a payment over.                      *)
(***************************************************************************)
EXTENDS Payment, FiniteSetTheorems, TLAPS

\* A call in flight is about a payment.
CallsNamePayments == \A w \in Procs : proc[w].pc # "idle" => proc[w].p \in Payments

\* The steps of initiatePayment after its validation.
Opening == {"create", "order", "store", "close"}

\* One request initiates a payment.
OneRequest ==
  \A w \in Procs : proc[w].pc \in Opening =>
    /\ w \in Web
    /\ \A v \in Procs : proc[v].pc \in Opening /\ proc[v].p = proc[w].p => v = w

\* Before its row exists nobody but that request knows of a payment, and
\* before the order is placed neither does the gateway.
NothingBeforeTheRow ==
  /\ \A p \in Payments : row[p].state = "absent" =>
       /\ ~row[p].ref /\ gateway[p] = "none"
       /\ <<"captured", p>> \notin outbox
       /\ \A w \in Procs : proc[w].p = p /\ proc[w].pc # "idle" => proc[w].pc = "create"
  /\ \A w \in Procs : proc[w].pc = "create" => row[proc[w].p].state = "absent"
  /\ \A w \in Procs : proc[w].pc = "order" => gateway[proc[w].p] = "none"

\* Whoever says that a payment was captured is right.
Taken(p) == gateway[p] = "captured"
WordOfCapture ==
  /\ \A p \in Payments : <<"captured", p>> \in outbox \union hooks => Taken(p)
  /\ \A w \in Procs : proc[w].pc = "capture" => Taken(proc[w].p)

\* Only an announced capture is recorded or on its way through SAP.
CaptureInv ==
  /\ CaptureIsAnnounced
  /\ \A w \in Procs : proc[w].pc \in {"sap", "record"} =>
       <<"captured", proc[w].p>> \in outbox

\* What a call is about to record is SAP's document.
ReceiptInv ==
  /\ ReceiptHasPosting
  /\ \A w \in Procs : proc[w].pc = "record" =>
       proc[w].doc # 0 /\ proc[w].doc = sapDoc[proc[w].p]

Inv ==
  /\ TypeOK /\ CallsNamePayments
  /\ OneRequest
  /\ NothingBeforeTheRow
  /\ WordOfCapture
  /\ CaptureInv
  /\ PostedMoneyWasTaken
  /\ ReceiptInv

----------------------------------------------------------------------------
(* What each step does, value by value.                                    *)

\* The call of w is now at step s of payment p; no other call has moved.
CallTo(w, s, p, ev, doc) ==
  /\ proc' \in [Procs -> Call]
  /\ proc'[w].pc = s /\ proc'[w].p = p /\ proc'[w].ev = ev /\ proc'[w].doc = doc
  /\ \A v \in Procs : v # w => proc'[v] = proc[v]

\* The row of p now reads so; no other row has changed.
RowTo(p, s, ref, ev, fi) ==
  /\ row' \in [Payments -> Row]
  /\ row'[p].state = s /\ (row'[p].ref <=> ref) /\ row'[p].lastEvent = ev /\ row'[p].fi = fi
  /\ \A x \in Payments : x # p => row'[x] = row[x]

CallsTyped == proc \in [Procs -> Call]

LEMMA GotoDoes ==
  ASSUME CallsTyped, NEW w \in Procs, NEW s \in Steps, Goto(w, s)
  PROVE  CallTo(w, s, proc[w].p, proc[w].ev, proc[w].doc)
<1>1. proc[w] \in Call
  BY DEF CallsTyped
<1>2. [proc[w] EXCEPT !.pc = s] \in Call
  BY <1>1 DEF Call
<1>3. proc' = [proc EXCEPT ![w] = [proc[w] EXCEPT !.pc = s]]
  BY DEF Goto
<1> QED
  BY <1>1, <1>2, <1>3 DEF CallsTyped, CallTo, Call

LEMMA ReturnDoes ==
  ASSUME CallsTyped, NEW w \in Procs, Return(w)
  PROVE  CallTo(w, "idle", None, "none", 0)
BY DEF CallsTyped, Return, CallTo, Call, Idle, Steps

LEMMA StartDoes ==
  ASSUME CallsTyped, NEW w \in Procs, NEW s \in Steps, NEW p \in Payments,
         NEW ev \in Types \union {"none"}, Start(w, s, p, ev)
  PROVE  CallTo(w, s, p, ev, 0)
BY DEF CallsTyped, Start, CallTo, Call

LEMMA RowFields ==
  ASSUME NEW r \in Row
  PROVE  /\ r.state \in States /\ r.ref \in BOOLEAN
         /\ r.lastEvent \in Types \union {"none"} /\ r.fi \in Nat
BY DEF Row

LEMMA RowWritten ==
  ASSUME row \in [Payments -> Row], NEW p \in Payments, NEW new \in Row,
         row' = [row EXCEPT ![p] = new]
  PROVE  RowTo(p, new.state, new.ref, new.lastEvent, new.fi)
BY DEF RowTo

Typed == TypeOK /\ CallsNamePayments

LEMMA CallFields ==
  ASSUME Typed, NEW w \in Procs
  PROVE  /\ proc[w] \in Call /\ proc[w].pc \in Steps /\ proc[w].doc \in Nat
         /\ proc[w].ev \in Types \union {"none"} /\ proc[w].p \in Payments \union {None}
         /\ proc[w].pc # "idle" => proc[w].p \in Payments
         /\ CallsTyped
BY DEF Typed, TypeOK, Call, CallsNamePayments, CallsTyped

\* The last event of a row when a call with this event writes it.
Heard(p, ev) == IF ev = "none" THEN row[p].lastEvent ELSE ev

LEMMA CreateDoes ==
  ASSUME Typed, NEW w \in Procs, NEW p, p = proc[w].p, Create(w)
  PROVE  /\ proc[w].pc = "create" /\ p \in Payments
         /\ RowTo(p, "initiated", row[p].ref, row[p].lastEvent, row[p].fi)
         /\ CallTo(w, "order", p, proc[w].ev, proc[w].doc)
         /\ UNCHANGED <<outbox, gateway, hooks, acked, sapDoc, docs, open, faults>>
<1>1. proc[w].pc = "create"
  BY DEF Create, At
<1>2. p \in Payments /\ proc[w].doc \in Nat /\ proc[w].ev \in Types \union {"none"} /\ CallsTyped
  BY <1>1, CallFields
<1>3. row \in [Payments -> Row] /\ row[p] \in Row
  BY <1>2 DEF Typed, TypeOK
<1>4. /\ row[p].state \in States /\ row[p].ref \in BOOLEAN
      /\ row[p].lastEvent \in Types \union {"none"} /\ row[p].fi \in Nat
  BY <1>3, RowFields
<1>5. Heard(p, proc[w].ev) \in Types \union {"none"}
  BY <1>2, <1>4 DEF Heard
<1>6. row' = [row EXCEPT ![p] = [row[p] EXCEPT !.state = "initiated"]]
  BY <1>3 DEF Create, Heard
<1>7. LET y == [row[p] EXCEPT !.state = "initiated"]
      IN  /\ y \in Row
          /\ y.state = "initiated" /\ y.ref = row[p].ref /\ y.lastEvent = row[p].lastEvent /\ y.fi = row[p].fi
  <2>1. "initiated" \in States
    BY <1>4 DEF States
  <2>2. [row[p] EXCEPT !.state = "initiated"] \in Row
    BY ONLY <1>2, <1>3, <1>5, <2>1, Zenon DEF Row
  <2>3. DOMAIN row[p] = {"state", "ref", "lastEvent", "fi"}
    BY <1>3 DEF Row
  <2> QED
    BY ONLY <2>2, <2>3
<1>8. RowTo(p, "initiated", row[p].ref, row[p].lastEvent, row[p].fi)
  BY <1>2, <1>3, <1>6, <1>7, RowWritten
<1>9. CallTo(w, "order", p, proc[w].ev, proc[w].doc)
  BY <1>2, GotoDoes DEF Create, Steps
<1> QED
  BY <1>1, <1>2, <1>8, <1>9 DEF Create

LEMMA CloseDoes ==
  ASSUME Typed, NEW w \in Procs, NEW p, p = proc[w].p, Close(w)
  PROVE  /\ proc[w].pc = "close" /\ p \in Payments
         /\ RowTo(p, "failed", row[p].ref, row[p].lastEvent, row[p].fi)
         /\ CallTo(w, "idle", None, "none", 0)
         /\ UNCHANGED <<outbox, gateway, hooks, acked, sapDoc, docs, open, faults>>
<1>1. proc[w].pc = "close"
  BY DEF Close, At
<1>2. p \in Payments /\ proc[w].doc \in Nat /\ proc[w].ev \in Types \union {"none"} /\ CallsTyped
  BY <1>1, CallFields
<1>3. row \in [Payments -> Row] /\ row[p] \in Row
  BY <1>2 DEF Typed, TypeOK
<1>4. /\ row[p].state \in States /\ row[p].ref \in BOOLEAN
      /\ row[p].lastEvent \in Types \union {"none"} /\ row[p].fi \in Nat
  BY <1>3, RowFields
<1>5. Heard(p, proc[w].ev) \in Types \union {"none"}
  BY <1>2, <1>4 DEF Heard
<1>6. row' = [row EXCEPT ![p] = [row[p] EXCEPT !.state = "failed"]]
  BY <1>3 DEF Close, Heard
<1>7. LET y == [row[p] EXCEPT !.state = "failed"]
      IN  /\ y \in Row
          /\ y.state = "failed" /\ y.ref = row[p].ref /\ y.lastEvent = row[p].lastEvent /\ y.fi = row[p].fi
  <2>1. "failed" \in States
    BY <1>4 DEF States
  <2>2. [row[p] EXCEPT !.state = "failed"] \in Row
    BY ONLY <1>2, <1>3, <1>5, <2>1, Zenon DEF Row
  <2>3. DOMAIN row[p] = {"state", "ref", "lastEvent", "fi"}
    BY <1>3 DEF Row
  <2> QED
    BY ONLY <2>2, <2>3
<1>8. RowTo(p, "failed", row[p].ref, row[p].lastEvent, row[p].fi)
  BY <1>2, <1>3, <1>6, <1>7, RowWritten
<1>9. CallTo(w, "idle", None, "none", 0)
  BY <1>2, ReturnDoes DEF Close, Steps
<1> QED
  BY <1>1, <1>2, <1>8, <1>9 DEF Close

LEMMA StoreReferenceDoes ==
  ASSUME Typed, NEW w \in Procs, NEW p, p = proc[w].p, StoreReference(w)
  PROVE  /\ proc[w].pc = "store" /\ p \in Payments
         /\ RowTo(p, row[p].state, TRUE, row[p].lastEvent, row[p].fi)
         /\ CallTo(w, "idle", None, "none", 0)
         /\ UNCHANGED <<outbox, gateway, hooks, acked, sapDoc, docs, open, faults>>
<1>1. proc[w].pc = "store"
  BY DEF StoreReference, At
<1>2. p \in Payments /\ proc[w].doc \in Nat /\ proc[w].ev \in Types \union {"none"} /\ CallsTyped
  BY <1>1, CallFields
<1>3. row \in [Payments -> Row] /\ row[p] \in Row
  BY <1>2 DEF Typed, TypeOK
<1>4. /\ row[p].state \in States /\ row[p].ref \in BOOLEAN
      /\ row[p].lastEvent \in Types \union {"none"} /\ row[p].fi \in Nat
  BY <1>3, RowFields
<1>5. Heard(p, proc[w].ev) \in Types \union {"none"}
  BY <1>2, <1>4 DEF Heard
<1>6. row' = [row EXCEPT ![p] = [row[p] EXCEPT !.ref = TRUE]]
  BY <1>3 DEF StoreReference, Heard
<1>7. LET y == [row[p] EXCEPT !.ref = TRUE]
      IN  /\ y \in Row
          /\ y.state = row[p].state /\ y.ref = TRUE /\ y.lastEvent = row[p].lastEvent /\ y.fi = row[p].fi
  <2>1. row[p].state \in States
    BY <1>4 DEF States
  <2>2. [row[p] EXCEPT !.ref = TRUE] \in Row
    BY ONLY <1>2, <1>3, <1>5, <2>1, Zenon DEF Row
  <2>3. DOMAIN row[p] = {"state", "ref", "lastEvent", "fi"}
    BY <1>3 DEF Row
  <2> QED
    BY ONLY <2>2, <2>3
<1>8. RowTo(p, row[p].state, TRUE, row[p].lastEvent, row[p].fi)
  BY <1>2, <1>3, <1>6, <1>7, RowWritten
<1>9. CallTo(w, "idle", None, "none", 0)
  BY <1>2, ReturnDoes DEF StoreReference, Steps
<1> QED
  BY <1>1, <1>2, <1>8, <1>9 DEF StoreReference

LEMMA RecordFailureDoes ==
  ASSUME Typed, NEW w \in Procs, NEW p, p = proc[w].p, RecordFailure(w)
  PROVE  /\ proc[w].pc = "fail" /\ p \in Payments
         /\ RowTo(p, "failed", row[p].ref, Heard(p, proc[w].ev), row[p].fi)
         /\ CallTo(w, "idle", None, "none", 0)
         /\ UNCHANGED <<outbox, gateway, hooks, acked, sapDoc, docs, open, faults>>
<1>1. proc[w].pc = "fail"
  BY DEF RecordFailure, At
<1>2. p \in Payments /\ proc[w].doc \in Nat /\ proc[w].ev \in Types \union {"none"} /\ CallsTyped
  BY <1>1, CallFields
<1>3. row \in [Payments -> Row] /\ row[p] \in Row
  BY <1>2 DEF Typed, TypeOK
<1>4. /\ row[p].state \in States /\ row[p].ref \in BOOLEAN
      /\ row[p].lastEvent \in Types \union {"none"} /\ row[p].fi \in Nat
  BY <1>3, RowFields
<1>5. Heard(p, proc[w].ev) \in Types \union {"none"}
  BY <1>2, <1>4 DEF Heard
<1>6. row' = [row EXCEPT ![p] = [row[p] EXCEPT !.state = "failed", !.lastEvent = Heard(p, proc[w].ev)]]
  BY <1>3 DEF RecordFailure, Heard
<1>7. LET y == [row[p] EXCEPT !.state = "failed", !.lastEvent = Heard(p, proc[w].ev)]
      IN  /\ y \in Row
          /\ y.state = "failed" /\ y.ref = row[p].ref /\ y.lastEvent = Heard(p, proc[w].ev) /\ y.fi = row[p].fi
  <2>1. "failed" \in States
    BY <1>4 DEF States
  <2>2. [row[p] EXCEPT !.state = "failed", !.lastEvent = Heard(p, proc[w].ev)] \in Row
    BY ONLY <1>2, <1>3, <1>5, <2>1, Zenon DEF Row
  <2>3. DOMAIN row[p] = {"state", "ref", "lastEvent", "fi"}
    BY <1>3 DEF Row
  <2> QED
    BY ONLY <2>2, <2>3
<1>8. RowTo(p, "failed", row[p].ref, Heard(p, proc[w].ev), row[p].fi)
  BY <1>2, <1>3, <1>6, <1>7, RowWritten
<1>9. CallTo(w, "idle", None, "none", 0)
  BY <1>2, ReturnDoes DEF RecordFailure, Steps
<1> QED
  BY <1>1, <1>2, <1>8, <1>9 DEF RecordFailure

LEMMA RecordCaptureDoes ==
  ASSUME Typed, NEW w \in Procs, NEW p, p = proc[w].p, RecordCapture(w)
  PROVE  /\ proc[w].pc = "capture" /\ p \in Payments
         /\ RowTo(p, "captured", row[p].ref, Heard(p, proc[w].ev), row[p].fi)
         /\ CallTo(w, "read", p, proc[w].ev, proc[w].doc)
         /\ outbox' = outbox \union {<<"captured", p>>}
         /\ UNCHANGED <<gateway, hooks, acked, sapDoc, docs, open, faults>>
<1>1. proc[w].pc = "capture"
  BY DEF RecordCapture, At
<1>2. p \in Payments /\ proc[w].doc \in Nat /\ proc[w].ev \in Types \union {"none"} /\ CallsTyped
  BY <1>1, CallFields
<1>3. row \in [Payments -> Row] /\ row[p] \in Row
  BY <1>2 DEF Typed, TypeOK
<1>4. /\ row[p].state \in States /\ row[p].ref \in BOOLEAN
      /\ row[p].lastEvent \in Types \union {"none"} /\ row[p].fi \in Nat
  BY <1>3, RowFields
<1>5. Heard(p, proc[w].ev) \in Types \union {"none"}
  BY <1>2, <1>4 DEF Heard
<1>6. row' = [row EXCEPT ![p] = [row[p] EXCEPT !.state = "captured", !.lastEvent = Heard(p, proc[w].ev)]]
  BY <1>3 DEF RecordCapture, Heard
<1>7. LET y == [row[p] EXCEPT !.state = "captured", !.lastEvent = Heard(p, proc[w].ev)]
      IN  /\ y \in Row
          /\ y.state = "captured" /\ y.ref = row[p].ref /\ y.lastEvent = Heard(p, proc[w].ev) /\ y.fi = row[p].fi
  <2>1. "captured" \in States
    BY <1>4 DEF States
  <2>2. [row[p] EXCEPT !.state = "captured", !.lastEvent = Heard(p, proc[w].ev)] \in Row
    BY ONLY <1>2, <1>3, <1>5, <2>1, Zenon DEF Row
  <2>3. DOMAIN row[p] = {"state", "ref", "lastEvent", "fi"}
    BY <1>3 DEF Row
  <2> QED
    BY ONLY <2>2, <2>3
<1>8. RowTo(p, "captured", row[p].ref, Heard(p, proc[w].ev), row[p].fi)
  BY <1>2, <1>3, <1>6, <1>7, RowWritten
<1>9. CallTo(w, "read", p, proc[w].ev, proc[w].doc)
  BY <1>2, GotoDoes DEF RecordCapture, Steps
<1> QED
  BY <1>1, <1>2, <1>8, <1>9 DEF RecordCapture

LEMMA RecordPostingDoes ==
  ASSUME Typed, NEW w \in Procs, NEW p, p = proc[w].p, RecordPosting(w)
  PROVE  /\ proc[w].pc = "record" /\ p \in Payments
         /\ RowTo(p, "posted", row[p].ref, row[p].lastEvent, proc[w].doc)
         /\ CallTo(w, "idle", None, "none", 0)
         /\ outbox' = outbox \union {<<"posted", p>>}
         /\ Ack(w)
         /\ UNCHANGED <<gateway, hooks, sapDoc, docs, open, faults>>
<1>1. proc[w].pc = "record"
  BY DEF RecordPosting, At
<1>2. p \in Payments /\ proc[w].doc \in Nat /\ proc[w].ev \in Types \union {"none"} /\ CallsTyped
  BY <1>1, CallFields
<1>3. row \in [Payments -> Row] /\ row[p] \in Row
  BY <1>2 DEF Typed, TypeOK
<1>4. /\ row[p].state \in States /\ row[p].ref \in BOOLEAN
      /\ row[p].lastEvent \in Types \union {"none"} /\ row[p].fi \in Nat
  BY <1>3, RowFields
<1>5. Heard(p, proc[w].ev) \in Types \union {"none"}
  BY <1>2, <1>4 DEF Heard
<1>6. row' = [row EXCEPT ![p] = [row[p] EXCEPT !.state = "posted", !.fi = proc[w].doc]]
  BY <1>3 DEF RecordPosting, Heard
<1>7. LET y == [row[p] EXCEPT !.state = "posted", !.fi = proc[w].doc]
      IN  /\ y \in Row
          /\ y.state = "posted" /\ y.ref = row[p].ref /\ y.lastEvent = row[p].lastEvent /\ y.fi = proc[w].doc
  <2>1. "posted" \in States
    BY <1>4 DEF States
  <2>2. [row[p] EXCEPT !.state = "posted", !.fi = proc[w].doc] \in Row
    BY ONLY <1>2, <1>3, <1>5, <2>1, Zenon DEF Row
  <2>3. DOMAIN row[p] = {"state", "ref", "lastEvent", "fi"}
    BY <1>3 DEF Row
  <2> QED
    BY ONLY <2>2, <2>3
<1>8. RowTo(p, "posted", row[p].ref, row[p].lastEvent, proc[w].doc)
  BY <1>2, <1>3, <1>6, <1>7, RowWritten
<1>9. CallTo(w, "idle", None, "none", 0)
  BY <1>2, ReturnDoes DEF RecordPosting, Steps
<1> QED
  BY <1>1, <1>2, <1>8, <1>9 DEF RecordPosting

\* A posting takes off an item no more than is open on it.
LEMMA PostTyped ==
  ASSUME Typed, NEW p \in Payments, PostInSap(p)
  PROVE  sapDoc' \in [Payments -> Nat] /\ docs' \in Nat /\ open' \in [Items -> Nat]
<1>1. CASE sapDoc[p] # 0
  BY <1>1 DEF PostInSap, Typed, TypeOK
<1>2. CASE sapDoc[p] = 0
  <2>1. \A i \in Items : open[i] - Alloc[p][i] \in Nat
    <3>1. \A i \in Items : Alloc[p][i] <= open[i]
      BY <1>2 DEF PostInSap, Fits
    <3>2. \A i \in Items : Alloc[p][i] \in Nat /\ open[i] \in Nat
      BY PaymentAssumption DEF Typed, TypeOK
    <3> QED
      BY <3>1, <3>2
  <2> QED
    BY <1>2, <2>1 DEF PostInSap, Typed, TypeOK
<1> QED
  BY <1>1, <1>2

LEMMA ValidateDoes ==
  ASSUME Typed, NEW w \in Procs, NEW p \in Payments, Validate(w, p)
  PROVE  /\ proc[w].pc = "idle"
         /\ row[p].state = "absent" /\ \A v \in Web : proc[v].p # p
         /\ CallTo(w, "create", p, "none", 0)
         /\ UNCHANGED <<row, outbox, gateway, hooks, acked, sapDoc, docs, open, faults>>
<1>1. proc[w].pc = "idle"
  BY DEF Validate, At
<1> QED
  BY <1>1, CallFields, StartDoes DEF Validate, Steps

LEMMA CreateOrderDoes ==
  ASSUME Typed, NEW w \in Procs, CreateOrder(w)
  PROVE  /\ proc[w].pc = "order"
         /\ proc[w].p \in Payments
         /\ gateway' = [gateway EXCEPT ![proc[w].p] = "created"]
         /\ CallTo(w, "store", proc[w].p, proc[w].ev, proc[w].doc)
         /\ UNCHANGED <<row, outbox, hooks, acked, sapDoc, docs, open, faults>>
<1>1. proc[w].pc = "order"
  BY DEF CreateOrder, At
<1> QED
  BY <1>1, CallFields, GotoDoes DEF CreateOrder, Steps

LEMMA CreateOrderFailsDoes ==
  ASSUME Typed, NEW w \in Procs, CreateOrderFails(w)
  PROVE  /\ proc[w].pc = "order"
         /\ proc[w].p \in Payments
         /\ \E reached \in {"none", "created"} : gateway' = [gateway EXCEPT ![proc[w].p] = reached]
         /\ CallTo(w, "close", proc[w].p, proc[w].ev, proc[w].doc)
         /\ faults' \in Nat
         /\ UNCHANGED <<row, outbox, hooks, acked, sapDoc, docs, open>>
<1>1. proc[w].pc = "order"
  BY DEF CreateOrderFails, At
<1>2. faults' \in Nat
  BY DEF CreateOrderFails, Fault, Typed, TypeOK
<1> QED
  BY <1>1, <1>2, CallFields, GotoDoes DEF CreateOrderFails, Steps

LEMMA ReceiveDoes ==
  ASSUME Typed, NEW w \in Procs, NEW ev \in Types, NEW p \in Payments, Receive(w, ev, p)
  PROVE  /\ proc[w].pc = "idle"
         /\ row[p].ref /\ <<ev, p>> \in hooks
         /\ IF row[p].lastEvent = ev
            THEN /\ UNCHANGED proc
                 /\ acked' = IF ev = "captured" THEN acked \union {p} ELSE acked
            ELSE /\ UNCHANGED acked
                 /\ \/ ev = "failed" /\ row[p].state = "initiated" /\ CallTo(w, "fail", p, ev, 0)
                    \/ ev = "captured" /\ row[p].state = "initiated" /\ CallTo(w, "capture", p, ev, 0)
                    \/ ev = "captured" /\ row[p].state # "initiated" /\ CallTo(w, "read", p, ev, 0)
         /\ UNCHANGED <<row, outbox, gateway, hooks, sapDoc, docs, open, faults>>
<1>1. CallsTyped
  BY CallFields
<1>2. CASE row[p].lastEvent = ev
  BY <1>2 DEF Receive, At
<1>3. CASE row[p].lastEvent # ev /\ ev = "failed"
  <2>1. row[p].state = "initiated" /\ Start(w, "fail", p, ev)
    BY <1>3 DEF Receive, CanTransition
  <2> QED
    BY <1>1, <1>3, <2>1, StartDoes DEF Receive, At, Steps
<1>4. CASE row[p].lastEvent # ev /\ ev = "captured"
  <2>1. CASE row[p].state = "initiated"
    <3>1. Start(w, "capture", p, ev)
      BY <1>4, <2>1 DEF Receive, CanTransition
    <3> QED
      BY <1>1, <1>4, <2>1, <3>1, StartDoes DEF Receive, At, Steps
  <2>2. CASE row[p].state # "initiated"
    <3>1. Start(w, "read", p, ev)
      BY <1>4, <2>2 DEF Receive, CanTransition
    <3> QED
      BY <1>1, <1>4, <2>2, <3>1, StartDoes DEF Receive, At, Steps
  <2> QED
    BY <2>1, <2>2
<1> QED
  BY <1>2, <1>3, <1>4 DEF Types

LEMMA ReconcileDoes ==
  ASSUME Typed, NEW w \in Procs, NEW p \in Payments, Reconcile(w, p)
  PROVE  /\ proc[w].pc = "idle"
         /\ \/ row[p].state = "captured" /\ CallTo(w, "read", p, "none", 0)
            \/ row[p].state = "initiated" /\ row[p].ref /\ CallTo(w, "poll", p, "none", 0)
         /\ UNCHANGED <<row, outbox, gateway, hooks, acked, sapDoc, docs, open, faults>>
<1>1. CallsTyped
  BY CallFields
<1>2. CASE row[p].state = "captured"
  BY <1>1, <1>2, StartDoes DEF Reconcile, At, Steps
<1>3. CASE row[p].state = "initiated" /\ row[p].ref
  BY <1>1, <1>3, StartDoes DEF Reconcile, At, Steps
<1> QED
  BY <1>2, <1>3 DEF Reconcile

LEMMA HandleCapturedDoes ==
  ASSUME Typed, NEW w \in Procs, NEW p \in Payments, HandleCaptured(w, p)
  PROVE  /\ proc[w].pc = "idle"
         /\ <<"captured", p>> \in outbox
         /\ CallTo(w, "read", p, "none", 0)
         /\ UNCHANGED <<row, outbox, gateway, hooks, acked, sapDoc, docs, open, faults>>
<1>1. proc[w].pc = "idle"
  BY DEF HandleCaptured, At
<1> QED
  BY <1>1, CallFields, StartDoes DEF HandleCaptured, Steps

LEMMA PollDoes ==
  ASSUME Typed, NEW w \in Procs, Poll(w)
  PROVE  /\ proc[w].pc = "poll" /\ proc[w].p \in Payments
         /\ \/ gateway[proc[w].p] = "captured" /\ CallTo(w, "capture", proc[w].p, proc[w].ev, proc[w].doc)
            \/ gateway[proc[w].p] = "failed" /\ CallTo(w, "fail", proc[w].p, proc[w].ev, proc[w].doc)
            \/ CallTo(w, "idle", None, "none", 0)
         /\ UNCHANGED <<row, outbox, gateway, hooks, acked, sapDoc, docs, open, faults>>
<1>1. CallsTyped /\ proc[w].pc = "poll" /\ proc[w].p \in Payments
  BY CallFields DEF Poll, At
<1>2. CASE gateway[proc[w].p] = "captured"
  BY <1>1, <1>2, GotoDoes DEF Poll, Steps
<1>3. CASE gateway[proc[w].p] = "failed"
  BY <1>1, <1>3, GotoDoes DEF Poll, Steps
<1>4. CASE gateway[proc[w].p] \notin {"captured", "failed"}
  BY <1>1, <1>4, ReturnDoes DEF Poll
<1> QED
  BY <1>2, <1>3, <1>4

LEMMA ReadForPostingDoes ==
  ASSUME Typed, NEW w \in Procs, ReadForPosting(w)
  PROVE  /\ proc[w].pc = "read" /\ proc[w].p \in Payments
         /\ IF row[proc[w].p].state = "captured"
            THEN CallTo(w, "sap", proc[w].p, proc[w].ev, proc[w].doc) /\ UNCHANGED acked
            ELSE CallTo(w, "idle", None, "none", 0) /\ Ack(w)
         /\ UNCHANGED <<row, outbox, gateway, hooks, sapDoc, docs, open, faults>>
<1>1. CallsTyped /\ proc[w].pc = "read" /\ proc[w].p \in Payments
  BY CallFields DEF ReadForPosting, At
<1>2. CASE row[proc[w].p].state = "captured"
  BY <1>1, <1>2, GotoDoes DEF ReadForPosting, Steps
<1>3. CASE row[proc[w].p].state # "captured"
  BY <1>1, <1>3, ReturnDoes DEF ReadForPosting
<1> QED
  BY <1>2, <1>3

LEMMA SapPostsDoes ==
  ASSUME Typed, NEW w \in Procs, SapPosts(w)
  PROVE  /\ proc[w].pc = "sap" /\ proc[w].p \in Payments
         /\ PostInSap(proc[w].p)
         /\ sapDoc' \in [Payments -> Nat] /\ docs' \in Nat /\ open' \in [Items -> Nat]
         /\ CallTo(w, "record", proc[w].p, proc[w].ev, sapDoc'[proc[w].p])
         /\ UNCHANGED <<row, outbox, gateway, hooks, acked, faults>>
<1>1. CallsTyped /\ proc[w].pc = "sap" /\ proc[w].p \in Payments /\ proc[w] \in Call
  BY CallFields DEF SapPosts, At
<1>2. sapDoc' \in [Payments -> Nat] /\ docs' \in Nat /\ open' \in [Items -> Nat]
  BY <1>1, PostTyped DEF SapPosts
<1>3. [proc[w] EXCEPT !.pc = "record", !.doc = sapDoc'[proc[w].p]] \in Call
  BY <1>1, <1>2 DEF Call, Steps
<1>4. proc' = [proc EXCEPT ![w] = [proc[w] EXCEPT !.pc = "record", !.doc = sapDoc'[proc[w].p]]]
  BY <1>1 DEF SapPosts
<1>5. DOMAIN proc[w] = {"pc", "p", "ev", "doc"}
  BY <1>1 DEF Call
<1>6. CallTo(w, "record", proc[w].p, proc[w].ev, sapDoc'[proc[w].p])
  BY <1>1, <1>3, <1>4, <1>5 DEF CallTo, CallsTyped
<1> QED
  BY <1>1, <1>2, <1>6 DEF SapPosts

LEMMA SapRejectsDoes ==
  ASSUME Typed, NEW w \in Procs, SapRejects(w)
  PROVE  /\ proc[w].pc = "sap" /\ proc[w].p \in Payments
         /\ open' \in [Items -> Nat]
         /\ Ack(w)
         /\ CallTo(w, "idle", None, "none", 0)
         /\ UNCHANGED <<row, outbox, gateway, hooks, sapDoc, docs, faults>>
<1>1. CallsTyped /\ proc[w].pc = "sap" /\ proc[w].p \in Payments
  BY CallFields DEF SapRejects, At
<1>2. ASSUME NEW i \in Items,
             \A b \in {j \in Items : Alloc[proc[w].p][j] > open[j]} : i < b
      PROVE  open[i] - Alloc[proc[w].p][i] \in Nat
  <2>1. open[i] \in Nat /\ Alloc[proc[w].p][i] \in Nat /\ i \in Nat
    BY <1>1, PaymentAssumption DEF Typed, TypeOK
  <2>2. ~(Alloc[proc[w].p][i] > open[i])
    BY <1>2, <2>1
  <2> QED
    BY <2>1, <2>2
<1>3. open' \in [Items -> Nat]
  BY <1>2 DEF SapRejects, Typed, TypeOK
<1> QED
  BY <1>1, <1>3, ReturnDoes DEF SapRejects

LEMMA SapUnavailableDoes ==
  ASSUME Typed, NEW w \in Procs, SapUnavailable(w)
  PROVE  /\ proc[w].pc = "sap" /\ proc[w].p \in Payments
         /\ \/ PostInSap(proc[w].p)
            \/ UNCHANGED <<sapDoc, docs, open>>
         /\ sapDoc' \in [Payments -> Nat] /\ docs' \in Nat /\ open' \in [Items -> Nat]
         /\ faults' \in Nat
         /\ Ack(w)
         /\ CallTo(w, "idle", None, "none", 0)
         /\ UNCHANGED <<row, outbox, gateway, hooks>>
<1>1. CallsTyped /\ proc[w].pc = "sap" /\ proc[w].p \in Payments
  BY CallFields DEF SapUnavailable, At
<1>2. sapDoc' \in [Payments -> Nat] /\ docs' \in Nat /\ open' \in [Items -> Nat]
  BY <1>1, PostTyped DEF SapUnavailable, Typed, TypeOK
<1>3. faults' \in Nat
  BY DEF SapUnavailable, Fault, Typed, TypeOK
<1> QED
  BY <1>1, <1>2, <1>3, ReturnDoes DEF SapUnavailable

LEMMA DieDoes ==
  ASSUME Typed, NEW w \in Procs, Die(w)
  PROVE  /\ CallTo(w, "idle", None, "none", 0)
         /\ faults' \in Nat
         /\ UNCHANGED <<row, outbox, gateway, hooks, acked, sapDoc, docs, open>>
BY CallFields, ReturnDoes DEF Die, Fault, Typed, TypeOK

----------------------------------------------------------------------------
(* Each part of Inv is preserved by every step.                            *)

LEMMA Where == Web \subseteq Procs /\ Desk \subseteq Procs /\ Bus \subseteq Procs
BY DEF Procs

\* Every value keeps its type.
LEMMA TypeStep ==
  ASSUME Typed, [Next]_vars PROVE Typed'
<1> USE CallFields, Where
    DEF CallTo, RowTo, Ack, Typed, TypeOK, CallsNamePayments
<1>1. ASSUME NEW w \in Web, NEW p \in Payments, Validate(w, p) PROVE Typed'
  BY <1>1, ValidateDoes
<1>2. ASSUME NEW w \in Web, Create(w) PROVE Typed'
  BY <1>2, CreateDoes
<1>3. ASSUME NEW w \in Web, CreateOrder(w) PROVE Typed'
  BY <1>3, CreateOrderDoes
<1>4. ASSUME NEW w \in Web, CreateOrderFails(w) PROVE Typed'
  BY <1>4, CreateOrderFailsDoes
<1>5. ASSUME NEW w \in Web, Close(w) PROVE Typed'
  BY <1>5, CloseDoes
<1>6. ASSUME NEW w \in Web, StoreReference(w) PROVE Typed'
  BY <1>6, StoreReferenceDoes
<1>7. ASSUME NEW w \in Web, NEW ev \in Types, NEW p \in Payments, Receive(w, ev, p)
      PROVE Typed'
  <2>1. /\ proc[w].pc = "idle"
        /\ row[p].ref /\ <<ev, p>> \in hooks
        /\ IF row[p].lastEvent = ev
           THEN /\ UNCHANGED proc
                /\ acked' = IF ev = "captured" THEN acked \union {p} ELSE acked
           ELSE /\ UNCHANGED acked
                /\ \/ ev = "failed" /\ row[p].state = "initiated" /\ CallTo(w, "fail", p, ev, 0)
                   \/ ev = "captured" /\ row[p].state = "initiated" /\ CallTo(w, "capture", p, ev, 0)
                   \/ ev = "captured" /\ row[p].state # "initiated" /\ CallTo(w, "read", p, ev, 0)
        /\ UNCHANGED <<row, outbox, gateway, hooks, sapDoc, docs, open, faults>>
    BY <1>7, ReceiveDoes
  <2> QED
    BY <2>1
<1>8. ASSUME NEW w \in Web, NEW ev \in Types, NEW p \in Payments, ReceiveUnknown(w, ev, p)
      PROVE Typed'
  BY <1>8 DEF ReceiveUnknown
<1>9. ASSUME NEW w \in Desk, NEW p \in Payments, Reconcile(w, p) PROVE Typed'
  BY <1>9, ReconcileDoes
<1>10. ASSUME NEW w \in Bus, NEW p \in Payments, HandleCaptured(w, p) PROVE Typed'
  <2>1. /\ proc[w].pc = "idle"
        /\ <<"captured", p>> \in outbox
        /\ CallTo(w, "read", p, "none", 0)
        /\ UNCHANGED <<row, outbox, gateway, hooks, acked, sapDoc, docs, open, faults>>
    BY <1>10, HandleCapturedDoes
  <2> QED
    BY <2>1
<1>11. ASSUME NEW w \in Procs, RecordFailure(w) PROVE Typed'
  BY <1>11, RecordFailureDoes
<1>12. ASSUME NEW w \in Procs, RecordCapture(w) PROVE Typed'
  BY <1>12, RecordCaptureDoes
<1>13. ASSUME NEW w \in Procs, Poll(w) PROVE Typed'
  BY <1>13, PollDoes
<1>14. ASSUME NEW w \in Procs, ReadForPosting(w) PROVE Typed'
  BY <1>14, ReadForPostingDoes
<1>15. ASSUME NEW w \in Procs, SapPosts(w) PROVE Typed'
  BY <1>15, SapPostsDoes
<1>16. ASSUME NEW w \in Procs, SapRejects(w) PROVE Typed'
  BY <1>16, SapRejectsDoes
<1>17. ASSUME NEW w \in Procs, RecordPosting(w) PROVE Typed'
  BY <1>17, RecordPostingDoes
<1>18. ASSUME NEW w \in Procs, SapUnavailable(w) PROVE Typed'
  BY <1>18, SapUnavailableDoes
<1>19. ASSUME NEW w \in Procs, Die(w) PROVE Typed'
  BY <1>19, DieDoes
<1>20. ASSUME NEW p \in Payments, GatewayCaptures(p) PROVE Typed'
  <2>1. hooks' \in SUBSET (Types \X Payments)
    BY <1>20 DEF GatewayCaptures, Typed, TypeOK, Types
  <2>2. gateway' \in [Payments -> {"none", "created", "captured", "failed"}]
    BY <1>20 DEF GatewayCaptures, Typed, TypeOK
  <2> QED
    BY <1>20, <2>1, <2>2 DEF GatewayCaptures, Typed, TypeOK, CallsNamePayments
<1>21. ASSUME NEW p \in Payments, GatewayDeclines(p) PROVE Typed'
  <2>1. hooks' \in SUBSET (Types \X Payments)
    BY <1>21 DEF GatewayDeclines, Typed, TypeOK, Types
  <2>2. gateway' \in [Payments -> {"none", "created", "captured", "failed"}]
    BY <1>21 DEF GatewayDeclines, Typed, TypeOK
  <2> QED
    BY <1>21, <2>1, <2>2 DEF GatewayDeclines, Typed, TypeOK, CallsNamePayments
<1>22. CASE UNCHANGED vars
  BY <1>22 DEF vars
<1> QED
  BY <1>1, <1>2, <1>3, <1>4, <1>5, <1>6, <1>7, <1>8, <1>9, <1>10, <1>11,
     <1>12, <1>13, <1>14, <1>15, <1>16, <1>17, <1>18, <1>19, <1>20, <1>21,
     <1>22
     DEF Next, InitiatePayment, PostCapturedPayment


\* Only a payment nobody is opening is opened.
LEMMA OneRequestStep ==
  ASSUME Typed, OneRequest, [Next]_vars PROVE OneRequest'
<1> USE CallFields, Where
    DEF CallTo, RowTo, OneRequest, Opening, CallsNamePayments, Typed
<1>1. ASSUME NEW w \in Web, NEW p \in Payments, Validate(w, p) PROVE OneRequest'
  BY <1>1, ValidateDoes
<1>2. ASSUME NEW w \in Web, Create(w) PROVE OneRequest'
  BY <1>2, CreateDoes
<1>3. ASSUME NEW w \in Web, CreateOrder(w) PROVE OneRequest'
  BY <1>3, CreateOrderDoes
<1>4. ASSUME NEW w \in Web, CreateOrderFails(w) PROVE OneRequest'
  BY <1>4, CreateOrderFailsDoes
<1>5. ASSUME NEW w \in Web, Close(w) PROVE OneRequest'
  BY <1>5, CloseDoes
<1>6. ASSUME NEW w \in Web, StoreReference(w) PROVE OneRequest'
  BY <1>6, StoreReferenceDoes
<1>7. ASSUME NEW w \in Web, NEW ev \in Types, NEW p \in Payments, Receive(w, ev, p)
      PROVE OneRequest'
  <2>1. /\ proc[w].pc = "idle"
        /\ row[p].ref /\ <<ev, p>> \in hooks
        /\ IF row[p].lastEvent = ev
           THEN /\ UNCHANGED proc
                /\ acked' = IF ev = "captured" THEN acked \union {p} ELSE acked
           ELSE /\ UNCHANGED acked
                /\ \/ ev = "failed" /\ row[p].state = "initiated" /\ CallTo(w, "fail", p, ev, 0)
                   \/ ev = "captured" /\ row[p].state = "initiated" /\ CallTo(w, "capture", p, ev, 0)
                   \/ ev = "captured" /\ row[p].state # "initiated" /\ CallTo(w, "read", p, ev, 0)
        /\ UNCHANGED <<row, outbox, gateway, hooks, sapDoc, docs, open, faults>>
    BY <1>7, ReceiveDoes
  <2> QED
    BY <2>1
<1>8. ASSUME NEW w \in Web, NEW ev \in Types, NEW p \in Payments, ReceiveUnknown(w, ev, p)
      PROVE OneRequest'
  BY <1>8 DEF ReceiveUnknown
<1>9. ASSUME NEW w \in Desk, NEW p \in Payments, Reconcile(w, p) PROVE OneRequest'
  BY <1>9, ReconcileDoes
<1>10. ASSUME NEW w \in Bus, NEW p \in Payments, HandleCaptured(w, p) PROVE OneRequest'
  <2>1. /\ proc[w].pc = "idle"
        /\ <<"captured", p>> \in outbox
        /\ CallTo(w, "read", p, "none", 0)
        /\ UNCHANGED <<row, outbox, gateway, hooks, acked, sapDoc, docs, open, faults>>
    BY <1>10, HandleCapturedDoes
  <2> QED
    BY <2>1
<1>11. ASSUME NEW w \in Procs, RecordFailure(w) PROVE OneRequest'
  BY <1>11, RecordFailureDoes
<1>12. ASSUME NEW w \in Procs, RecordCapture(w) PROVE OneRequest'
  BY <1>12, RecordCaptureDoes
<1>13. ASSUME NEW w \in Procs, Poll(w) PROVE OneRequest'
  BY <1>13, PollDoes
<1>14. ASSUME NEW w \in Procs, ReadForPosting(w) PROVE OneRequest'
  BY <1>14, ReadForPostingDoes
<1>15. ASSUME NEW w \in Procs, SapPosts(w) PROVE OneRequest'
  BY <1>15, SapPostsDoes
<1>16. ASSUME NEW w \in Procs, SapRejects(w) PROVE OneRequest'
  BY <1>16, SapRejectsDoes
<1>17. ASSUME NEW w \in Procs, RecordPosting(w) PROVE OneRequest'
  BY <1>17, RecordPostingDoes
<1>18. ASSUME NEW w \in Procs, SapUnavailable(w) PROVE OneRequest'
  BY <1>18, SapUnavailableDoes
<1>19. ASSUME NEW w \in Procs, Die(w) PROVE OneRequest'
  BY <1>19, DieDoes
<1>20. ASSUME NEW p \in Payments, GatewayCaptures(p) PROVE OneRequest'
  BY <1>20 DEF GatewayCaptures, CanPay
<1>21. ASSUME NEW p \in Payments, GatewayDeclines(p) PROVE OneRequest'
  BY <1>21 DEF GatewayDeclines, CanPay
<1>22. CASE UNCHANGED vars
  BY <1>22 DEF vars
<1> QED
  BY <1>1, <1>2, <1>3, <1>4, <1>5, <1>6, <1>7, <1>8, <1>9, <1>10, <1>11,
     <1>12, <1>13, <1>14, <1>15, <1>16, <1>17, <1>18, <1>19, <1>20, <1>21,
     <1>22
     DEF Next, InitiatePayment, PostCapturedPayment


\* Row and order come into being in that order, each once.
LEMMA NothingStep ==
  ASSUME Typed, OneRequest, NothingBeforeTheRow, [Next]_vars PROVE NothingBeforeTheRow'
<1> USE CallFields, Where
    DEF CallTo, RowTo, OneRequest, Opening, CallsNamePayments, Typed, TypeOK,
        NothingBeforeTheRow
<1>1. ASSUME NEW w \in Web, NEW p \in Payments, Validate(w, p)
      PROVE NothingBeforeTheRow'
  BY <1>1, ValidateDoes
<1>2. ASSUME NEW w \in Web, Create(w) PROVE NothingBeforeTheRow'
  <2>1. /\ w \in Procs
        /\ proc[w].pc = "create"
        /\ proc[w].p \in Payments
        /\ RowTo(proc[w].p, "initiated", row[proc[w].p].ref, row[proc[w].p].lastEvent, row[proc[w].p].fi)
        /\ CallTo(w, "order", proc[w].p, proc[w].ev, proc[w].doc)
        /\ UNCHANGED <<outbox, gateway, hooks, acked, sapDoc, docs, open, faults>>
    BY <1>2, CreateDoes
  <2>2. row[proc[w].p].state = "absent"
    BY <2>1 DEF NothingBeforeTheRow
  <2>3. \A v \in Procs : proc[v].p = proc[w].p /\ proc[v].pc # "idle" => v = w
    BY <2>1, <2>2, Where, ZenonT(40) DEF NothingBeforeTheRow, OneRequest, Opening
  <2>4. /\ \A x \in Payments : row'[x].state = "absent" => x # proc[w].p /\ row'[x] = row[x]
        /\ \A x \in Payments : x # proc[w].p => row'[x] = row[x]
    BY <2>1 DEF RowTo
  <2>5. /\ \A v \in Procs : v # w => proc'[v] = proc[v]
        /\ proc'[w].pc # "create" /\ (proc'[w].p = proc[w].p \/ proc'[w].pc = "idle")
    BY <2>1 DEF CallTo
  <2>6. ASSUME NEW x \in Payments, row'[x].state = "absent"
        PROVE  /\ row'[x].ref = FALSE /\ gateway'[x] = "none" /\ <<"captured", x>> \notin outbox'
               /\ \A v \in Procs : proc'[v].p = x /\ proc'[v].pc # "idle" => proc'[v].pc = "create"
    BY <2>1, <2>4, <2>5, <2>6 DEF NothingBeforeTheRow
  <2>7. ASSUME NEW v \in Procs, proc'[v].pc = "create" PROVE row'[proc'[v].p].state = "absent"
    <3>1. v # w /\ proc'[v] = proc[v] /\ proc[v].p \in Payments
      BY <2>5, <2>7 DEF Typed, CallsNamePayments
    <3> QED
      BY <2>3, <2>4, <2>7, <3>1 DEF NothingBeforeTheRow
  <2>8. ASSUME NEW v \in Procs, proc'[v].pc = "order" PROVE gateway'[proc'[v].p] = "none"
    <3>1. CASE v = w
      <4>1. proc'[w].p = proc[w].p
        BY <2>5, <2>8, <3>1
      <4>2. gateway[proc[w].p] = "none" \/ proc'[w].pc # "order"
        BY <2>1, <2>2 DEF NothingBeforeTheRow, CallTo
      <4> QED
        BY <2>1, <2>8, <3>1, <4>1, <4>2
    <3>2. CASE v # w
      BY <2>1, <2>5, <2>8, <3>2 DEF NothingBeforeTheRow
    <3> QED
      BY <3>1, <3>2
  <2> QED
    BY <2>6, <2>7, <2>8 DEF NothingBeforeTheRow
<1>3. ASSUME NEW w \in Web, CreateOrder(w) PROVE NothingBeforeTheRow'
  BY <1>3, CreateOrderDoes
<1>4. ASSUME NEW w \in Web, CreateOrderFails(w) PROVE NothingBeforeTheRow'
  BY <1>4, CreateOrderFailsDoes
<1>5. ASSUME NEW w \in Web, Close(w) PROVE NothingBeforeTheRow'
  BY <1>5, CloseDoes, SMTT(30)
<1>6. ASSUME NEW w \in Web, StoreReference(w) PROVE NothingBeforeTheRow'
  BY <1>6, StoreReferenceDoes
<1>7. ASSUME NEW w \in Web, NEW ev \in Types, NEW p \in Payments, Receive(w, ev, p)
      PROVE NothingBeforeTheRow'
  <2>1. /\ proc[w].pc = "idle"
        /\ row[p].ref /\ <<ev, p>> \in hooks
        /\ IF row[p].lastEvent = ev
           THEN /\ UNCHANGED proc
                /\ acked' = IF ev = "captured" THEN acked \union {p} ELSE acked
           ELSE /\ UNCHANGED acked
                /\ \/ ev = "failed" /\ row[p].state = "initiated" /\ CallTo(w, "fail", p, ev, 0)
                   \/ ev = "captured" /\ row[p].state = "initiated" /\ CallTo(w, "capture", p, ev, 0)
                   \/ ev = "captured" /\ row[p].state # "initiated" /\ CallTo(w, "read", p, ev, 0)
        /\ UNCHANGED <<row, outbox, gateway, hooks, sapDoc, docs, open, faults>>
    BY <1>7, ReceiveDoes
  <2> QED
    BY <2>1
<1>8. ASSUME NEW w \in Web, NEW ev \in Types, NEW p \in Payments, ReceiveUnknown(w, ev, p)
      PROVE NothingBeforeTheRow'
  BY <1>8 DEF ReceiveUnknown
<1>9. ASSUME NEW w \in Desk, NEW p \in Payments, Reconcile(w, p)
      PROVE NothingBeforeTheRow'
  BY <1>9, ReconcileDoes
<1>10. ASSUME NEW w \in Bus, NEW p \in Payments, HandleCaptured(w, p)
      PROVE NothingBeforeTheRow'
  <2>1. /\ proc[w].pc = "idle"
        /\ <<"captured", p>> \in outbox
        /\ CallTo(w, "read", p, "none", 0)
        /\ UNCHANGED <<row, outbox, gateway, hooks, acked, sapDoc, docs, open, faults>>
    BY <1>10, HandleCapturedDoes
  <2> QED
    BY <2>1
<1>11. ASSUME NEW w \in Procs, RecordFailure(w) PROVE NothingBeforeTheRow'
  <2>1. /\ w \in Procs
        /\ proc[w].pc = "fail"
        /\ proc[w].p \in Payments
        /\ RowTo(proc[w].p, "failed", row[proc[w].p].ref, Heard(proc[w].p, proc[w].ev), row[proc[w].p].fi)
        /\ CallTo(w, "idle", None, "none", 0)
        /\ UNCHANGED <<outbox, gateway, hooks, acked, sapDoc, docs, open, faults>>
    BY <1>11, RecordFailureDoes
  <2>2. row[proc[w].p].state # "absent"
    BY <2>1 DEF NothingBeforeTheRow
  <2>3. \A v \in Procs : proc[v].pc = "create" => proc[v].p # proc[w].p
    BY <2>2 DEF NothingBeforeTheRow
  <2>4. /\ \A x \in Payments : row'[x].state = "absent" => x # proc[w].p /\ row'[x] = row[x]
        /\ \A x \in Payments : x # proc[w].p => row'[x] = row[x]
    BY <2>1 DEF RowTo
  <2>5. /\ \A v \in Procs : v # w => proc'[v] = proc[v]
        /\ proc'[w].pc # "create" /\ (proc'[w].p = proc[w].p \/ proc'[w].pc = "idle")
    BY <2>1 DEF CallTo
  <2>6. ASSUME NEW x \in Payments, row'[x].state = "absent"
        PROVE  /\ row'[x].ref = FALSE /\ gateway'[x] = "none" /\ <<"captured", x>> \notin outbox'
               /\ \A v \in Procs : proc'[v].p = x /\ proc'[v].pc # "idle" => proc'[v].pc = "create"
    BY <2>1, <2>4, <2>5, <2>6 DEF NothingBeforeTheRow
  <2>7. ASSUME NEW v \in Procs, proc'[v].pc = "create" PROVE row'[proc'[v].p].state = "absent"
    <3>1. v # w /\ proc'[v] = proc[v] /\ proc[v].p \in Payments
      BY <2>5, <2>7 DEF Typed, CallsNamePayments
    <3> QED
      BY <2>3, <2>4, <2>7, <3>1 DEF NothingBeforeTheRow
  <2>8. ASSUME NEW v \in Procs, proc'[v].pc = "order" PROVE gateway'[proc'[v].p] = "none"
    <3>1. CASE v = w
      <4>1. proc'[w].p = proc[w].p
        BY <2>5, <2>8, <3>1
      <4>2. gateway[proc[w].p] = "none" \/ proc'[w].pc # "order"
        BY <2>1, <2>2 DEF NothingBeforeTheRow, CallTo
      <4> QED
        BY <2>1, <2>8, <3>1, <4>1, <4>2
    <3>2. CASE v # w
      BY <2>1, <2>5, <2>8, <3>2 DEF NothingBeforeTheRow
    <3> QED
      BY <3>1, <3>2
  <2> QED
    BY <2>6, <2>7, <2>8 DEF NothingBeforeTheRow
<1>12. ASSUME NEW w \in Procs, RecordCapture(w) PROVE NothingBeforeTheRow'
  <2>1. /\ w \in Procs
        /\ proc[w].pc = "capture"
        /\ proc[w].p \in Payments
        /\ RowTo(proc[w].p, "captured", row[proc[w].p].ref, Heard(proc[w].p, proc[w].ev), row[proc[w].p].fi)
        /\ CallTo(w, "read", proc[w].p, proc[w].ev, proc[w].doc)
        /\ outbox' = outbox \union {<<"captured", proc[w].p>>}
        /\ UNCHANGED <<gateway, hooks, acked, sapDoc, docs, open, faults>>
    BY <1>12, RecordCaptureDoes
  <2>2. row[proc[w].p].state # "absent"
    BY <2>1 DEF NothingBeforeTheRow
  <2>3. \A v \in Procs : proc[v].pc = "create" => proc[v].p # proc[w].p
    BY <2>2 DEF NothingBeforeTheRow
  <2>4. /\ \A x \in Payments : row'[x].state = "absent" => x # proc[w].p /\ row'[x] = row[x]
        /\ \A x \in Payments : x # proc[w].p => row'[x] = row[x]
    BY <2>1 DEF RowTo
  <2>5. /\ \A v \in Procs : v # w => proc'[v] = proc[v]
        /\ proc'[w].pc # "create" /\ (proc'[w].p = proc[w].p \/ proc'[w].pc = "idle")
    BY <2>1 DEF CallTo
  <2>6. ASSUME NEW x \in Payments, row'[x].state = "absent"
        PROVE  /\ row'[x].ref = FALSE /\ gateway'[x] = "none" /\ <<"captured", x>> \notin outbox'
               /\ \A v \in Procs : proc'[v].p = x /\ proc'[v].pc # "idle" => proc'[v].pc = "create"
    BY <2>1, <2>4, <2>5, <2>6 DEF NothingBeforeTheRow
  <2>7. ASSUME NEW v \in Procs, proc'[v].pc = "create" PROVE row'[proc'[v].p].state = "absent"
    <3>1. v # w /\ proc'[v] = proc[v] /\ proc[v].p \in Payments
      BY <2>5, <2>7 DEF Typed, CallsNamePayments
    <3> QED
      BY <2>3, <2>4, <2>7, <3>1 DEF NothingBeforeTheRow
  <2>8. ASSUME NEW v \in Procs, proc'[v].pc = "order" PROVE gateway'[proc'[v].p] = "none"
    <3>1. CASE v = w
      <4>1. proc'[w].p = proc[w].p
        BY <2>5, <2>8, <3>1
      <4>2. gateway[proc[w].p] = "none" \/ proc'[w].pc # "order"
        BY <2>1, <2>2 DEF NothingBeforeTheRow, CallTo
      <4> QED
        BY <2>1, <2>8, <3>1, <4>1, <4>2
    <3>2. CASE v # w
      BY <2>1, <2>5, <2>8, <3>2 DEF NothingBeforeTheRow
    <3> QED
      BY <3>1, <3>2
  <2> QED
    BY <2>6, <2>7, <2>8 DEF NothingBeforeTheRow
<1>13. ASSUME NEW w \in Procs, Poll(w) PROVE NothingBeforeTheRow'
  BY <1>13, PollDoes
<1>14. ASSUME NEW w \in Procs, ReadForPosting(w) PROVE NothingBeforeTheRow'
  BY <1>14, ReadForPostingDoes, SMTT(30)
<1>15. ASSUME NEW w \in Procs, SapPosts(w) PROVE NothingBeforeTheRow'
  BY <1>15, SapPostsDoes
<1>16. ASSUME NEW w \in Procs, SapRejects(w) PROVE NothingBeforeTheRow'
  BY <1>16, SapRejectsDoes
<1>17. ASSUME NEW w \in Procs, RecordPosting(w) PROVE NothingBeforeTheRow'
  <2>1. /\ w \in Procs
        /\ proc[w].pc = "record"
        /\ proc[w].p \in Payments
        /\ RowTo(proc[w].p, "posted", row[proc[w].p].ref, row[proc[w].p].lastEvent, proc[w].doc)
        /\ CallTo(w, "idle", None, "none", 0)
        /\ outbox' = outbox \union {<<"posted", proc[w].p>>}
        /\ Ack(w)
        /\ UNCHANGED <<gateway, hooks, sapDoc, docs, open, faults>>
    BY <1>17, RecordPostingDoes
  <2>2. row[proc[w].p].state # "absent"
    BY <2>1 DEF NothingBeforeTheRow
  <2>3. \A v \in Procs : proc[v].pc = "create" => proc[v].p # proc[w].p
    BY <2>2 DEF NothingBeforeTheRow
  <2>4. /\ \A x \in Payments : row'[x].state = "absent" => x # proc[w].p /\ row'[x] = row[x]
        /\ \A x \in Payments : x # proc[w].p => row'[x] = row[x]
    BY <2>1 DEF RowTo
  <2>5. /\ \A v \in Procs : v # w => proc'[v] = proc[v]
        /\ proc'[w].pc # "create" /\ (proc'[w].p = proc[w].p \/ proc'[w].pc = "idle")
    BY <2>1 DEF CallTo
  <2>6. ASSUME NEW x \in Payments, row'[x].state = "absent"
        PROVE  /\ row'[x].ref = FALSE /\ gateway'[x] = "none" /\ <<"captured", x>> \notin outbox'
               /\ \A v \in Procs : proc'[v].p = x /\ proc'[v].pc # "idle" => proc'[v].pc = "create"
    BY <2>1, <2>4, <2>5, <2>6 DEF NothingBeforeTheRow
  <2>7. ASSUME NEW v \in Procs, proc'[v].pc = "create" PROVE row'[proc'[v].p].state = "absent"
    <3>1. v # w /\ proc'[v] = proc[v] /\ proc[v].p \in Payments
      BY <2>5, <2>7 DEF Typed, CallsNamePayments
    <3> QED
      BY <2>3, <2>4, <2>7, <3>1 DEF NothingBeforeTheRow
  <2>8. ASSUME NEW v \in Procs, proc'[v].pc = "order" PROVE gateway'[proc'[v].p] = "none"
    <3>1. CASE v = w
      <4>1. proc'[w].p = proc[w].p
        BY <2>5, <2>8, <3>1
      <4>2. gateway[proc[w].p] = "none" \/ proc'[w].pc # "order"
        BY <2>1, <2>2 DEF NothingBeforeTheRow, CallTo
      <4> QED
        BY <2>1, <2>8, <3>1, <4>1, <4>2
    <3>2. CASE v # w
      BY <2>1, <2>5, <2>8, <3>2 DEF NothingBeforeTheRow
    <3> QED
      BY <3>1, <3>2
  <2> QED
    BY <2>6, <2>7, <2>8 DEF NothingBeforeTheRow
<1>18. ASSUME NEW w \in Procs, SapUnavailable(w) PROVE NothingBeforeTheRow'
  BY <1>18, SapUnavailableDoes
<1>19. ASSUME NEW w \in Procs, Die(w) PROVE NothingBeforeTheRow'
  BY <1>19, DieDoes
<1>20. ASSUME NEW p \in Payments, GatewayCaptures(p) PROVE NothingBeforeTheRow'
  BY <1>20 DEF GatewayCaptures, CanPay
<1>21. ASSUME NEW p \in Payments, GatewayDeclines(p) PROVE NothingBeforeTheRow'
  BY <1>21 DEF GatewayDeclines, CanPay
<1>22. CASE UNCHANGED vars
  BY <1>22 DEF vars
<1> QED
  BY <1>1, <1>2, <1>3, <1>4, <1>5, <1>6, <1>7, <1>8, <1>9, <1>10, <1>11,
     <1>12, <1>13, <1>14, <1>15, <1>16, <1>17, <1>18, <1>19, <1>20, <1>21,
     <1>22
     DEF Next, InitiatePayment, PostCapturedPayment


\* A capture is announced on the gateway's word, and the gateway does not take it back.
LEMMA WordStep ==
  ASSUME Typed, NothingBeforeTheRow, WordOfCapture, [Next]_vars PROVE WordOfCapture'
<1> USE CallFields, Where
    DEF CallTo, RowTo, CallsNamePayments, Typed, TypeOK, NothingBeforeTheRow,
        WordOfCapture, Taken
<1>1. ASSUME NEW w \in Web, NEW p \in Payments, Validate(w, p) PROVE WordOfCapture'
  BY <1>1, ValidateDoes
<1>2. ASSUME NEW w \in Web, Create(w) PROVE WordOfCapture'
  BY <1>2, CreateDoes
<1>3. ASSUME NEW w \in Web, CreateOrder(w) PROVE WordOfCapture'
  BY <1>3, CreateOrderDoes
<1>4. ASSUME NEW w \in Web, CreateOrderFails(w) PROVE WordOfCapture'
  BY <1>4, CreateOrderFailsDoes
<1>5. ASSUME NEW w \in Web, Close(w) PROVE WordOfCapture'
  BY <1>5, CloseDoes
<1>6. ASSUME NEW w \in Web, StoreReference(w) PROVE WordOfCapture'
  BY <1>6, StoreReferenceDoes
<1>7. ASSUME NEW w \in Web, NEW ev \in Types, NEW p \in Payments, Receive(w, ev, p)
      PROVE WordOfCapture'
  <2>1. /\ proc[w].pc = "idle"
        /\ row[p].ref /\ <<ev, p>> \in hooks
        /\ IF row[p].lastEvent = ev
           THEN /\ UNCHANGED proc
                /\ acked' = IF ev = "captured" THEN acked \union {p} ELSE acked
           ELSE /\ UNCHANGED acked
                /\ \/ ev = "failed" /\ row[p].state = "initiated" /\ CallTo(w, "fail", p, ev, 0)
                   \/ ev = "captured" /\ row[p].state = "initiated" /\ CallTo(w, "capture", p, ev, 0)
                   \/ ev = "captured" /\ row[p].state # "initiated" /\ CallTo(w, "read", p, ev, 0)
        /\ UNCHANGED <<row, outbox, gateway, hooks, sapDoc, docs, open, faults>>
    BY <1>7, ReceiveDoes
  <2> QED
    BY <2>1
<1>8. ASSUME NEW w \in Web, NEW ev \in Types, NEW p \in Payments, ReceiveUnknown(w, ev, p)
      PROVE WordOfCapture'
  BY <1>8 DEF ReceiveUnknown
<1>9. ASSUME NEW w \in Desk, NEW p \in Payments, Reconcile(w, p) PROVE WordOfCapture'
  BY <1>9, ReconcileDoes
<1>10. ASSUME NEW w \in Bus, NEW p \in Payments, HandleCaptured(w, p)
      PROVE WordOfCapture'
  <2>1. /\ proc[w].pc = "idle"
        /\ <<"captured", p>> \in outbox
        /\ CallTo(w, "read", p, "none", 0)
        /\ UNCHANGED <<row, outbox, gateway, hooks, acked, sapDoc, docs, open, faults>>
    BY <1>10, HandleCapturedDoes
  <2> QED
    BY <2>1
<1>11. ASSUME NEW w \in Procs, RecordFailure(w) PROVE WordOfCapture'
  BY <1>11, RecordFailureDoes
<1>12. ASSUME NEW w \in Procs, RecordCapture(w) PROVE WordOfCapture'
  BY <1>12, RecordCaptureDoes
<1>13. ASSUME NEW w \in Procs, Poll(w) PROVE WordOfCapture'
  BY <1>13, PollDoes
<1>14. ASSUME NEW w \in Procs, ReadForPosting(w) PROVE WordOfCapture'
  BY <1>14, ReadForPostingDoes
<1>15. ASSUME NEW w \in Procs, SapPosts(w) PROVE WordOfCapture'
  BY <1>15, SapPostsDoes
<1>16. ASSUME NEW w \in Procs, SapRejects(w) PROVE WordOfCapture'
  BY <1>16, SapRejectsDoes
<1>17. ASSUME NEW w \in Procs, RecordPosting(w) PROVE WordOfCapture'
  BY <1>17, RecordPostingDoes
<1>18. ASSUME NEW w \in Procs, SapUnavailable(w) PROVE WordOfCapture'
  BY <1>18, SapUnavailableDoes
<1>19. ASSUME NEW w \in Procs, Die(w) PROVE WordOfCapture'
  BY <1>19, DieDoes
<1>20. ASSUME NEW p \in Payments, GatewayCaptures(p) PROVE WordOfCapture'
  BY <1>20 DEF GatewayCaptures, CanPay
<1>21. ASSUME NEW p \in Payments, GatewayDeclines(p) PROVE WordOfCapture'
  BY <1>21 DEF GatewayDeclines, CanPay
<1>22. CASE UNCHANGED vars
  BY <1>22 DEF vars
<1> QED
  BY <1>1, <1>2, <1>3, <1>4, <1>5, <1>6, <1>7, <1>8, <1>9, <1>10, <1>11,
     <1>12, <1>13, <1>14, <1>15, <1>16, <1>17, <1>18, <1>19, <1>20, <1>21,
     <1>22
     DEF Next, InitiatePayment, PostCapturedPayment


\* A row is captured together with its event.
LEMMA CaptureStep ==
  ASSUME Typed, CaptureInv, [Next]_vars PROVE CaptureInv'
<1> USE CallFields, Where
    DEF CallTo, RowTo, CallsNamePayments, Typed, CaptureInv, CaptureIsAnnounced
<1>1. ASSUME NEW w \in Web, NEW p \in Payments, Validate(w, p) PROVE CaptureInv'
  BY <1>1, ValidateDoes
<1>2. ASSUME NEW w \in Web, Create(w) PROVE CaptureInv'
  BY <1>2, CreateDoes
<1>3. ASSUME NEW w \in Web, CreateOrder(w) PROVE CaptureInv'
  BY <1>3, CreateOrderDoes
<1>4. ASSUME NEW w \in Web, CreateOrderFails(w) PROVE CaptureInv'
  BY <1>4, CreateOrderFailsDoes
<1>5. ASSUME NEW w \in Web, Close(w) PROVE CaptureInv'
  BY <1>5, CloseDoes
<1>6. ASSUME NEW w \in Web, StoreReference(w) PROVE CaptureInv'
  BY <1>6, StoreReferenceDoes
<1>7. ASSUME NEW w \in Web, NEW ev \in Types, NEW p \in Payments, Receive(w, ev, p)
      PROVE CaptureInv'
  <2>1. /\ proc[w].pc = "idle"
        /\ row[p].ref /\ <<ev, p>> \in hooks
        /\ IF row[p].lastEvent = ev
           THEN /\ UNCHANGED proc
                /\ acked' = IF ev = "captured" THEN acked \union {p} ELSE acked
           ELSE /\ UNCHANGED acked
                /\ \/ ev = "failed" /\ row[p].state = "initiated" /\ CallTo(w, "fail", p, ev, 0)
                   \/ ev = "captured" /\ row[p].state = "initiated" /\ CallTo(w, "capture", p, ev, 0)
                   \/ ev = "captured" /\ row[p].state # "initiated" /\ CallTo(w, "read", p, ev, 0)
        /\ UNCHANGED <<row, outbox, gateway, hooks, sapDoc, docs, open, faults>>
    BY <1>7, ReceiveDoes
  <2> QED
    BY <2>1
<1>8. ASSUME NEW w \in Web, NEW ev \in Types, NEW p \in Payments, ReceiveUnknown(w, ev, p)
      PROVE CaptureInv'
  BY <1>8 DEF ReceiveUnknown
<1>9. ASSUME NEW w \in Desk, NEW p \in Payments, Reconcile(w, p) PROVE CaptureInv'
  BY <1>9, ReconcileDoes
<1>10. ASSUME NEW w \in Bus, NEW p \in Payments, HandleCaptured(w, p) PROVE CaptureInv'
  <2>1. /\ proc[w].pc = "idle"
        /\ <<"captured", p>> \in outbox
        /\ CallTo(w, "read", p, "none", 0)
        /\ UNCHANGED <<row, outbox, gateway, hooks, acked, sapDoc, docs, open, faults>>
    BY <1>10, HandleCapturedDoes
  <2> QED
    BY <2>1
<1>11. ASSUME NEW w \in Procs, RecordFailure(w) PROVE CaptureInv'
  BY <1>11, RecordFailureDoes
<1>12. ASSUME NEW w \in Procs, RecordCapture(w) PROVE CaptureInv'
  BY <1>12, RecordCaptureDoes
<1>13. ASSUME NEW w \in Procs, Poll(w) PROVE CaptureInv'
  BY <1>13, PollDoes
<1>14. ASSUME NEW w \in Procs, ReadForPosting(w) PROVE CaptureInv'
  BY <1>14, ReadForPostingDoes
<1>15. ASSUME NEW w \in Procs, SapPosts(w) PROVE CaptureInv'
  BY <1>15, SapPostsDoes
<1>16. ASSUME NEW w \in Procs, SapRejects(w) PROVE CaptureInv'
  BY <1>16, SapRejectsDoes
<1>17. ASSUME NEW w \in Procs, RecordPosting(w) PROVE CaptureInv'
  BY <1>17, RecordPostingDoes
<1>18. ASSUME NEW w \in Procs, SapUnavailable(w) PROVE CaptureInv'
  BY <1>18, SapUnavailableDoes
<1>19. ASSUME NEW w \in Procs, Die(w) PROVE CaptureInv'
  BY <1>19, DieDoes
<1>20. ASSUME NEW p \in Payments, GatewayCaptures(p) PROVE CaptureInv'
  BY <1>20 DEF GatewayCaptures, CanPay
<1>21. ASSUME NEW p \in Payments, GatewayDeclines(p) PROVE CaptureInv'
  BY <1>21 DEF GatewayDeclines, CanPay
<1>22. CASE UNCHANGED vars
  BY <1>22 DEF vars
<1> QED
  BY <1>1, <1>2, <1>3, <1>4, <1>5, <1>6, <1>7, <1>8, <1>9, <1>10, <1>11,
     <1>12, <1>13, <1>14, <1>15, <1>16, <1>17, <1>18, <1>19, <1>20, <1>21,
     <1>22
     DEF Next, InitiatePayment, PostCapturedPayment


\* Only an announced capture is posted.
LEMMA TakenStep ==
  ASSUME Typed, NothingBeforeTheRow, WordOfCapture, CaptureInv, PostedMoneyWasTaken,
         [Next]_vars PROVE PostedMoneyWasTaken'
<1> USE CallFields, Where
    DEF CallTo, RowTo, Typed, TypeOK, NothingBeforeTheRow, WordOfCapture,
        CaptureInv, PostedMoneyWasTaken, Taken, PostInSap
<1>1. ASSUME NEW w \in Web, NEW p \in Payments, Validate(w, p)
      PROVE PostedMoneyWasTaken'
  BY <1>1, ValidateDoes
<1>2. ASSUME NEW w \in Web, Create(w) PROVE PostedMoneyWasTaken'
  BY <1>2, CreateDoes
<1>3. ASSUME NEW w \in Web, CreateOrder(w) PROVE PostedMoneyWasTaken'
  BY <1>3, CreateOrderDoes
<1>4. ASSUME NEW w \in Web, CreateOrderFails(w) PROVE PostedMoneyWasTaken'
  BY <1>4, CreateOrderFailsDoes
<1>5. ASSUME NEW w \in Web, Close(w) PROVE PostedMoneyWasTaken'
  BY <1>5, CloseDoes
<1>6. ASSUME NEW w \in Web, StoreReference(w) PROVE PostedMoneyWasTaken'
  BY <1>6, StoreReferenceDoes
<1>7. ASSUME NEW w \in Web, NEW ev \in Types, NEW p \in Payments, Receive(w, ev, p)
      PROVE PostedMoneyWasTaken'
  <2>1. /\ proc[w].pc = "idle"
        /\ row[p].ref /\ <<ev, p>> \in hooks
        /\ IF row[p].lastEvent = ev
           THEN /\ UNCHANGED proc
                /\ acked' = IF ev = "captured" THEN acked \union {p} ELSE acked
           ELSE /\ UNCHANGED acked
                /\ \/ ev = "failed" /\ row[p].state = "initiated" /\ CallTo(w, "fail", p, ev, 0)
                   \/ ev = "captured" /\ row[p].state = "initiated" /\ CallTo(w, "capture", p, ev, 0)
                   \/ ev = "captured" /\ row[p].state # "initiated" /\ CallTo(w, "read", p, ev, 0)
        /\ UNCHANGED <<row, outbox, gateway, hooks, sapDoc, docs, open, faults>>
    BY <1>7, ReceiveDoes
  <2> QED
    BY <2>1
<1>8. ASSUME NEW w \in Web, NEW ev \in Types, NEW p \in Payments, ReceiveUnknown(w, ev, p)
      PROVE PostedMoneyWasTaken'
  BY <1>8 DEF ReceiveUnknown
<1>9. ASSUME NEW w \in Desk, NEW p \in Payments, Reconcile(w, p)
      PROVE PostedMoneyWasTaken'
  BY <1>9, ReconcileDoes
<1>10. ASSUME NEW w \in Bus, NEW p \in Payments, HandleCaptured(w, p)
      PROVE PostedMoneyWasTaken'
  <2>1. /\ proc[w].pc = "idle"
        /\ <<"captured", p>> \in outbox
        /\ CallTo(w, "read", p, "none", 0)
        /\ UNCHANGED <<row, outbox, gateway, hooks, acked, sapDoc, docs, open, faults>>
    BY <1>10, HandleCapturedDoes
  <2> QED
    BY <2>1
<1>11. ASSUME NEW w \in Procs, RecordFailure(w) PROVE PostedMoneyWasTaken'
  BY <1>11, RecordFailureDoes
<1>12. ASSUME NEW w \in Procs, RecordCapture(w) PROVE PostedMoneyWasTaken'
  BY <1>12, RecordCaptureDoes
<1>13. ASSUME NEW w \in Procs, Poll(w) PROVE PostedMoneyWasTaken'
  BY <1>13, PollDoes
<1>14. ASSUME NEW w \in Procs, ReadForPosting(w) PROVE PostedMoneyWasTaken'
  BY <1>14, ReadForPostingDoes
<1>15. ASSUME NEW w \in Procs, SapPosts(w) PROVE PostedMoneyWasTaken'
  <2>1. proc[w].p \in Payments /\ <<"captured", proc[w].p>> \in outbox /\ gateway' = gateway
    BY <1>15, SapPostsDoes DEF CaptureInv
  <2>2. \A x \in Payments : x # proc[w].p => sapDoc'[x] = sapDoc[x]
    <3>1. PostInSap(proc[w].p) \/ sapDoc' = sapDoc
      BY <1>15, SapPostsDoes
    <3>2. sapDoc' = sapDoc \/ sapDoc' = [sapDoc EXCEPT ![proc[w].p] = docs + 1]
      BY <3>1 DEF PostInSap
    <3> QED
      BY <3>2 DEF Typed, TypeOK
  <2> QED
    BY <2>1, <2>2 DEF WordOfCapture, Taken, PostedMoneyWasTaken
<1>16. ASSUME NEW w \in Procs, SapRejects(w) PROVE PostedMoneyWasTaken'
  BY <1>16, SapRejectsDoes
<1>17. ASSUME NEW w \in Procs, RecordPosting(w) PROVE PostedMoneyWasTaken'
  BY <1>17, RecordPostingDoes
<1>18. ASSUME NEW w \in Procs, SapUnavailable(w) PROVE PostedMoneyWasTaken'
  <2>1. proc[w].p \in Payments /\ <<"captured", proc[w].p>> \in outbox /\ gateway' = gateway
    BY <1>18, SapUnavailableDoes DEF CaptureInv
  <2>2. \A x \in Payments : x # proc[w].p => sapDoc'[x] = sapDoc[x]
    <3>1. PostInSap(proc[w].p) \/ sapDoc' = sapDoc
      BY <1>18, SapUnavailableDoes
    <3>2. sapDoc' = sapDoc \/ sapDoc' = [sapDoc EXCEPT ![proc[w].p] = docs + 1]
      BY <3>1 DEF PostInSap
    <3> QED
      BY <3>2 DEF Typed, TypeOK
  <2> QED
    BY <2>1, <2>2 DEF WordOfCapture, Taken, PostedMoneyWasTaken
<1>19. ASSUME NEW w \in Procs, Die(w) PROVE PostedMoneyWasTaken'
  BY <1>19, DieDoes
<1>20. ASSUME NEW p \in Payments, GatewayCaptures(p) PROVE PostedMoneyWasTaken'
  BY <1>20 DEF GatewayCaptures, CanPay
<1>21. ASSUME NEW p \in Payments, GatewayDeclines(p) PROVE PostedMoneyWasTaken'
  BY <1>21 DEF GatewayDeclines, CanPay
<1>22. CASE UNCHANGED vars
  BY <1>22 DEF vars
<1> QED
  BY <1>1, <1>2, <1>3, <1>4, <1>5, <1>6, <1>7, <1>8, <1>9, <1>10, <1>11,
     <1>12, <1>13, <1>14, <1>15, <1>16, <1>17, <1>18, <1>19, <1>20, <1>21,
     <1>22
     DEF Next, InitiatePayment, PostCapturedPayment


\* SAP's document for a payment is made once and recorded as it is.
LEMMA ReceiptStep ==
  ASSUME Typed, ReceiptInv, [Next]_vars PROVE ReceiptInv'
<1> USE CallFields, Where
    DEF CallTo, RowTo, Typed, TypeOK, CallsNamePayments, ReceiptInv,
        ReceiptHasPosting, PostInSap
<1>1. ASSUME NEW w \in Web, NEW p \in Payments, Validate(w, p) PROVE ReceiptInv'
  BY <1>1, ValidateDoes
<1>2. ASSUME NEW w \in Web, Create(w) PROVE ReceiptInv'
  BY <1>2, CreateDoes
<1>3. ASSUME NEW w \in Web, CreateOrder(w) PROVE ReceiptInv'
  BY <1>3, CreateOrderDoes
<1>4. ASSUME NEW w \in Web, CreateOrderFails(w) PROVE ReceiptInv'
  BY <1>4, CreateOrderFailsDoes
<1>5. ASSUME NEW w \in Web, Close(w) PROVE ReceiptInv'
  BY <1>5, CloseDoes
<1>6. ASSUME NEW w \in Web, StoreReference(w) PROVE ReceiptInv'
  BY <1>6, StoreReferenceDoes
<1>7. ASSUME NEW w \in Web, NEW ev \in Types, NEW p \in Payments, Receive(w, ev, p)
      PROVE ReceiptInv'
  <2>1. /\ proc[w].pc = "idle"
        /\ row[p].ref /\ <<ev, p>> \in hooks
        /\ IF row[p].lastEvent = ev
           THEN /\ UNCHANGED proc
                /\ acked' = IF ev = "captured" THEN acked \union {p} ELSE acked
           ELSE /\ UNCHANGED acked
                /\ \/ ev = "failed" /\ row[p].state = "initiated" /\ CallTo(w, "fail", p, ev, 0)
                   \/ ev = "captured" /\ row[p].state = "initiated" /\ CallTo(w, "capture", p, ev, 0)
                   \/ ev = "captured" /\ row[p].state # "initiated" /\ CallTo(w, "read", p, ev, 0)
        /\ UNCHANGED <<row, outbox, gateway, hooks, sapDoc, docs, open, faults>>
    BY <1>7, ReceiveDoes
  <2> QED
    BY <2>1
<1>8. ASSUME NEW w \in Web, NEW ev \in Types, NEW p \in Payments, ReceiveUnknown(w, ev, p)
      PROVE ReceiptInv'
  BY <1>8 DEF ReceiveUnknown
<1>9. ASSUME NEW w \in Desk, NEW p \in Payments, Reconcile(w, p) PROVE ReceiptInv'
  BY <1>9, ReconcileDoes
<1>10. ASSUME NEW w \in Bus, NEW p \in Payments, HandleCaptured(w, p) PROVE ReceiptInv'
  <2>1. /\ proc[w].pc = "idle"
        /\ <<"captured", p>> \in outbox
        /\ CallTo(w, "read", p, "none", 0)
        /\ UNCHANGED <<row, outbox, gateway, hooks, acked, sapDoc, docs, open, faults>>
    BY <1>10, HandleCapturedDoes
  <2> QED
    BY <2>1
<1>11. ASSUME NEW w \in Procs, RecordFailure(w) PROVE ReceiptInv'
  BY <1>11, RecordFailureDoes
<1>12. ASSUME NEW w \in Procs, RecordCapture(w) PROVE ReceiptInv'
  BY <1>12, RecordCaptureDoes
<1>13. ASSUME NEW w \in Procs, Poll(w) PROVE ReceiptInv'
  BY <1>13, PollDoes
<1>14. ASSUME NEW w \in Procs, ReadForPosting(w) PROVE ReceiptInv'
  BY <1>14, ReadForPostingDoes
<1>15. ASSUME NEW w \in Procs, SapPosts(w) PROVE ReceiptInv'
  BY <1>15, SapPostsDoes
<1>16. ASSUME NEW w \in Procs, SapRejects(w) PROVE ReceiptInv'
  BY <1>16, SapRejectsDoes
<1>17. ASSUME NEW w \in Procs, RecordPosting(w) PROVE ReceiptInv'
  BY <1>17, RecordPostingDoes
<1>18. ASSUME NEW w \in Procs, SapUnavailable(w) PROVE ReceiptInv'
  BY <1>18, SapUnavailableDoes
<1>19. ASSUME NEW w \in Procs, Die(w) PROVE ReceiptInv'
  BY <1>19, DieDoes
<1>20. ASSUME NEW p \in Payments, GatewayCaptures(p) PROVE ReceiptInv'
  BY <1>20 DEF GatewayCaptures, CanPay
<1>21. ASSUME NEW p \in Payments, GatewayDeclines(p) PROVE ReceiptInv'
  BY <1>21 DEF GatewayDeclines, CanPay
<1>22. CASE UNCHANGED vars
  BY <1>22 DEF vars
<1> QED
  BY <1>1, <1>2, <1>3, <1>4, <1>5, <1>6, <1>7, <1>8, <1>9, <1>10, <1>11,
     <1>12, <1>13, <1>14, <1>15, <1>16, <1>17, <1>18, <1>19, <1>20, <1>21,
     <1>22
     DEF Next, InitiatePayment, PostCapturedPayment


\* SAP's document for a payment, once made, stays, and so does every event.
LEMMA OneDocument ==
  ASSUME Typed, [Next]_vars, NEW p \in Payments, sapDoc[p] # 0
  PROVE  sapDoc'[p] = sapDoc[p] /\ outbox \subseteq outbox'
<1>1. ASSUME NEW w \in Web, NEW q \in Payments, Validate(w, q)
      PROVE sapDoc'[p] = sapDoc[p] /\ outbox \subseteq outbox'
  BY <1>1 DEF Validate
<1>2. ASSUME NEW w \in Web, Create(w)
      PROVE sapDoc'[p] = sapDoc[p] /\ outbox \subseteq outbox'
  BY <1>2 DEF Create
<1>3. ASSUME NEW w \in Web, CreateOrder(w)
      PROVE sapDoc'[p] = sapDoc[p] /\ outbox \subseteq outbox'
  BY <1>3 DEF CreateOrder
<1>4. ASSUME NEW w \in Web, CreateOrderFails(w)
      PROVE sapDoc'[p] = sapDoc[p] /\ outbox \subseteq outbox'
  BY <1>4 DEF CreateOrderFails
<1>5. ASSUME NEW w \in Web, Close(w)
      PROVE sapDoc'[p] = sapDoc[p] /\ outbox \subseteq outbox'
  BY <1>5 DEF Close
<1>6. ASSUME NEW w \in Web, StoreReference(w)
      PROVE sapDoc'[p] = sapDoc[p] /\ outbox \subseteq outbox'
  BY <1>6 DEF StoreReference
<1>7. ASSUME NEW w \in Web, NEW ev \in Types, NEW q \in Payments, Receive(w, ev, q)
      PROVE sapDoc'[p] = sapDoc[p] /\ outbox \subseteq outbox'
  BY <1>7 DEF Receive
<1>8. ASSUME NEW w \in Web, NEW ev \in Types, NEW q \in Payments, ReceiveUnknown(w, ev, q)
      PROVE sapDoc'[p] = sapDoc[p] /\ outbox \subseteq outbox'
  BY <1>8 DEF ReceiveUnknown
<1>9. ASSUME NEW w \in Desk, NEW q \in Payments, Reconcile(w, q)
      PROVE sapDoc'[p] = sapDoc[p] /\ outbox \subseteq outbox'
  BY <1>9 DEF Reconcile
<1>10. ASSUME NEW w \in Bus, NEW q \in Payments, HandleCaptured(w, q)
      PROVE sapDoc'[p] = sapDoc[p] /\ outbox \subseteq outbox'
  BY <1>10 DEF HandleCaptured
<1>11. ASSUME NEW w \in Procs, RecordFailure(w)
      PROVE sapDoc'[p] = sapDoc[p] /\ outbox \subseteq outbox'
  BY <1>11 DEF RecordFailure
<1>12. ASSUME NEW w \in Procs, RecordCapture(w)
      PROVE sapDoc'[p] = sapDoc[p] /\ outbox \subseteq outbox'
  BY <1>12 DEF RecordCapture
<1>13. ASSUME NEW w \in Procs, Poll(w)
      PROVE sapDoc'[p] = sapDoc[p] /\ outbox \subseteq outbox'
  BY <1>13 DEF Poll
<1>14. ASSUME NEW w \in Procs, ReadForPosting(w)
      PROVE sapDoc'[p] = sapDoc[p] /\ outbox \subseteq outbox'
  BY <1>14 DEF ReadForPosting
<1>15. ASSUME NEW w \in Procs, SapPosts(w)
      PROVE sapDoc'[p] = sapDoc[p] /\ outbox \subseteq outbox'
  BY <1>15, SapPostsDoes DEF PostInSap, Typed, TypeOK
<1>16. ASSUME NEW w \in Procs, SapRejects(w)
      PROVE sapDoc'[p] = sapDoc[p] /\ outbox \subseteq outbox'
  BY <1>16 DEF SapRejects
<1>17. ASSUME NEW w \in Procs, RecordPosting(w)
      PROVE sapDoc'[p] = sapDoc[p] /\ outbox \subseteq outbox'
  BY <1>17 DEF RecordPosting
<1>18. ASSUME NEW w \in Procs, SapUnavailable(w)
      PROVE sapDoc'[p] = sapDoc[p] /\ outbox \subseteq outbox'
  BY <1>18, SapUnavailableDoes DEF PostInSap, Typed, TypeOK
<1>19. ASSUME NEW w \in Procs, Die(w)
      PROVE sapDoc'[p] = sapDoc[p] /\ outbox \subseteq outbox'
  BY <1>19 DEF Die
<1>20. ASSUME NEW q \in Payments, GatewayCaptures(q)
      PROVE sapDoc'[p] = sapDoc[p] /\ outbox \subseteq outbox'
  BY <1>20 DEF GatewayCaptures
<1>21. ASSUME NEW q \in Payments, GatewayDeclines(q)
      PROVE sapDoc'[p] = sapDoc[p] /\ outbox \subseteq outbox'
  BY <1>21 DEF GatewayDeclines
<1>22. CASE UNCHANGED vars
  BY <1>22 DEF vars
<1> QED
  BY <1>1, <1>2, <1>3, <1>4, <1>5, <1>6, <1>7, <1>8, <1>9, <1>10, <1>11,
     <1>12, <1>13, <1>14, <1>15, <1>16, <1>17, <1>18, <1>19, <1>20, <1>21,
     <1>22
     DEF Next, InitiatePayment, PostCapturedPayment

----------------------------------------------------------------------------
(* A gateway that ends an attempt with its first answer, and lets nobody   *)
(* pay before the checkout URL is returned.                                *)

Prompt == ~Retryable /\ ~Eager

\* Nothing is paid, or declined, before the reference is stored.
PaidUnderReference ==
  \A p \in Payments : gateway[p] \in {"captured", "failed"} => row[p].ref

\* Whoever says that a payment failed is right.
WordOfFailure ==
  /\ \A p \in Payments : <<"failed", p>> \in hooks => gateway[p] = "failed"
  /\ \A w \in Procs : proc[w].pc = "fail" =>
       gateway[proc[w].p] = "failed" /\ proc[w].ev # "captured"
  /\ \A w \in Procs : proc[w].pc = "poll" => proc[w].ev # "captured"

\* While its request is in flight the row is initiated and has no reference;
\* a failed row is one the gateway declined, or one nobody can pay.
RequestOwnsRow ==
  /\ \A w \in Procs : proc[w].pc \in {"order", "store", "close"} =>
       row[proc[w].p].state = "initiated" /\ ~row[proc[w].p].ref
  /\ \A p \in Payments : row[p].state = "failed" => gateway[p] = "failed" \/ ~row[p].ref

\* A capture that was heard of is on the row.
Kept(p) == row[p].state \in {"captured", "posted"}
HeardIsKept ==
  /\ \A p \in Payments : row[p].lastEvent = "captured" => Kept(p)
  /\ \A w \in Procs : proc[w].pc \in {"read", "sap", "record"} /\ proc[w].ev = "captured"
       => Kept(proc[w].p)
  /\ AckedCaptureIsRecorded

PromptInv == PaidUnderReference /\ WordOfFailure /\ RequestOwnsRow /\ HeardIsKept

\* The reference stays once it is stored.
LEMMA PaidStep ==
  ASSUME Prompt, Typed, PaidUnderReference, [Next]_vars PROVE PaidUnderReference'
<1> USE CallFields, Where
    DEF Prompt, CallTo, RowTo, Typed, TypeOK, PaidUnderReference
<1>1. ASSUME NEW w \in Web, NEW p \in Payments, Validate(w, p) PROVE PaidUnderReference'
  BY <1>1, ValidateDoes
<1>2. ASSUME NEW w \in Web, Create(w) PROVE PaidUnderReference'
  BY <1>2, CreateDoes
<1>3. ASSUME NEW w \in Web, CreateOrder(w) PROVE PaidUnderReference'
  BY <1>3, CreateOrderDoes
<1>4. ASSUME NEW w \in Web, CreateOrderFails(w) PROVE PaidUnderReference'
  BY <1>4, CreateOrderFailsDoes
<1>5. ASSUME NEW w \in Web, Close(w) PROVE PaidUnderReference'
  BY <1>5, CloseDoes
<1>6. ASSUME NEW w \in Web, StoreReference(w) PROVE PaidUnderReference'
  BY <1>6, StoreReferenceDoes
<1>7. ASSUME NEW w \in Web, NEW ev \in Types, NEW p \in Payments, Receive(w, ev, p)
      PROVE PaidUnderReference'
  <2>1. /\ proc[w].pc = "idle"
        /\ row[p].ref /\ <<ev, p>> \in hooks
        /\ IF row[p].lastEvent = ev
           THEN /\ UNCHANGED proc
                /\ acked' = IF ev = "captured" THEN acked \union {p} ELSE acked
           ELSE /\ UNCHANGED acked
                /\ \/ ev = "failed" /\ row[p].state = "initiated" /\ CallTo(w, "fail", p, ev, 0)
                   \/ ev = "captured" /\ row[p].state = "initiated" /\ CallTo(w, "capture", p, ev, 0)
                   \/ ev = "captured" /\ row[p].state # "initiated" /\ CallTo(w, "read", p, ev, 0)
        /\ UNCHANGED <<row, outbox, gateway, hooks, sapDoc, docs, open, faults>>
    BY <1>7, ReceiveDoes
  <2> QED
    BY <2>1
<1>8. ASSUME NEW w \in Web, NEW ev \in Types, NEW p \in Payments, ReceiveUnknown(w, ev, p)
      PROVE PaidUnderReference'
  BY <1>8 DEF ReceiveUnknown
<1>9. ASSUME NEW w \in Desk, NEW p \in Payments, Reconcile(w, p)
      PROVE PaidUnderReference'
  BY <1>9, ReconcileDoes
<1>10. ASSUME NEW w \in Bus, NEW p \in Payments, HandleCaptured(w, p)
      PROVE PaidUnderReference'
  <2>1. /\ proc[w].pc = "idle"
        /\ <<"captured", p>> \in outbox
        /\ CallTo(w, "read", p, "none", 0)
        /\ UNCHANGED <<row, outbox, gateway, hooks, acked, sapDoc, docs, open, faults>>
    BY <1>10, HandleCapturedDoes
  <2> QED
    BY <2>1
<1>11. ASSUME NEW w \in Procs, RecordFailure(w) PROVE PaidUnderReference'
  BY <1>11, RecordFailureDoes
<1>12. ASSUME NEW w \in Procs, RecordCapture(w) PROVE PaidUnderReference'
  BY <1>12, RecordCaptureDoes
<1>13. ASSUME NEW w \in Procs, Poll(w) PROVE PaidUnderReference'
  BY <1>13, PollDoes
<1>14. ASSUME NEW w \in Procs, ReadForPosting(w) PROVE PaidUnderReference'
  BY <1>14, ReadForPostingDoes
<1>15. ASSUME NEW w \in Procs, SapPosts(w) PROVE PaidUnderReference'
  BY <1>15, SapPostsDoes
<1>16. ASSUME NEW w \in Procs, SapRejects(w) PROVE PaidUnderReference'
  BY <1>16, SapRejectsDoes
<1>17. ASSUME NEW w \in Procs, RecordPosting(w) PROVE PaidUnderReference'
  BY <1>17, RecordPostingDoes
<1>18. ASSUME NEW w \in Procs, SapUnavailable(w) PROVE PaidUnderReference'
  BY <1>18, SapUnavailableDoes
<1>19. ASSUME NEW w \in Procs, Die(w) PROVE PaidUnderReference'
  BY <1>19, DieDoes
<1>20. ASSUME NEW p \in Payments, GatewayCaptures(p) PROVE PaidUnderReference'
  BY <1>20 DEF GatewayCaptures, CanPay
<1>21. ASSUME NEW p \in Payments, GatewayDeclines(p) PROVE PaidUnderReference'
  BY <1>21 DEF GatewayDeclines, CanPay
<1>22. CASE UNCHANGED vars
  BY <1>22 DEF vars
<1> QED
  BY <1>1, <1>2, <1>3, <1>4, <1>5, <1>6, <1>7, <1>8, <1>9, <1>10, <1>11,
     <1>12, <1>13, <1>14, <1>15, <1>16, <1>17, <1>18, <1>19, <1>20, <1>21,
     <1>22
     DEF Next, InitiatePayment, PostCapturedPayment


\* A failure is told on the gateway's word, and is final.
LEMMA FailureStep ==
  ASSUME Prompt, Typed, NothingBeforeTheRow, WordOfFailure, [Next]_vars PROVE
         WordOfFailure'
<1> USE CallFields, Where
    DEF Prompt, CallTo, RowTo, Typed, TypeOK, CallsNamePayments,
        NothingBeforeTheRow, WordOfFailure
<1>1. ASSUME NEW w \in Web, NEW p \in Payments, Validate(w, p) PROVE WordOfFailure'
  BY <1>1, ValidateDoes
<1>2. ASSUME NEW w \in Web, Create(w) PROVE WordOfFailure'
  BY <1>2, CreateDoes
<1>3. ASSUME NEW w \in Web, CreateOrder(w) PROVE WordOfFailure'
  BY <1>3, CreateOrderDoes
<1>4. ASSUME NEW w \in Web, CreateOrderFails(w) PROVE WordOfFailure'
  BY <1>4, CreateOrderFailsDoes
<1>5. ASSUME NEW w \in Web, Close(w) PROVE WordOfFailure'
  BY <1>5, CloseDoes
<1>6. ASSUME NEW w \in Web, StoreReference(w) PROVE WordOfFailure'
  BY <1>6, StoreReferenceDoes, SMTT(30)
<1>7. ASSUME NEW w \in Web, NEW ev \in Types, NEW p \in Payments, Receive(w, ev, p)
      PROVE WordOfFailure'
  <2>1. /\ proc[w].pc = "idle"
        /\ row[p].ref /\ <<ev, p>> \in hooks
        /\ IF row[p].lastEvent = ev
           THEN /\ UNCHANGED proc
                /\ acked' = IF ev = "captured" THEN acked \union {p} ELSE acked
           ELSE /\ UNCHANGED acked
                /\ \/ ev = "failed" /\ row[p].state = "initiated" /\ CallTo(w, "fail", p, ev, 0)
                   \/ ev = "captured" /\ row[p].state = "initiated" /\ CallTo(w, "capture", p, ev, 0)
                   \/ ev = "captured" /\ row[p].state # "initiated" /\ CallTo(w, "read", p, ev, 0)
        /\ UNCHANGED <<row, outbox, gateway, hooks, sapDoc, docs, open, faults>>
    BY <1>7, ReceiveDoes
  <2> QED
    BY <2>1
<1>8. ASSUME NEW w \in Web, NEW ev \in Types, NEW p \in Payments, ReceiveUnknown(w, ev, p)
      PROVE WordOfFailure'
  BY <1>8 DEF ReceiveUnknown
<1>9. ASSUME NEW w \in Desk, NEW p \in Payments, Reconcile(w, p) PROVE WordOfFailure'
  BY <1>9, ReconcileDoes
<1>10. ASSUME NEW w \in Bus, NEW p \in Payments, HandleCaptured(w, p)
      PROVE WordOfFailure'
  <2>1. /\ proc[w].pc = "idle"
        /\ <<"captured", p>> \in outbox
        /\ CallTo(w, "read", p, "none", 0)
        /\ UNCHANGED <<row, outbox, gateway, hooks, acked, sapDoc, docs, open, faults>>
    BY <1>10, HandleCapturedDoes
  <2> QED
    BY <2>1
<1>11. ASSUME NEW w \in Procs, RecordFailure(w) PROVE WordOfFailure'
  BY <1>11, RecordFailureDoes
<1>12. ASSUME NEW w \in Procs, RecordCapture(w) PROVE WordOfFailure'
  BY <1>12, RecordCaptureDoes
<1>13. ASSUME NEW w \in Procs, Poll(w) PROVE WordOfFailure'
  BY <1>13, PollDoes
<1>14. ASSUME NEW w \in Procs, ReadForPosting(w) PROVE WordOfFailure'
  BY <1>14, ReadForPostingDoes
<1>15. ASSUME NEW w \in Procs, SapPosts(w) PROVE WordOfFailure'
  BY <1>15, SapPostsDoes
<1>16. ASSUME NEW w \in Procs, SapRejects(w) PROVE WordOfFailure'
  BY <1>16, SapRejectsDoes
<1>17. ASSUME NEW w \in Procs, RecordPosting(w) PROVE WordOfFailure'
  BY <1>17, RecordPostingDoes
<1>18. ASSUME NEW w \in Procs, SapUnavailable(w) PROVE WordOfFailure'
  BY <1>18, SapUnavailableDoes
<1>19. ASSUME NEW w \in Procs, Die(w) PROVE WordOfFailure'
  BY <1>19, DieDoes
<1>20. ASSUME NEW p \in Payments, GatewayCaptures(p) PROVE WordOfFailure'
  BY <1>20 DEF GatewayCaptures, CanPay
<1>21. ASSUME NEW p \in Payments, GatewayDeclines(p) PROVE WordOfFailure'
  BY <1>21 DEF GatewayDeclines, CanPay
<1>22. CASE UNCHANGED vars
  BY <1>22 DEF vars
<1> QED
  BY <1>1, <1>2, <1>3, <1>4, <1>5, <1>6, <1>7, <1>8, <1>9, <1>10, <1>11,
     <1>12, <1>13, <1>14, <1>15, <1>16, <1>17, <1>18, <1>19, <1>20, <1>21,
     <1>22
     DEF Next, InitiatePayment, PostCapturedPayment


\* Nobody else writes the row of a request in flight.
LEMMA RequestStep ==
  ASSUME Prompt, Typed, OneRequest, NothingBeforeTheRow, WordOfCapture, CaptureInv,
         PaidUnderReference, WordOfFailure, RequestOwnsRow, [Next]_vars PROVE
         RequestOwnsRow'
<1> USE CallFields, Where
    DEF CallTo, RowTo, Typed, TypeOK, CallsNamePayments, OneRequest, Opening,
        NothingBeforeTheRow, WordOfCapture, Taken, CaptureInv, PaidUnderReference,
        WordOfFailure, RequestOwnsRow, Prompt
<1>1. ASSUME NEW w \in Web, NEW p \in Payments, Validate(w, p) PROVE RequestOwnsRow'
  BY <1>1, ValidateDoes
<1>2. ASSUME NEW w \in Web, Create(w) PROVE RequestOwnsRow'
  <2>1. /\ w \in Procs
        /\ proc[w].pc = "create"
        /\ proc[w].p \in Payments
        /\ RowTo(proc[w].p, "initiated", row[proc[w].p].ref, row[proc[w].p].lastEvent, row[proc[w].p].fi)
        /\ CallTo(w, "order", proc[w].p, proc[w].ev, proc[w].doc)
        /\ UNCHANGED <<outbox, gateway, hooks, acked, sapDoc, docs, open, faults>>
    BY <1>2, CreateDoes
  <2>2. row[proc[w].p].state = "absent" /\ ~row[proc[w].p].ref
    BY <2>1 DEF NothingBeforeTheRow
  <2>3. \A v \in Procs : v # w /\ proc[v].pc \in {"order", "store", "close"} => proc[v].p # proc[w].p
    BY <2>1, <2>2 DEF NothingBeforeTheRow
  <2>4. \A v \in Procs : v # w => proc'[v] = proc[v] /\ (proc[v].pc # "idle" => proc[v].p \in Payments)
    BY <2>1 DEF CallTo, Typed, CallsNamePayments
  <2> QED
    BY <2>1, <2>2, <2>3, <2>4 DEF CallTo, RowTo, RequestOwnsRow
<1>3. ASSUME NEW w \in Web, CreateOrder(w) PROVE RequestOwnsRow'
  BY <1>3, CreateOrderDoes
<1>4. ASSUME NEW w \in Web, CreateOrderFails(w) PROVE RequestOwnsRow'
  BY <1>4, CreateOrderFailsDoes
<1>5. ASSUME NEW w \in Web, Close(w) PROVE RequestOwnsRow'
  BY <1>5, CloseDoes
<1>6. ASSUME NEW w \in Web, StoreReference(w) PROVE RequestOwnsRow'
  BY <1>6, StoreReferenceDoes, SMTT(30)
<1>7. ASSUME NEW w \in Web, NEW ev \in Types, NEW p \in Payments, Receive(w, ev, p)
      PROVE RequestOwnsRow'
  <2>1. /\ proc[w].pc = "idle"
        /\ row[p].ref /\ <<ev, p>> \in hooks
        /\ IF row[p].lastEvent = ev
           THEN /\ UNCHANGED proc
                /\ acked' = IF ev = "captured" THEN acked \union {p} ELSE acked
           ELSE /\ UNCHANGED acked
                /\ \/ ev = "failed" /\ row[p].state = "initiated" /\ CallTo(w, "fail", p, ev, 0)
                   \/ ev = "captured" /\ row[p].state = "initiated" /\ CallTo(w, "capture", p, ev, 0)
                   \/ ev = "captured" /\ row[p].state # "initiated" /\ CallTo(w, "read", p, ev, 0)
        /\ UNCHANGED <<row, outbox, gateway, hooks, sapDoc, docs, open, faults>>
    BY <1>7, ReceiveDoes
  <2> QED
    BY <2>1
<1>8. ASSUME NEW w \in Web, NEW ev \in Types, NEW p \in Payments, ReceiveUnknown(w, ev, p)
      PROVE RequestOwnsRow'
  BY <1>8 DEF ReceiveUnknown
<1>9. ASSUME NEW w \in Desk, NEW p \in Payments, Reconcile(w, p) PROVE RequestOwnsRow'
  BY <1>9, ReconcileDoes
<1>10. ASSUME NEW w \in Bus, NEW p \in Payments, HandleCaptured(w, p)
      PROVE RequestOwnsRow'
  <2>1. /\ proc[w].pc = "idle"
        /\ <<"captured", p>> \in outbox
        /\ CallTo(w, "read", p, "none", 0)
        /\ UNCHANGED <<row, outbox, gateway, hooks, acked, sapDoc, docs, open, faults>>
    BY <1>10, HandleCapturedDoes
  <2> QED
    BY <2>1
<1>11. ASSUME NEW w \in Procs, RecordFailure(w) PROVE RequestOwnsRow'
  BY <1>11, RecordFailureDoes
<1>12. ASSUME NEW w \in Procs, RecordCapture(w) PROVE RequestOwnsRow'
  BY <1>12, RecordCaptureDoes
<1>13. ASSUME NEW w \in Procs, Poll(w) PROVE RequestOwnsRow'
  BY <1>13, PollDoes
<1>14. ASSUME NEW w \in Procs, ReadForPosting(w) PROVE RequestOwnsRow'
  BY <1>14, ReadForPostingDoes
<1>15. ASSUME NEW w \in Procs, SapPosts(w) PROVE RequestOwnsRow'
  BY <1>15, SapPostsDoes
<1>16. ASSUME NEW w \in Procs, SapRejects(w) PROVE RequestOwnsRow'
  BY <1>16, SapRejectsDoes
<1>17. ASSUME NEW w \in Procs, RecordPosting(w) PROVE RequestOwnsRow'
  <2>1. /\ w \in Procs
        /\ proc[w].pc = "record"
        /\ proc[w].p \in Payments
        /\ RowTo(proc[w].p, "posted", row[proc[w].p].ref, row[proc[w].p].lastEvent, proc[w].doc)
        /\ CallTo(w, "idle", None, "none", 0)
        /\ outbox' = outbox \union {<<"posted", proc[w].p>>}
        /\ Ack(w)
        /\ UNCHANGED <<gateway, hooks, sapDoc, docs, open, faults>>
    BY <1>17, RecordPostingDoes
  <2>2. row[proc[w].p].ref
    BY <2>1 DEF CaptureInv, WordOfCapture, Taken, PaidUnderReference
  <2>3. \A v \in Procs : proc[v].pc \in {"order", "store", "close"} => proc[v].p # proc[w].p
    BY <2>1, <2>2 DEF RequestOwnsRow
  <2>4. \A v \in Procs : proc[v].pc # "idle" => proc[v].p \in Payments
    BY DEF Typed, CallsNamePayments
  <2> QED
    BY <2>1, <2>3, <2>4 DEF CallTo, RowTo, RequestOwnsRow
<1>18. ASSUME NEW w \in Procs, SapUnavailable(w) PROVE RequestOwnsRow'
  BY <1>18, SapUnavailableDoes
<1>19. ASSUME NEW w \in Procs, Die(w) PROVE RequestOwnsRow'
  BY <1>19, DieDoes
<1>20. ASSUME NEW p \in Payments, GatewayCaptures(p) PROVE RequestOwnsRow'
  BY <1>20 DEF GatewayCaptures, CanPay
<1>21. ASSUME NEW p \in Payments, GatewayDeclines(p) PROVE RequestOwnsRow'
  BY <1>21 DEF GatewayDeclines, CanPay
<1>22. CASE UNCHANGED vars
  BY <1>22 DEF vars
<1> QED
  BY <1>1, <1>2, <1>3, <1>4, <1>5, <1>6, <1>7, <1>8, <1>9, <1>10, <1>11,
     <1>12, <1>13, <1>14, <1>15, <1>16, <1>17, <1>18, <1>19, <1>20, <1>21,
     <1>22
     DEF Next, InitiatePayment, PostCapturedPayment


\* Who decides on a failure has read a row, or an answer, without a capture.
LEMMA FailureDecided ==
  ASSUME Typed, NothingBeforeTheRow, WordOfCapture, CaptureInv, [Next]_vars,
         NEW u \in Procs, proc'[u].pc \in {"fail", "close"}, proc'[u] # proc[u]
  PROVE  row[proc'[u].p].state \notin {"captured", "posted"}
<1> DEFINE Decided == row[proc'[u].p].state \notin {"captured", "posted"}
<1> USE CallFields, Where
    DEF CallTo, Typed, TypeOK, CallsNamePayments, NothingBeforeTheRow, WordOfCapture,
        CaptureInv, CaptureIsAnnounced, Taken
<1>1. ASSUME NEW w \in Web, NEW p \in Payments, Validate(w, p) PROVE Decided
  BY <1>1, ValidateDoes
<1>2. ASSUME NEW w \in Web, Create(w) PROVE Decided
  BY <1>2, CreateDoes
<1>3. ASSUME NEW w \in Web, CreateOrder(w) PROVE Decided
  BY <1>3, CreateOrderDoes
<1>c. ASSUME NEW p \in Payments, row[p].state \in {"captured", "posted"} PROVE Taken(p)
  BY <1>c
<1> HIDE DEF Taken
<1>4. ASSUME NEW w \in Web, CreateOrderFails(w) PROVE Decided
  <2>1. /\ w \in Procs /\ proc[w].pc = "order" /\ proc[w].p \in Payments
        /\ CallTo(w, "close", proc[w].p, proc[w].ev, proc[w].doc)
    BY <1>4, CreateOrderFailsDoes
  <2>2. gateway[proc[w].p] = "none"
    BY <2>1
  <2>3. u = w /\ proc'[u].p = proc[w].p
    BY <2>1
  <2> QED
    BY <1>c, <2>1, <2>2, <2>3 DEF Taken
<1>5. ASSUME NEW w \in Web, Close(w) PROVE Decided
  BY <1>5, CloseDoes
<1>6. ASSUME NEW w \in Web, StoreReference(w) PROVE Decided
  BY <1>6, StoreReferenceDoes
<1>7. ASSUME NEW w \in Web, NEW ev \in Types, NEW p \in Payments, Receive(w, ev, p)
      PROVE Decided
  <2>1. /\ proc[w].pc = "idle"
        /\ row[p].ref /\ <<ev, p>> \in hooks
        /\ IF row[p].lastEvent = ev
           THEN /\ UNCHANGED proc
                /\ acked' = IF ev = "captured" THEN acked \union {p} ELSE acked
           ELSE /\ UNCHANGED acked
                /\ \/ ev = "failed" /\ row[p].state = "initiated" /\ CallTo(w, "fail", p, ev, 0)
                   \/ ev = "captured" /\ row[p].state = "initiated" /\ CallTo(w, "capture", p, ev, 0)
                   \/ ev = "captured" /\ row[p].state # "initiated" /\ CallTo(w, "read", p, ev, 0)
        /\ UNCHANGED <<row, outbox, gateway, hooks, sapDoc, docs, open, faults>>
    BY <1>7, ReceiveDoes
  <2> QED
    BY <2>1
<1>8. ASSUME NEW w \in Web, NEW ev \in Types, NEW p \in Payments, ReceiveUnknown(w, ev, p)
      PROVE Decided
  BY <1>8 DEF ReceiveUnknown
<1>9. ASSUME NEW w \in Desk, NEW p \in Payments, Reconcile(w, p) PROVE Decided
  BY <1>9, ReconcileDoes
<1>10. ASSUME NEW w \in Bus, NEW p \in Payments, HandleCaptured(w, p) PROVE Decided
  <2>1. /\ proc[w].pc = "idle"
        /\ <<"captured", p>> \in outbox
        /\ CallTo(w, "read", p, "none", 0)
        /\ UNCHANGED <<row, outbox, gateway, hooks, acked, sapDoc, docs, open, faults>>
    BY <1>10, HandleCapturedDoes
  <2> QED
    BY <2>1
<1>11. ASSUME NEW w \in Procs, RecordFailure(w) PROVE Decided
  BY <1>11, RecordFailureDoes
<1>12. ASSUME NEW w \in Procs, RecordCapture(w) PROVE Decided
  BY <1>12, RecordCaptureDoes
<1>13. ASSUME NEW w \in Procs, Poll(w) PROVE Decided
  <2>1. /\ proc[w].p \in Payments
        /\ gateway[proc[w].p] = "failed"
        /\ CallTo(w, "fail", proc[w].p, proc[w].ev, proc[w].doc)
    BY <1>13, PollDoes
  <2>2. u = w /\ proc'[u].p = proc[w].p
    BY <2>1
  <2> QED
    BY <1>c, <2>1, <2>2 DEF Taken
<1>14. ASSUME NEW w \in Procs, ReadForPosting(w) PROVE Decided
  BY <1>14, ReadForPostingDoes
<1>15. ASSUME NEW w \in Procs, SapPosts(w) PROVE Decided
  BY <1>15, SapPostsDoes
<1>16. ASSUME NEW w \in Procs, SapRejects(w) PROVE Decided
  BY <1>16, SapRejectsDoes
<1>17. ASSUME NEW w \in Procs, RecordPosting(w) PROVE Decided
  BY <1>17, RecordPostingDoes
<1>18. ASSUME NEW w \in Procs, SapUnavailable(w) PROVE Decided
  BY <1>18, SapUnavailableDoes
<1>19. ASSUME NEW w \in Procs, Die(w) PROVE Decided
  BY <1>19, DieDoes
<1>20. ASSUME NEW p \in Payments, GatewayCaptures(p) PROVE Decided
  BY <1>20 DEF GatewayCaptures, CanPay
<1>21. ASSUME NEW p \in Payments, GatewayDeclines(p) PROVE Decided
  BY <1>21 DEF GatewayDeclines, CanPay
<1>22. CASE UNCHANGED vars
  BY <1>22 DEF vars
<1> QED
  BY <1>1, <1>2, <1>3, <1>4, <1>5, <1>6, <1>7, <1>8, <1>9, <1>10, <1>11,
     <1>12, <1>13, <1>14, <1>15, <1>16, <1>17, <1>18, <1>19, <1>20, <1>21,
     <1>22
     DEF Next, InitiatePayment, PostCapturedPayment

\* No other writer takes a capture off the row.
LEMMA HeardStep ==
  ASSUME Typed, NothingBeforeTheRow, WordOfCapture, CaptureInv, PaidUnderReference,
         WordOfFailure, RequestOwnsRow, HeardIsKept, [Next]_vars PROVE HeardIsKept'
<1> USE CallFields, Where
    DEF CallTo, RowTo, Typed, TypeOK, CallsNamePayments, NothingBeforeTheRow,
        WordOfCapture, Taken, CaptureInv, CaptureIsAnnounced, PaidUnderReference,
        WordOfFailure, RequestOwnsRow, HeardIsKept, AckedCaptureIsRecorded, Kept,
        Ack, Heard
<1>1. ASSUME NEW w \in Web, NEW p \in Payments, Validate(w, p) PROVE HeardIsKept'
  BY <1>1, ValidateDoes
<1>2. ASSUME NEW w \in Web, Create(w) PROVE HeardIsKept'
  BY <1>2, CreateDoes
<1>3. ASSUME NEW w \in Web, CreateOrder(w) PROVE HeardIsKept'
  BY <1>3, CreateOrderDoes
<1>4. ASSUME NEW w \in Web, CreateOrderFails(w) PROVE HeardIsKept'
  BY <1>4, CreateOrderFailsDoes
<1>5. ASSUME NEW w \in Web, Close(w) PROVE HeardIsKept'
  BY <1>5, CloseDoes
<1>6. ASSUME NEW w \in Web, StoreReference(w) PROVE HeardIsKept'
  BY <1>6, StoreReferenceDoes
<1>7. ASSUME NEW w \in Web, NEW ev \in Types, NEW p \in Payments, Receive(w, ev, p)
      PROVE HeardIsKept'
  <2>1. /\ w \in Procs
        /\ proc[w].pc = "idle"
        /\ row[p].ref /\ <<ev, p>> \in hooks
        /\ IF row[p].lastEvent = ev
           THEN /\ UNCHANGED proc
                /\ acked' = IF ev = "captured" THEN acked \union {p} ELSE acked
           ELSE /\ UNCHANGED acked
                /\ \/ ev = "failed" /\ row[p].state = "initiated" /\ CallTo(w, "fail", p, ev, 0)
                   \/ ev = "captured" /\ row[p].state = "initiated" /\ CallTo(w, "capture", p, ev, 0)
                   \/ ev = "captured" /\ row[p].state # "initiated" /\ CallTo(w, "read", p, ev, 0)
        /\ UNCHANGED <<row, outbox, gateway, hooks, sapDoc, docs, open, faults>>
    BY <1>7, ReceiveDoes
  <2>2. row[p].state # "initiated" /\ ev = "captured" => Kept(p)
    <3>1. row[p] \in Row
      BY DEF Typed, TypeOK
    <3>2. ev = "captured" => row[p].state \notin {"absent", "failed"}
      BY <2>1 DEF NothingBeforeTheRow, WordOfCapture, Taken, RequestOwnsRow
    <3> QED
      BY <3>1, <3>2, RowFields DEF States, Kept
  <2>3. row[p].lastEvent = "captured" => Kept(p)
    BY DEF HeardIsKept
  <2>4. acked' \subseteq acked \union {x \in Payments : Kept(x)}
    BY <2>1, <2>3
  <2>5. \A v \in Procs : proc'[v].pc \in {"read", "sap", "record"} /\ proc'[v].ev = "captured"
          => Kept(proc'[v].p)
    BY <2>1, <2>2 DEF CallTo, HeardIsKept
  <2> QED
    BY <2>1, <2>4, <2>5 DEF HeardIsKept, AckedCaptureIsRecorded, Kept
<1>8. ASSUME NEW w \in Web, NEW ev \in Types, NEW p \in Payments, ReceiveUnknown(w, ev, p)
      PROVE HeardIsKept'
  BY <1>8 DEF ReceiveUnknown
<1>9. ASSUME NEW w \in Desk, NEW p \in Payments, Reconcile(w, p) PROVE HeardIsKept'
  BY <1>9, ReconcileDoes
<1>10. ASSUME NEW w \in Bus, NEW p \in Payments, HandleCaptured(w, p) PROVE HeardIsKept'
  <2>1. /\ proc[w].pc = "idle"
        /\ <<"captured", p>> \in outbox
        /\ CallTo(w, "read", p, "none", 0)
        /\ UNCHANGED <<row, outbox, gateway, hooks, acked, sapDoc, docs, open, faults>>
    BY <1>10, HandleCapturedDoes
  <2> QED
    BY <2>1
<1>11. ASSUME NEW w \in Procs, RecordFailure(w) PROVE HeardIsKept'
  <2>1. /\ w \in Procs
        /\ proc[w].pc = "fail"
        /\ proc[w].p \in Payments
        /\ RowTo(proc[w].p, "failed", row[proc[w].p].ref, Heard(proc[w].p, proc[w].ev), row[proc[w].p].fi)
        /\ CallTo(w, "idle", None, "none", 0)
        /\ UNCHANGED <<outbox, gateway, hooks, acked, sapDoc, docs, open, faults>>
    BY <1>11, RecordFailureDoes
  <2>2. gateway[proc[w].p] = "failed" /\ proc[w].ev # "captured"
    BY <2>1 DEF WordOfFailure
  <2>3. ~Kept(proc[w].p)
    BY <2>1, <2>2 DEF Kept, CaptureInv, CaptureIsAnnounced, WordOfCapture, Taken
  <2>4. Heard(proc[w].p, proc[w].ev) # "captured"
    BY <2>1, <2>2, <2>3 DEF Heard, HeardIsKept
  <2>5. \A x \in Payments : x # proc[w].p => row'[x] = row[x]
    BY <2>1 DEF RowTo
  <2>6. \A x \in Payments : row'[x].lastEvent = "captured" => row'[x].state \in {"captured", "posted"}
    BY <2>1, <2>4, <2>5 DEF RowTo, HeardIsKept, Kept
  <2>7. \A v \in Procs : proc'[v].pc \in {"read", "sap", "record"} /\ proc'[v].ev = "captured"
          => row'[proc'[v].p].state \in {"captured", "posted"}
    BY <2>1, <2>3, <2>5 DEF CallTo, Typed, CallsNamePayments, HeardIsKept, Kept
  <2>8. \A x \in acked' : row'[x].state \in {"captured", "posted"}
    BY <2>1, <2>3, <2>5 DEF Typed, TypeOK, HeardIsKept, AckedCaptureIsRecorded, Kept
  <2> QED
    BY <2>6, <2>7, <2>8 DEF HeardIsKept, AckedCaptureIsRecorded, Kept
<1>12. ASSUME NEW w \in Procs, RecordCapture(w) PROVE HeardIsKept'
  BY <1>12, RecordCaptureDoes, SMTT(30)
<1>13. ASSUME NEW w \in Procs, Poll(w) PROVE HeardIsKept'
  BY <1>13, PollDoes
<1>14. ASSUME NEW w \in Procs, ReadForPosting(w) PROVE HeardIsKept'
  BY <1>14, ReadForPostingDoes
<1>15. ASSUME NEW w \in Procs, SapPosts(w) PROVE HeardIsKept'
  BY <1>15, SapPostsDoes
<1>16. ASSUME NEW w \in Procs, SapRejects(w) PROVE HeardIsKept'
  BY <1>16, SapRejectsDoes
<1>17. ASSUME NEW w \in Procs, RecordPosting(w) PROVE HeardIsKept'
  <2>1. /\ proc[w].pc = "record"
        /\ proc[w].p \in Payments
        /\ RowTo(proc[w].p, "posted", row[proc[w].p].ref, row[proc[w].p].lastEvent, proc[w].doc)
        /\ CallTo(w, "idle", None, "none", 0)
        /\ outbox' = outbox \union {<<"posted", proc[w].p>>}
        /\ Ack(w)
        /\ UNCHANGED <<gateway, hooks, sapDoc, docs, open, faults>>
    BY <1>17, RecordPostingDoes
  <2> QED
    BY <2>1
<1>18. ASSUME NEW w \in Procs, SapUnavailable(w) PROVE HeardIsKept'
  BY <1>18, SapUnavailableDoes
<1>19. ASSUME NEW w \in Procs, Die(w) PROVE HeardIsKept'
  BY <1>19, DieDoes
<1>20. ASSUME NEW p \in Payments, GatewayCaptures(p) PROVE HeardIsKept'
  BY <1>20 DEF GatewayCaptures, CanPay
<1>21. ASSUME NEW p \in Payments, GatewayDeclines(p) PROVE HeardIsKept'
  BY <1>21 DEF GatewayDeclines, CanPay
<1>22. CASE UNCHANGED vars
  BY <1>22 DEF vars
<1> QED
  BY <1>1, <1>2, <1>3, <1>4, <1>5, <1>6, <1>7, <1>8, <1>9, <1>10, <1>11,
     <1>12, <1>13, <1>14, <1>15, <1>16, <1>17, <1>18, <1>19, <1>20, <1>21,
     <1>22
     DEF Next, InitiatePayment, PostCapturedPayment


----------------------------------------------------------------------------
(* Sums over finite sets                                                   *)
(*                                                                         *)
(* The fold of the library is a recursive function on the subsets of a     *)
(* set.  Without an induction to instantiate, what it computes is proved   *)
(* from a smallest set on which it would not.  As in SalesDesk_proofs.      *)

Pick(S) == CHOOSE x \in S : TRUE

\* h is the recursive function that adds up f on the subsets of U.
AddsUp(h, f, U) ==
  h = [S \in SUBSET U |-> IF S = {} THEN 0 ELSE f[Pick(S)] + h[S \ {Pick(S)}]]

Total(f, U) == (CHOOSE h : AddsUp(h, f, U))[U]

\* An element to start with.
LEMMA PickIsIn == ASSUME NEW S, S # {} PROVE Pick(S) \in S
  BY DEF Pick

\* Of some sets of elements of a finite set, one has none of the others inside.
LEMMA SmallestSet ==
  ASSUME NEW U, IsFiniteSet(U), NEW T, T \subseteq SUBSET U, T # {}
  PROVE  \E S \in T : \A R \in SUBSET S : R # S => R \notin T
<1>1. IsWellFoundedOn(StrictSubsetOrdering(U), SUBSET U)
  BY FS_StrictSubsetOrderingWellFounded, FS_FiniteSubsetsOfFinite
<1>2. PICK S \in T : \A R \in T : <<R, S>> \notin StrictSubsetOrdering(U)
  BY <1>1, WFMin
<1>3. ASSUME NEW R \in SUBSET S, R # S, R \in T PROVE FALSE
  BY <1>2, <1>3 DEF StrictSubsetOrdering
<1> QED
  BY <1>3

\* Two such functions give the same for a set that both know, when what they
\* add up is the same there.
LEMMA AddUpAlike ==
  ASSUME NEW h1, NEW f1, NEW U1, AddsUp(h1, f1, U1),
         NEW h2, NEW f2, NEW U2, AddsUp(h2, f2, U2),
         NEW S, IsFiniteSet(S), S \subseteq U1, S \subseteq U2,
         \A x \in S : f1[x] = f2[x]
  PROVE  h1[S] = h2[S]
<1> DEFINE T == {R \in SUBSET S : h1[R] # h2[R]}
<1>1. ASSUME T # {} PROVE FALSE
  <2>0. T \subseteq SUBSET S
    OBVIOUS
  <2> HIDE DEF T
  <2>1. PICK R \in T : \A Q \in SUBSET R : Q # R => Q \notin T
    BY <1>1, <2>0, SmallestSet
  <2> USE DEF T
  <2>2. /\ h1[R] = IF R = {} THEN 0 ELSE f1[Pick(R)] + h1[R \ {Pick(R)}]
        /\ h2[R] = IF R = {} THEN 0 ELSE f2[Pick(R)] + h2[R \ {Pick(R)}]
    BY DEF AddsUp
  <2>3. CASE R = {}
    BY <2>2, <2>3
  <2>4. CASE R # {}
    <3>1. Pick(R) \in R /\ f1[Pick(R)] = f2[Pick(R)]
      BY <2>4, PickIsIn
    <3>2. h1[R \ {Pick(R)}] = h2[R \ {Pick(R)}]
      BY <2>1, <3>1
    <3> QED
      BY <2>2, <2>4, <3>1, <3>2
  <2> QED
    BY <2>3, <2>4
<1> QED
  BY <1>1

\* There is such a function for every finite set.
LEMMA AddsUpExists == ASSUME NEW f, NEW U, IsFiniteSet(U) PROVE \E h : AddsUp(h, f, U)
<1> DEFINE T == {V \in SUBSET U : ~ \E h : AddsUp(h, f, V)}
<1>1. ASSUME T # {} PROVE FALSE
  <2>0. T \subseteq SUBSET U
    OBVIOUS
  <2> HIDE DEF T
  <2>1. PICK V \in T : \A W \in SUBSET V : W # V => W \notin T
    BY <1>1, <2>0, SmallestSet
  <2> USE DEF T
  <2>2. IsFiniteSet(V)
    BY FS_Subset
  <2> DEFINE H(W) == CHOOSE h : AddsUp(h, f, W)
             all == [S \in SUBSET V |-> IF S = {} THEN 0
                                        ELSE f[Pick(S)] + H(S \ {Pick(S)})[S \ {Pick(S)}]]
  <2>3. ASSUME NEW W \in SUBSET V, W # V PROVE AddsUp(H(W), f, W)
    <3>1. \E h : AddsUp(h, f, W)
      BY <2>1, <2>3
    <3> QED
      BY <3>1
  <2>4. ASSUME NEW W \in SUBSET V, W # V PROVE all[W] = H(W)[W]
    <3>0. AddsUp(H(W), f, W)
      BY <2>3, <2>4
    <3> HIDE DEF H
    <3>1. H(W)[W] = IF W = {} THEN 0 ELSE f[Pick(W)] + H(W)[W \ {Pick(W)}]
      BY <3>0 DEF AddsUp
    <3>2. CASE W = {}
      BY <3>1, <3>2
    <3>3. CASE W # {}
      <4> DEFINE R == W \ {Pick(W)}
      <4>1. R \in SUBSET V /\ R # V /\ R \subseteq W /\ IsFiniteSet(R)
        BY <2>2, <2>4, <3>3, PickIsIn, FS_Subset
      <4>2. AddsUp(H(R), f, R)
        BY <2>3, <4>1
      <4>3. H(W)[R] = H(R)[R]
        BY <3>0, <4>1, <4>2, AddUpAlike
      <4> QED
        BY <3>1, <3>3, <4>3
    <3> QED
      BY <3>2, <3>3
  <2> HIDE DEF H
  <2>5. ASSUME NEW S \in SUBSET V, S # {} PROVE all[S] = f[Pick(S)] + all[S \ {Pick(S)}]
    <3>1. S \ {Pick(S)} \in SUBSET V /\ S \ {Pick(S)} # V
      BY <2>5, PickIsIn
    <3>2. all[S \ {Pick(S)}] = H(S \ {Pick(S)})[S \ {Pick(S)}]
      BY <2>4, <3>1
    <3> QED
      BY <2>5, <3>2
  <2>6. AddsUp(all, f, V)
    <3>1. all = [S \in SUBSET V |-> IF S = {} THEN 0 ELSE f[Pick(S)] + all[S \ {Pick(S)}]]
      BY <2>5
    <3> QED
      BY <3>1 DEF AddsUp
  <2> QED
    BY <2>6
<1>2. U \notin T
  BY <1>1
<1> QED
  BY <1>2

\* It can be read off any function that adds up.
LEMMA TotalIs ==
  ASSUME NEW h, NEW f, NEW g, NEW U, AddsUp(h, f, U), IsFiniteSet(U),
         NEW S, S \subseteq U, \A x \in S : f[x] = g[x]
  PROVE  h[S] = Total(g, S)
<1>1. IsFiniteSet(S)
  BY FS_Subset
<1>2. AddsUp(CHOOSE k : AddsUp(k, g, S), g, S)
  BY <1>1, AddsUpExists
<1> HIDE DEF AddsUp
<1>3. h[S] = (CHOOSE k : AddsUp(k, g, S))[S]
  BY <1>1, <1>2, AddUpAlike
<1> QED
  BY <1>3 DEF Total

\* Nothing adds up to nothing; the first element is added to the rest.
LEMMA TotalPick ==
  ASSUME NEW f, NEW U, IsFiniteSet(U)
  PROVE  Total(f, U) = IF U = {} THEN 0 ELSE f[Pick(U)] + Total(f, U \ {Pick(U)})
<1>1. PICK h : AddsUp(h, f, U)
  BY AddsUpExists
<1>2. h[U] = Total(f, U) /\ h[U \ {Pick(U)}] = Total(f, U \ {Pick(U)})
  BY <1>1, TotalIs
<1>3. h[U] = IF U = {} THEN 0 ELSE f[Pick(U)] + h[U \ {Pick(U)}]
  BY <1>1 DEF AddsUp
<1> QED
  BY <1>2, <1>3

\* Whole numbers add up to a whole number, natural ones to a natural one.
LEMMA TotalType ==
  ASSUME NEW f, NEW U, IsFiniteSet(U), \A x \in U : f[x] \in Int
  PROVE  Total(f, U) \in Int /\ ((\A x \in U : f[x] >= 0) => Total(f, U) >= 0)
<1> DEFINE Good(S) == Total(f, S) \in Int /\ ((\A x \in U : f[x] >= 0) => Total(f, S) >= 0)
           T == {S \in SUBSET U : ~Good(S)}
<1>1. ASSUME T # {} PROVE FALSE
  <2>0. T \subseteq SUBSET U
    OBVIOUS
  <2> HIDE DEF T
  <2>1. PICK S \in T : \A R \in SUBSET S : R # S => R \notin T
    BY <1>1, <2>0, SmallestSet
  <2> USE DEF T
  <2>2. Total(f, S) = IF S = {} THEN 0 ELSE f[Pick(S)] + Total(f, S \ {Pick(S)})
    BY TotalPick, FS_Subset
  <2>3. S # {} => Good(S \ {Pick(S)}) /\ Pick(S) \in U
    BY <2>1, PickIsIn
  <2> QED
    BY <2>2, <2>3
<1> QED
  BY <1>1

\* The order does not matter: any element can be taken out first.
LEMMA TotalRemove ==
  ASSUME NEW f, NEW U, IsFiniteSet(U), \A x \in U : f[x] \in Int, NEW x \in U
  PROVE  Total(f, U) = f[x] + Total(f, U \ {x})
<1> DEFINE T == {S \in SUBSET U : \E y \in S : Total(f, S) # f[y] + Total(f, S \ {y})}
<1>1. ASSUME T # {} PROVE FALSE
  <2>0. T \subseteq SUBSET U
    OBVIOUS
  <2> HIDE DEF T
  <2>1. PICK S \in T : \A R \in SUBSET S : R # S => R \notin T
    BY <1>1, <2>0, SmallestSet
  <2> USE DEF T
  <2>2. PICK y \in S : Total(f, S) # f[y] + Total(f, S \ {y})
    BY <2>1
  <2> DEFINE z == Pick(S)
  <2>3. z \in S
    BY <2>2, PickIsIn
  <2> HIDE DEF z
  <2>4. Total(f, S) = f[z] + Total(f, S \ {z})
    BY <2>2, TotalPick, FS_Subset DEF z
  <2>5. y # z
    BY <2>2, <2>4
  <2>6. Total(f, S \ {z}) = f[y] + Total(f, (S \ {z}) \ {y})
    BY <2>1, <2>3, <2>5
  <2>7. Total(f, S \ {y}) = f[z] + Total(f, (S \ {y}) \ {z})
    BY <2>1, <2>3, <2>5
  <2>8. (S \ {z}) \ {y} = (S \ {y}) \ {z}
    OBVIOUS
  <2>9. f[y] \in Int /\ f[z] \in Int /\ Total(f, (S \ {y}) \ {z}) \in Int
    <3>1. IsFiniteSet((S \ {y}) \ {z})
      BY FS_Subset
    <3> QED
      BY <2>3, <3>1, TotalType
  <2> DEFINE rest == Total(f, (S \ {y}) \ {z})
  <2>10. /\ rest \in Int /\ f[y] \in Int /\ f[z] \in Int
         /\ Total(f, S) = f[z] + (f[y] + rest) /\ Total(f, S \ {y}) = f[z] + rest
    BY <2>4, <2>6, <2>7, <2>8, <2>9
  <2> HIDE DEF rest
  <2> QED
    BY <2>2, <2>10
<1> QED
  BY <1>1

\* An element that is added adds what it is worth.
LEMMA TotalAdd ==
  ASSUME NEW f, NEW U, IsFiniteSet(U), NEW x, x \notin U,
         \A y \in U \union {x} : f[y] \in Int
  PROVE  Total(f, U \union {x}) = f[x] + Total(f, U)
<1>1. IsFiniteSet(U \union {x}) /\ (U \union {x}) \ {x} = U
  BY FS_AddElement
<1> QED
  BY <1>1, TotalRemove

----------------------------------------------------------------------------
(* What SAP has cleared.  A posting that SAP refuses half-way has already  *)
(* reduced the items before the one that does not fit, so an item may be   *)
(* down by more than what is posted, but never by less.                    *)

\* What a set of payments settles of an item.
Settled(i, S) == MapThenSumSet(LAMBDA p : Alloc[p][i], S)

\* Every payment posted has one document, and what is open on an item and
\* what the posted payments settle of it are together no more than it was for.
NeverOverCleared ==
  /\ docs = Cardinality(Posted)
  /\ \A i \in Items : open[i] + Settled(i, Posted) <= OpenAmount[i]

\* Any payments settle together no more of an item than is open at first.
TogetherFit ==
  \A S \in SUBSET Payments : IsFiniteSet(S) =>
    \A i \in Items : Settled(i, S) <= OpenAmount[i]

\* What is settled is a sum.
LEMMA SettledIsTotal ==
  ASSUME NEW i \in Items, NEW S, S \subseteq Payments, IsFiniteSet(S),
         NEW f, \A p \in Payments : f[p] = Alloc[p][i]
  PROVE  Settled(i, S) = Total(f, S)
<1> DEFINE Folds(h) == h = [R \in SUBSET S |-> IF R = {} THEN 0
                                              ELSE Alloc[Pick(R)][i] + h[R \ {Pick(R)}]]
           fold == CHOOSE h : Folds(h)
<1>1. Settled(i, S) = fold[S]
  BY DEF Settled, MapThenSumSet, MapThenFoldSet, Pick
<1>2. ASSUME NEW h PROVE Folds(h) <=> AddsUp(h, f, S)
  <2>1. \A R \in SUBSET S : R # {} => f[Pick(R)] = Alloc[Pick(R)][i]
    BY PickIsIn
  <2>2. [R \in SUBSET S |-> IF R = {} THEN 0 ELSE Alloc[Pick(R)][i] + h[R \ {Pick(R)}]]
          = [R \in SUBSET S |-> IF R = {} THEN 0 ELSE f[Pick(R)] + h[R \ {Pick(R)}]]
    BY <2>1
  <2> QED
    BY <2>2 DEF AddsUp
<1>3. \E h : Folds(h)
  BY <1>2, AddsUpExists
<1>4. AddsUp(fold, f, S)
  <2>1. Folds(fold)
    <3> HIDE DEF Folds
    <3> QED
      BY <1>3
  <2> HIDE DEF fold
  <2> QED
    BY <1>2, <2>1
<1> HIDE DEF fold
<1> QED
  BY <1>1, <1>4, TotalIs

\* A payment more settles its allocation more; no payment settles nothing.
LEMMA SettledAdd ==
  ASSUME NEW i \in Items, NEW S, S \subseteq Payments, IsFiniteSet(S)
  PROVE  /\ Settled(i, S) \in Nat
         /\ \A p \in Payments \ S : Settled(i, S \union {p}) = Settled(i, S) + Alloc[p][i]
         /\ S = {} => Settled(i, S) = 0
<1> DEFINE f == [p \in Payments |-> Alloc[p][i]]
<1>1. \A p \in Payments : f[p] = Alloc[p][i] /\ f[p] \in Nat
  BY PaymentAssumption DEF PaymentAssumption
<1> HIDE DEF f
<1>2. Settled(i, S) = Total(f, S)
  BY <1>1, SettledIsTotal
<1>3. Total(f, S) \in Int /\ Total(f, S) >= 0
  <2>1. \A p \in S : f[p] \in Int /\ f[p] >= 0
    BY <1>1
  <2> QED
    BY <2>1, TotalType
<1>4. ASSUME NEW p \in Payments \ S
      PROVE  Settled(i, S \union {p}) = Settled(i, S) + Alloc[p][i]
  <2>1. S \union {p} \subseteq Payments /\ IsFiniteSet(S \union {p}) /\ p \notin S
    BY FS_AddElement
  <2>2. \A q \in S \union {p} : f[q] \in Int
    BY <1>1
  <2>3. Settled(i, S \union {p}) = Total(f, S \union {p})
    BY <1>1, <2>1, SettledIsTotal
  <2>4. Total(f, S \union {p}) = f[p] + Total(f, S)
    BY <2>1, <2>2, TotalAdd
  <2> QED
    BY <1>1, <1>2, <1>3, <2>3, <2>4
<1>5. S = {} => Total(f, S) = 0
  BY TotalPick
<1> QED
  BY <1>2, <1>3, <1>4, <1>5

\* SAP changes by a posting, whether or not its answer is heard, or by one
\* that it refuses half-way.
LEMMA SapMoves ==
  ASSUME Typed, [Next]_vars
  PROVE  \/ UNCHANGED <<sapDoc, docs, open>>
         \/ \E p \in Payments : PostInSap(p)
         \/ \E w \in Procs : SapRejects(w)
<1> DEFINE Still == UNCHANGED <<sapDoc, docs, open>>
           Posts == \E p \in Payments : PostInSap(p)
<1>1. ASSUME NEW w \in Web, InitiatePayment(w) PROVE Still
  BY <1>1 DEF InitiatePayment, Validate, Create, CreateOrder, CreateOrderFails, Close,
              StoreReference
<1>2. ASSUME NEW w \in Web, NEW ev \in Types, NEW p \in Payments,
             Receive(w, ev, p) \/ ReceiveUnknown(w, ev, p)
      PROVE  Still
  BY <1>2 DEF Receive, ReceiveUnknown
<1>3. ASSUME NEW w \in Desk, NEW p \in Payments, Reconcile(w, p) PROVE Still
  BY <1>3 DEF Reconcile
<1>4. ASSUME NEW w \in Bus, NEW p \in Payments, HandleCaptured(w, p) PROVE Still
  BY <1>4 DEF HandleCaptured
<1>5. ASSUME NEW w \in Procs,
             RecordFailure(w) \/ RecordCapture(w) \/ Poll(w) \/ ReadForPosting(w)
               \/ RecordPosting(w) \/ Die(w)
      PROVE  Still
  BY <1>5 DEF RecordFailure, RecordCapture, Poll, ReadForPosting, RecordPosting, Die
<1>6. ASSUME NEW w \in Procs, SapPosts(w) PROVE Posts
  BY <1>6, SapPostsDoes
<1>7. ASSUME NEW w \in Procs, SapUnavailable(w) PROVE Still \/ Posts
  BY <1>7, SapUnavailableDoes
<1>8. ASSUME NEW p \in Payments, GatewayCaptures(p) \/ GatewayDeclines(p) PROVE Still
  BY <1>8 DEF GatewayCaptures, GatewayDeclines
<1>9. CASE UNCHANGED vars
  BY <1>9 DEF vars
<1> QED
  BY <1>1, <1>2, <1>3, <1>4, <1>5, <1>6, <1>7, <1>8, <1>9 DEF Next, PostCapturedPayment

\* A posting that is not a repetition adds its payment, which fits.
LEMMA PostingAdds ==
  ASSUME Typed, NEW p \in Payments, PostInSap(p)
  PROVE  \/ UNCHANGED <<sapDoc, docs, open>>
         \/ /\ p \in Payments \ Posted /\ Posted' = Posted \union {p} /\ docs' = docs + 1
            /\ \A i \in Items : /\ Alloc[p][i] <= open[i]
                               /\ open'[i] = open[i] - Alloc[p][i]
<1>1. CASE sapDoc[p] # 0
  BY <1>1 DEF PostInSap
<1>2. CASE sapDoc[p] = 0
  <2>1. /\ \A i \in Items : Alloc[p][i] <= open[i]
        /\ docs' = docs + 1
        /\ sapDoc' = [sapDoc EXCEPT ![p] = docs + 1]
        /\ open' = [i \in Items |-> open[i] - Alloc[p][i]]
    BY <1>2 DEF PostInSap, Fits
  <2>2. Posted' = Posted \union {p} /\ p \notin Posted
    <3>1. sapDoc \in [Payments -> Nat] /\ docs + 1 # 0
      BY DEF Typed, TypeOK
    <3> QED
      BY <1>2, <2>1, <3>1 DEF Posted
  <2> QED
    BY <2>1, <2>2
<1> QED
  BY <1>1, <1>2

\* The documents are counted, so those posted are finitely many.
ClearedInv == IsFiniteSet(Posted) /\ NeverOverCleared

LEMMA InitCleared == Init => ClearedInv
<1> SUFFICES ASSUME Init PROVE ClearedInv
  OBVIOUS
<1>1. Posted = {} /\ docs = 0 /\ open = OpenAmount
  BY DEF Init, Posted
<1>2. IsFiniteSet(Posted) /\ docs = Cardinality(Posted)
  BY <1>1, FS_EmptySet
<1>3. ASSUME NEW i \in Items PROVE open[i] + Settled(i, Posted) <= OpenAmount[i]
  <2>1. Settled(i, Posted) = 0
    BY <1>1, <1>2, SettledAdd
  <2>2. OpenAmount[i] \in Nat
    BY PaymentAssumption DEF PaymentAssumption
  <2> QED
    BY <1>1, <2>1, <2>2
<1> QED
  BY <1>2, <1>3 DEF ClearedInv, NeverOverCleared

\* The payments posted change only with the documents.
LEMMA PostedKept == ASSUME sapDoc' = sapDoc PROVE Posted' = Posted
BY DEF Posted

\* What is settled depends only on the payments that are posted.
LEMMA SettledByPosted ==
  ASSUME NEW S, Posted' = S, NEW i \in Items
  PROVE  Settled(i, Posted)' = Settled(i, S)
BY DEF Settled, MapThenSumSet, MapThenFoldSet

LEMMA PostingClears ==
  ASSUME Typed, ClearedInv, NEW p \in Payments, PostInSap(p)
  PROVE  /\ ClearedInv'
         /\ \A i \in Items : open[i] + Settled(i, Posted) = OpenAmount[i]
                             => open'[i] + Settled(i, Posted)' = OpenAmount[i]
<1>1. CASE UNCHANGED <<sapDoc, docs, open>>
  <2>1. Posted' = Posted
    BY <1>1, PostedKept
  <2> QED
    BY <1>1, <2>1, SettledByPosted DEF ClearedInv, NeverOverCleared
<1>2. CASE /\ p \in Payments \ Posted /\ Posted' = Posted \union {p} /\ docs' = docs + 1
           /\ \A i \in Items : Alloc[p][i] <= open[i] /\ open'[i] = open[i] - Alloc[p][i]
  <2>1. IsFiniteSet(Posted') /\ Cardinality(Posted') = Cardinality(Posted) + 1
    BY <1>2, FS_AddElement DEF ClearedInv
  <2>2. ASSUME NEW i \in Items
        PROVE  /\ Settled(i, Posted)' = Settled(i, Posted) + Alloc[p][i]
               /\ Settled(i, Posted) \in Nat /\ open[i] \in Nat /\ Alloc[p][i] \in Nat
               /\ OpenAmount[i] \in Nat
    <3>1. Posted \subseteq Payments /\ IsFiniteSet(Posted)
      BY DEF Posted, ClearedInv
    <3>2. /\ Settled(i, Posted \union {p}) = Settled(i, Posted) + Alloc[p][i]
          /\ Settled(i, Posted) \in Nat
      BY <1>2, <3>1, SettledAdd
    <3>3. Settled(i, Posted)' = Settled(i, Posted \union {p})
      BY <1>2, SettledByPosted
    <3> QED
      BY <3>2, <3>3, PaymentAssumption DEF PaymentAssumption, Typed, TypeOK
  <2>3. ASSUME NEW i \in Items
        PROVE  open'[i] + Settled(i, Posted)' = open[i] + Settled(i, Posted)
    <3>1. open'[i] = open[i] - Alloc[p][i]
      BY <1>2
    <3> QED
      BY <2>2, <3>1
  <2> QED
    BY <1>2, <2>1, <2>3 DEF ClearedInv, NeverOverCleared
<1> QED
  BY <1>1, <1>2, PostingAdds

\* What SAP refuses half-way is taken from some items, but posted by nobody.
LEMMA RejectionTakes ==
  ASSUME Typed, ClearedInv, NEW w \in Procs, SapRejects(w)
  PROVE  ClearedInv'
<1> DEFINE p == proc[w].p
           bad == {i \in Items : Alloc[p][i] > open[i]}
<1>1. /\ p \in Payments /\ UNCHANGED <<sapDoc, docs>>
      /\ open' = [i \in Items |-> IF \A b \in bad : i < b THEN open[i] - Alloc[p][i] ELSE open[i]]
  BY SapRejectsDoes DEF SapRejects
<1>2. Posted' = Posted
  BY <1>1, PostedKept
<1>3. ASSUME NEW i \in Items PROVE open'[i] + Settled(i, Posted)' <= OpenAmount[i]
  <2>1. /\ open[i] \in Nat /\ Alloc[p][i] \in Nat /\ OpenAmount[i] \in Nat
        /\ open'[i] \in {open[i], open[i] - Alloc[p][i]}
    BY <1>1, PaymentAssumption DEF PaymentAssumption, Typed, TypeOK
  <2>2. Settled(i, Posted)' = Settled(i, Posted)
    BY <1>2, SettledByPosted
  <2>3. Settled(i, Posted) \in Nat
    BY SettledAdd DEF Posted, ClearedInv
  <2>4. open[i] + Settled(i, Posted) <= OpenAmount[i]
    BY DEF ClearedInv, NeverOverCleared
  <2> QED
    BY <2>1, <2>2, <2>3, <2>4
<1> QED
  BY <1>1, <1>2, <1>3 DEF ClearedInv, NeverOverCleared

LEMMA ClearedStep == ASSUME Typed, ClearedInv, [Next]_vars PROVE ClearedInv'
<1>1. CASE UNCHANGED <<sapDoc, docs, open>>
  <2>1. Posted' = Posted
    BY <1>1, PostedKept
  <2> QED
    BY <1>1, <2>1, SettledByPosted DEF ClearedInv, NeverOverCleared
<1> QED
  BY <1>1, SapMoves, PostingClears, RejectionTakes

\* When all payments fit, one that is not posted fits what is left.
LEMMA UnpostedFits ==
  ASSUME TogetherFit, Typed, ClearedInv, ItemsClearedOnce, NEW p \in Payments, sapDoc[p] = 0,
         NEW i \in Items
  PROVE  Alloc[p][i] <= open[i]
<1>1. Posted \subseteq Payments /\ IsFiniteSet(Posted) /\ p \in Payments \ Posted
  BY DEF Posted, ClearedInv
<1>2. /\ Settled(i, Posted \union {p}) = Settled(i, Posted) + Alloc[p][i]
      /\ Settled(i, Posted) \in Nat
  BY <1>1, SettledAdd
<1>3. Settled(i, Posted \union {p}) <= OpenAmount[i]
  BY <1>1, FS_AddElement DEF TogetherFit
<1>4. OpenAmount[i] = open[i] + Settled(i, Posted)
  BY DEF ItemsClearedOnce, Settled
<1>5. open[i] \in Nat /\ Alloc[p][i] \in Nat
  BY PaymentAssumption DEF PaymentAssumption, Typed, TypeOK
<1> QED
  BY <1>2, <1>3, <1>4, <1>5

LEMMA ItemsStep ==
  ASSUME TogetherFit, Typed, ClearedInv, ItemsClearedOnce, [Next]_vars
  PROVE  ItemsClearedOnce'
<1>1. CASE UNCHANGED <<sapDoc, docs, open>>
  <2>1. Posted' = Posted
    BY <1>1, PostedKept
  <2>2. \A i \in Items : Settled(i, Posted)' = Settled(i, Posted)
    BY <2>1, SettledByPosted
  <2> QED
    BY <1>1, <2>1, <2>2 DEF ItemsClearedOnce, Settled
<1>2. ASSUME NEW p \in Payments, PostInSap(p) PROVE ItemsClearedOnce'
  <2>1. ClearedInv'
    BY <1>2, PostingClears
  <2>2. ASSUME NEW i \in Items PROVE OpenAmount[i] = open'[i] + Settled(i, Posted)'
    <3>1. open[i] + Settled(i, Posted) = OpenAmount[i]
      BY DEF ItemsClearedOnce, Settled
    <3> QED
      BY <1>2, <3>1, PostingClears
  <2> QED
    BY <2>1, <2>2 DEF ItemsClearedOnce, ClearedInv, NeverOverCleared, Settled
<1>3. ASSUME NEW w \in Procs, SapRejects(w) PROVE FALSE
  <2>1. proc[w].p \in Payments /\ sapDoc[proc[w].p] = 0
    BY <1>3, SapRejectsDoes DEF SapRejects
  <2>2. PICK i \in Items : Alloc[proc[w].p][i] > open[i]
    BY <1>3 DEF SapRejects
  <2>3. Alloc[proc[w].p][i] \in Nat /\ open[i] \in Nat
    BY <2>1, PaymentAssumption DEF PaymentAssumption, Typed, TypeOK
  <2> QED
    BY <2>1, <2>2, <2>3, UnpostedFits
<1> QED
  BY <1>1, <1>2, <1>3, SapMoves

----------------------------------------------------------------------------
(* The promise of payments                                                 *)

\* No document has a number that SAP has not come to yet.
Numbered == \A p \in Payments : sapDoc[p] <= docs

LEMMA NumberedStep == ASSUME Typed, Numbered, [Next]_vars PROVE Numbered'
<1>1. CASE UNCHANGED <<sapDoc, docs, open>>
  BY <1>1 DEF Numbered
<1>2. ASSUME NEW p \in Payments, PostInSap(p) PROVE Numbered'
  BY <1>2 DEF PostInSap, Numbered, Typed, TypeOK
<1>3. ASSUME NEW w \in Procs, SapRejects(w) PROVE Numbered'
  BY <1>3 DEF SapRejects, Numbered
<1> QED
  BY <1>1, <1>2, <1>3, SapMoves

\* What a step leaves of the values the promise is about.
Quiet ==
  /\ \A p \in Payments : gateway'[p] = "captured" <=> gateway[p] = "captured"
  /\ sapDoc' = sapDoc
  /\ \A p \in Payments : row'[p].fi = row[p].fi
  /\ \A p \in Payments : <<"posted", p>> \in outbox' <=> <<"posted", p>> \in outbox

LEMMA QuietStutters == ASSUME Quiet PROVE UNCHANGED Promise!vars
<1>1. /\ {p \in Payments : gateway'[p] = "captured"} = {p \in Payments : gateway[p] = "captured"}
      /\ {p \in Payments : <<"posted", p>> \in outbox'} = {p \in Payments : <<"posted", p>> \in outbox}
  BY DEF Quiet
<1>2. [p \in Payments |-> row'[p].fi] = [p \in Payments |-> row[p].fi]
  BY DEF Quiet
<1> QED
  BY <1>1, <1>2 DEF Quiet, Promise!vars

\* A posting, or the repetition of one.
LEMMA PostingKeepsPromise ==
  ASSUME Typed, CaptureInv, WordOfCapture, Numbered, NEW w \in Procs, proc[w].pc = "sap",
         PostInSap(proc[w].p), UNCHANGED <<row, outbox, gateway>>
  PROVE  [Promise!Next]_(Promise!vars)
<1> DEFINE p == proc[w].p
<1>1. p \in Payments /\ gateway[p] = "captured"
  BY CallFields DEF CaptureInv, WordOfCapture, Taken
<1>2. CASE sapDoc[p] # 0
  BY <1>2, QuietStutters DEF PostInSap, Quiet
<1>3. CASE sapDoc[p] = 0
  <2>1. sapDoc' = [sapDoc EXCEPT ![p] = docs + 1]
    BY <1>3 DEF PostInSap
  <2>2. sapDoc'[p] = docs + 1 /\ \A q \in Payments : sapDoc[q] \in Nat /\ sapDoc[q] <= docs
    BY <1>1, <2>1 DEF Typed, TypeOK, Numbered
  <2>3. sapDoc'[p] \notin {0} \union {sapDoc[q] : q \in Payments}
    BY <2>2 DEF Typed, TypeOK
  <2>4. Promise!Post(p)
    BY <1>1, <1>3, <2>1, <2>2, <2>3 DEF Promise!Post
  <2> QED
    BY <1>1, <2>4 DEF Promise!Next
<1> QED
  BY <1>2, <1>3

\* A posting that is recorded tells the customer, the first time.
LEMMA RecordingKeepsPromise ==
  ASSUME Typed, ReceiptInv, NEW w \in Procs, NEW p \in Payments, p = proc[w].p,
         RecordPosting(w)
  PROVE  [Promise!Next]_(Promise!vars)
<1>1. /\ proc[w].pc = "record" /\ p \in Payments
      /\ row'[p].fi = proc[w].doc
      /\ \A x \in Payments : x # p => row'[x] = row[x]
      /\ outbox' = outbox \union {<<"posted", p>>}
      /\ UNCHANGED <<gateway, sapDoc>>
  BY RecordPostingDoes DEF RowTo
<1>2. sapDoc[p] # 0 /\ proc[w].doc = sapDoc[p]
  BY <1>1 DEF ReceiptInv
<1>3. CASE <<"posted", p>> \in outbox
  <2>1. row[p].fi = sapDoc[p]
    BY <1>1, <1>3 DEF ReceiptInv, ReceiptHasPosting
  <2>2. Quiet
    BY <1>1, <1>2, <1>3, <2>1 DEF Quiet
  <2> QED
    BY <2>2, QuietStutters
<1>4. CASE <<"posted", p>> \notin outbox
  <2>1. [x \in Payments |-> row'[x].fi] = [[x \in Payments |-> row[x].fi] EXCEPT ![p] = sapDoc[p]]
    BY <1>1, <1>2
  <2>2. {x \in Payments : <<"posted", x>> \in outbox'}
          = {x \in Payments : <<"posted", x>> \in outbox} \union {p}
    BY <1>1
  <2>3. {x \in Payments : gateway'[x] = "captured"} = {x \in Payments : gateway[x] = "captured"}
    BY <1>1
  <2>4. Promise!Confirm(p)
    BY <1>1, <1>2, <1>4, <2>1, <2>2, <2>3 DEF Promise!Confirm
  <2> QED
    BY <2>4 DEF Promise!Next
<1> QED
  BY <1>3, <1>4

\* Every step of a payment is a step of the promise, or none.
LEMMA StepKeepsPromise ==
  ASSUME Inv, Numbered, [Next]_vars
  PROVE  [Promise!Next]_(Promise!vars)
<1>0. Typed /\ NothingBeforeTheRow /\ WordOfCapture /\ CaptureInv /\ ReceiptInv
  BY DEF Inv, Typed
<1> USE <1>0, CallFields, Where, QuietStutters
<1>1. ASSUME NEW w \in Web, NEW p \in Payments, Validate(w, p) PROVE Quiet
  BY <1>1 DEF Validate, Quiet
<1>2. ASSUME NEW w \in Web, Create(w) PROVE Quiet
  BY <1>2, CreateDoes DEF RowTo, Quiet
<1>3. ASSUME NEW w \in Web, CreateOrder(w) PROVE Quiet
  BY <1>3, CreateOrderDoes DEF Quiet, NothingBeforeTheRow, Typed, TypeOK
<1>4. ASSUME NEW w \in Web, CreateOrderFails(w) PROVE Quiet
  BY <1>4, CreateOrderFailsDoes DEF Quiet, NothingBeforeTheRow, Typed, TypeOK
<1>5. ASSUME NEW w \in Web, Close(w) PROVE Quiet
  BY <1>5, CloseDoes DEF RowTo, Quiet
<1>6. ASSUME NEW w \in Web, StoreReference(w) PROVE Quiet
  BY <1>6, StoreReferenceDoes DEF RowTo, Quiet
<1>7. ASSUME NEW w \in Web, NEW ev \in Types, NEW p \in Payments,
             Receive(w, ev, p) \/ ReceiveUnknown(w, ev, p)
      PROVE  Quiet
  BY <1>7 DEF Receive, ReceiveUnknown, Quiet
<1>8. ASSUME NEW w \in Desk, NEW p \in Payments, Reconcile(w, p) PROVE Quiet
  BY <1>8 DEF Reconcile, Quiet
<1>9. ASSUME NEW w \in Bus, NEW p \in Payments, HandleCaptured(w, p) PROVE Quiet
  BY <1>9 DEF HandleCaptured, Quiet
<1>10. ASSUME NEW w \in Procs, RecordFailure(w) PROVE Quiet
  BY <1>10, RecordFailureDoes DEF RowTo, Quiet
<1>11. ASSUME NEW w \in Procs, RecordCapture(w) PROVE Quiet
  BY <1>11, RecordCaptureDoes DEF RowTo, Quiet
<1>12. ASSUME NEW w \in Procs, Poll(w) \/ ReadForPosting(w) \/ SapRejects(w) \/ Die(w)
       PROVE  Quiet
  BY <1>12 DEF Poll, ReadForPosting, SapRejects, Die, Quiet
<1>13. ASSUME NEW w \in Procs, SapPosts(w) PROVE [Promise!Next]_(Promise!vars)
  BY <1>13, SapPostsDoes, PostingKeepsPromise
<1>14. ASSUME NEW w \in Procs, SapUnavailable(w) PROVE [Promise!Next]_(Promise!vars)
  <2>1. CASE PostInSap(proc[w].p)
    BY <1>14, <2>1, SapUnavailableDoes, PostingKeepsPromise
  <2>2. CASE UNCHANGED <<sapDoc, docs, open>>
    BY <1>14, <2>2, SapUnavailableDoes DEF Quiet
  <2> QED
    BY <1>14, <2>1, <2>2, SapUnavailableDoes
<1>15. ASSUME NEW w \in Procs, RecordPosting(w) PROVE [Promise!Next]_(Promise!vars)
  <2>1. proc[w].p \in Payments
    BY <1>15, RecordPostingDoes
  <2> QED
    BY <1>15, <2>1, RecordingKeepsPromise
<1>16. ASSUME NEW p \in Payments, GatewayCaptures(p) PROVE [Promise!Next]_(Promise!vars)
  <2>1. /\ gateway[p] # "captured" /\ gateway' = [gateway EXCEPT ![p] = "captured"]
        /\ UNCHANGED <<row, outbox, sapDoc>>
    BY <1>16 DEF GatewayCaptures, CanPay
  <2>2. {x \in Payments : gateway'[x] = "captured"}
          = {x \in Payments : gateway[x] = "captured"} \union {p}
    BY <2>1 DEF Typed, TypeOK
  <2>3. Promise!Charge(p)
    BY <2>1, <2>2 DEF Promise!Charge
  <2> QED
    BY <2>3 DEF Promise!Next
<1>17. ASSUME NEW p \in Payments, GatewayDeclines(p) PROVE Quiet
  BY <1>17 DEF GatewayDeclines, CanPay, Quiet, Typed, TypeOK
<1>18. CASE UNCHANGED vars
  BY <1>18 DEF vars, Quiet
<1> QED
  BY <1>1, <1>2, <1>3, <1>4, <1>5, <1>6, <1>7, <1>8, <1>9, <1>10, <1>11, <1>12, <1>13,
     <1>14, <1>15, <1>16, <1>17, <1>18
     DEF Next, InitiatePayment, PostCapturedPayment

----------------------------------------------------------------------------
(* Theorems                                                                *)

LEMMA InitInv == Init => Inv
<1> SUFFICES ASSUME Init PROVE Inv
  OBVIOUS
<1>1. Typed
  BY PaymentAssumption
  DEF Init, Typed, TypeOK, CallsNamePayments, Row, Call, Idle, States, Types, Steps
<1>2. /\ \A w \in Procs : proc[w].pc = "idle"
      /\ outbox = {} /\ hooks = {}
      /\ \A p \in Payments : /\ row[p].state = "absent" /\ ~row[p].ref /\ row[p].fi = 0
                            /\ gateway[p] = "none" /\ sapDoc[p] = 0
  BY DEF Init, Idle
<1> QED
  BY <1>1, <1>2
  DEF Inv, Typed, OneRequest, Opening, NothingBeforeTheRow, WordOfCapture, CaptureInv,
      CaptureIsAnnounced, PostedMoneyWasTaken, ReceiptInv, ReceiptHasPosting

LEMMA NextInv == Inv /\ [Next]_vars => Inv'
<1> SUFFICES ASSUME Inv, [Next]_vars PROVE Inv'
  OBVIOUS
<1>1. /\ Typed /\ OneRequest /\ NothingBeforeTheRow /\ WordOfCapture
      /\ CaptureInv /\ PostedMoneyWasTaken /\ ReceiptInv
  BY DEF Inv, Typed
<1> QED
  BY <1>1, TypeStep, OneRequestStep, NothingStep, WordStep, CaptureStep, TakenStep,
     ReceiptStep
  DEF Inv, Typed

\* The invariant holds of every behaviour.
THEOREM PaymentInvariance == Spec => []Inv
BY InitInv, NextInv, PTL DEF Spec

\* Every variable keeps its type: in particular no open amount goes below
\* zero, because SAP refuses a posting that is more than what is open.
THEOREM PaymentTypeCorrect == Spec => []TypeOK
<1>1. Inv => TypeOK
  BY DEF Inv
<1> QED
  BY <1>1, PaymentInvariance, PTL

\* A receipt never outruns SAP (postCapturedPayment): the row and the event
\* name the document SAP made for the payment.
THEOREM ReceiptFollowsSap == Spec => []ReceiptHasPosting
<1>1. Inv => ReceiptHasPosting
  BY DEF Inv, ReceiptInv
<1> QED
  BY <1>1, PaymentInvariance, PTL

\* SAP posts only what the gateway has taken, whatever webhooks, polls,
\* retries and crashes there are.
THEOREM PostingFollowsMoney == Spec => []PostedMoneyWasTaken
<1>1. Inv => PostedMoneyWasTaken
  BY DEF Inv
<1> QED
  BY <1>1, PaymentInvariance, PTL

\* A row is captured only with its event in the outbox.
THEOREM EveryCaptureIsAnnounced == Spec => []CaptureIsAnnounced
<1>1. Inv => CaptureIsAnnounced
  BY DEF Inv, CaptureInv
<1> QED
  BY <1>1, PaymentInvariance, PTL

\* The document a row names is never replaced: SAP makes one per payment and
\* nothing else is ever written there.
THEOREM ReceiptIsFixed == Spec => ReceiptNeverChanges
<1>1. Inv /\ Inv' /\ [Next]_vars =>
        [\A p \in Payments : row[p].fi # 0 => row'[p].fi = row[p].fi]_vars
  <2> SUFFICES ASSUME Inv, Inv', [Next]_vars, NEW p \in Payments, row[p].fi # 0
               PROVE  row'[p].fi = row[p].fi
    OBVIOUS
  <2>1. <<"posted", p>> \in outbox /\ sapDoc[p] # 0 /\ row[p].fi = sapDoc[p]
    BY DEF Inv, ReceiptInv, ReceiptHasPosting
  <2>2. <<"posted", p>> \in outbox' /\ sapDoc'[p] = sapDoc[p]
    BY <2>1, OneDocument DEF Inv, Typed
  <2> QED
    BY <2>1, <2>2 DEF Inv, ReceiptInv, ReceiptHasPosting
<1> QED
  BY <1>1, PaymentInvariance, PTL DEF Spec, ReceiptNeverChanges

\* A payment whose row says that it was captured is not failed by anything that
\* is decided from then on: the gateway's answer to a poll is then the capture,
\* and the state machine refuses the failure of a webhook.
THEOREM FailureIsDecidedBefore == Spec => NoFailureAfterCapture
<1>1. Inv /\ [Next]_vars =>
        [\A w \in Procs :
           proc'[w].pc \in {"fail", "close"} /\ proc'[w] # proc[w] =>
             row[proc'[w].p].state \notin {"captured", "posted"}]_vars
  BY FailureDecided DEF Inv, Typed
<1> QED
  BY <1>1, PaymentInvariance, PTL DEF Spec, NoFailureAfterCapture

----------------------------------------------------------------------------
(* Theorems about a prompt gateway                                         *)

LEMMA InitPrompt == Init => PromptInv
BY DEF Init, Idle, PromptInv, PaidUnderReference, WordOfFailure, RequestOwnsRow,
       HeardIsKept, Kept, AckedCaptureIsRecorded

LEMMA NextPrompt ==
  ASSUME Prompt
  PROVE  Inv /\ PromptInv /\ [Next]_vars => PromptInv'
<1> SUFFICES ASSUME Inv, PromptInv, [Next]_vars PROVE PromptInv'
  OBVIOUS
<1>1. /\ Typed /\ OneRequest /\ NothingBeforeTheRow /\ WordOfCapture /\ CaptureInv
      /\ PaidUnderReference /\ WordOfFailure /\ RequestOwnsRow /\ HeardIsKept
  BY DEF Inv, PromptInv, Typed
<1> QED
  BY <1>1, PaidStep, FailureStep, RequestStep, HeardStep DEF PromptInv

LEMMA PromptInvariance ==
  ASSUME Prompt
  PROVE  Spec => [](Inv /\ PromptInv)
<1>1. Init => Inv /\ PromptInv
  BY InitInv, InitPrompt
<1>2. Inv /\ PromptInv /\ [Next]_vars => (Inv /\ PromptInv)'
  BY NextInv, NextPrompt
<1> QED
  BY <1>1, <1>2, PTL DEF Spec

\* With a prompt gateway a capture that was acknowledged is on the row: the
\* webhook that is answered 2xx has left its mark, whatever other webhook,
\* poll, posting or crash happened beside it.
THEOREM AcknowledgedIsRecorded ==
  ASSUME Prompt
  PROVE  Spec => []AckedCaptureIsRecorded
<1>1. Inv /\ PromptInv => AckedCaptureIsRecorded
  BY DEF PromptInv, HeardIsKept
<1> QED
  BY <1>1, PromptInvariance, PTL

----------------------------------------------------------------------------
(* Theorems about what SAP has cleared                                     *)

LEMMA ClearedInvariance == Spec => [](Inv /\ ClearedInv)
<1>1. Inv /\ ClearedInv /\ [Next]_vars => (Inv /\ ClearedInv)'
  BY NextInv, ClearedStep DEF Inv, Typed
<1> QED
  BY <1>1, InitInv, InitCleared, PTL DEF Spec

\* One FI document per payment posted, and no item is cleared of more than it
\* was for: whatever payments race for it, and however often a posting is
\* refused half-way, lost or retried.
THEOREM NoItemIsOverCleared == Spec => []NeverOverCleared
<1>1. Inv /\ ClearedInv => NeverOverCleared
  BY DEF ClearedInv
<1> QED
  BY <1>1, ClearedInvariance, PTL

\* When the payments together fit the items, the items are down by exactly
\* what the posted payments allocate: SAP then never refuses one of them, and
\* a retry after a lost answer clears nothing twice.
THEOREM ClearedExactly ==
  ASSUME TogetherFit
  PROVE  Spec => []ItemsClearedOnce
<1>1. Init => ItemsClearedOnce
  <2> SUFFICES ASSUME Init PROVE ItemsClearedOnce
    OBVIOUS
  <2>1. Posted = {} /\ open = OpenAmount
    BY DEF Init, Posted
  <2>2. docs = Cardinality(Posted)
    BY InitCleared DEF ClearedInv, NeverOverCleared
  <2>3. ASSUME NEW i \in Items PROVE OpenAmount[i] = open[i] + Settled(i, Posted)
    <3>1. Settled(i, Posted) = 0
      BY <2>1, FS_EmptySet, SettledAdd
    <3>2. OpenAmount[i] \in Nat
      BY PaymentAssumption DEF PaymentAssumption
    <3> QED
      BY <2>1, <3>1, <3>2
  <2> QED
    BY <2>2, <2>3 DEF ItemsClearedOnce, Settled
<1>2. ItemsClearedOnce /\ Inv /\ ClearedInv /\ [Next]_vars => ItemsClearedOnce'
  BY ItemsStep DEF Inv, Typed
<1> QED
  BY <1>1, <1>2, ClearedInvariance, PTL DEF Spec

\* The portal keeps the promise of payments, for any gateway: money first,
\* then one document of SAP's, then the customer is told of it, once; and no
\* race, retry, lost answer or crash takes any of it back.
THEOREM PromiseIsKept == Spec => KeepsPromise
<1>1. Init => Numbered /\ Promise!Init
  BY DEF Init, Numbered, Promise!Init
<1>2. Inv /\ Numbered /\ [Next]_vars => Numbered'
  BY NumberedStep DEF Inv, Typed
<1>3. Inv /\ Numbered /\ [Next]_vars => [Promise!Next]_(Promise!vars)
  BY StepKeepsPromise
<1> QED
  BY <1>1, <1>2, <1>3, PaymentInvariance, PTL DEF Spec, KeepsPromise, Promise!Spec

=============================================================================
