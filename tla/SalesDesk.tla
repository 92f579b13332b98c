----------------------------- MODULE SalesDesk -----------------------------
(***************************************************************************)
(* From an inquiry to an order: inquiries, quotations and their acceptance *)
(* (packages/services/inquiry/src), orders placed and cancelled directly   *)
(* (packages/services/order/src), the credit desk's releases, over one     *)
(* account's book in SAP (SalesOrders).  A service reads the document,     *)
(* checks it and then calls SAP; SAP checks again; the event of what SAP   *)
(* did is written afterwards and may be lost.                              *)
(***************************************************************************)
EXTENDS SalesOrders

CONSTANTS
  Inquiries,      \* inquiries, each with at most one quotation
  Buyers,         \* calls of the account's users
  Price,          \* net value of a quotation
  MaxRevisions,   \* bound: revision requests of a quotation
  MaxDeskFaults   \* bound: calls that die, events that are lost

ASSUME DeskAssumption ==
  /\ Price \in Values
  /\ MaxRevisions \in Nat /\ MaxDeskFaults \in Nat

VARIABLES
  quotation,   \* quotation[i]: none yet, or what SAP has of it
  events,      \* outbox events: <<name, inquiry, number>>
  lost,        \* events that were never written (history)
  call,        \* call[b]: the step of b's call that comes next
  deskFaults

deskVars == <<quotation, events, lost, call, deskFaults>>
vars == <<bookVars, deskVars>>

NoQuotation == [status |-> "none"]
\* order: VBAK of its conversion, 0 before.  revisions: how many were asked.
Quotation == [status : {"Open", "Closed"}, lapsed : BOOLEAN, order : 0..MaxOrders,
              revisions : 0..MaxRevisions]
Asked == [status |-> "asked"]
Event == {"issued"} \X Inquiries \X {0} \union {"accepted"} \X Inquiries \X (1..MaxOrders)
           \union {"revision"} \X Inquiries \X (1..MaxRevisions)
Idle == [does |-> "nothing"]
Call == [does : {"cancel"}, o : 1..MaxOrders]
          \union [does : {"convert", "create"}, i : Inquiries, po : Pos \union {NoPo}]
          \union [does : {"revise"}, i : Inquiries]
          \union [does : {"announce"}, event : Event]

TypeOK ==
  /\ BookTypeOK
  /\ quotation \in [Inquiries -> Quotation \union {NoQuotation, Asked}]
  /\ events \in SUBSET Event
  /\ lost \in SUBSET Event
  /\ call \in [Buyers -> Call \union {Idle}]
  /\ deskFaults \in 0..MaxDeskFaults

Init ==
  /\ BookInit
  /\ quotation = [i \in Inquiries |-> NoQuotation]
  /\ events = {} /\ lost = {}
  /\ call = [b \in Buyers |-> Idle]
  /\ deskFaults = 0

Fault == deskFaults < MaxDeskFaults /\ deskFaults' = deskFaults + 1
Does(b, what) == call[b].does = what
Goes(b, next) == call' = [call EXCEPT ![b] = next]
Quoted(i) == quotation[i] \notin {NoQuotation, Asked}

----------------------------------------------------------------------------
(* createOrder, cancelOrder                                                *)

CreateOrder(b, po, value) ==
  /\ call[b] = Idle
  /\ CreateSalesOrder(po, value)
  /\ UNCHANGED deskVars

\* cancelOrder re-reads the status before it calls SAP.
CheckCancel(b, o) ==
  /\ call[b] = Idle
  /\ Live(o) /\ orders[o].status = "Open"
  /\ Goes(b, [does |-> "cancel", o |-> o])
  /\ UNCHANGED <<bookVars, quotation, events, lost, deskFaults>>

CancelOrder(b) ==
  /\ Does(b, "cancel")
  /\ CancelSalesOrder(call[b].o) \/ CancelRefused(call[b].o)
  /\ Goes(b, Idle)
  /\ UNCHANGED <<quotation, events, lost, deskFaults>>

----------------------------------------------------------------------------
(* createInquiry, autoQuote, createQuotation with issueQuotation           *)

CreateInquiry(b, i) ==
  /\ call[b] = Idle
  /\ quotation[i] = NoQuotation
  /\ quotation' = [quotation EXCEPT ![i] = Asked]
  /\ UNCHANGED <<bookVars, events, lost, call, deskFaults>>

Issue(i) ==
  /\ quotation[i] = Asked
  /\ quotation' = [quotation EXCEPT ![i] =
       [status |-> "Open", lapsed |-> FALSE, order |-> 0, revisions |-> 0]]

\* The inquiry was not answered in time: it is quoted when somebody looks.
AutoQuote(i) == Issue(i) /\ UNCHANGED <<bookVars, events, lost, call, deskFaults>>

\* The workbench; the event is written after SAP, its loss swallowed.
IssueQuotation(i) ==
  /\ Issue(i)
  /\ \/ events' = events \union {<<"issued", i, 0>>} /\ UNCHANGED <<lost, deskFaults>>
     \/ Fault /\ lost' = lost \union {<<"issued", i, 0>>} /\ UNCHANGED events
  /\ UNCHANGED <<bookVars, call>>

Lapse(i) ==
  /\ Quoted(i) /\ ~quotation[i].lapsed
  /\ quotation' = [quotation EXCEPT ![i] = [@ EXCEPT !.lapsed = TRUE]]
  /\ UNCHANGED <<bookVars, events, lost, call, deskFaults>>

----------------------------------------------------------------------------
(* acceptQuotation with convertQuoteToOrder                                *)

\* quotationAcceptBlock finds nothing against it; SAP's own check is the same.
Acceptable(i) ==
  Quoted(i) /\ quotation[i].order = 0 /\ quotation[i].status = "Open" /\ ~quotation[i].lapsed

AcceptQuotation(b, i, po) ==
  /\ call[b] = Idle /\ Acceptable(i)
  /\ Goes(b, [does |-> "convert", i |-> i, po |-> po])
  /\ UNCHANGED <<bookVars, quotation, events, lost, deskFaults>>

\* The first call of convertQuoteToOrder checks again ...
ConvertQuoteToOrder(b) ==
  /\ Does(b, "convert")
  /\ LET i == call[b].i
     IN IF quotation[i].order = 0 /\ ~quotation[i].lapsed
        THEN Goes(b, [does |-> "create", i |-> i, po |-> call[b].po])
        ELSE Goes(b, Idle)
  /\ UNCHANGED <<bookVars, quotation, events, lost, deskFaults>>

\* ... and the second creates the order, or finds the one of its PO reference.
CreateFromQuotation(b) ==
  /\ Does(b, "create")
  /\ LET i == call[b].i  o == OrderOf(call[b].po)
     IN /\ CreateSalesOrder(call[b].po, Price)
        /\ quotation' = [quotation EXCEPT ![i] = [@ EXCEPT !.order = o, !.status = "Closed"]]
        /\ Goes(b, [does |-> "announce", event |-> <<"accepted", i, o>>])
  /\ UNCHANGED <<events, lost, deskFaults>>

----------------------------------------------------------------------------
(* requestRevision                                                         *)

CheckRevision(b, i) ==
  /\ call[b] = Idle
  /\ Quoted(i) /\ quotation[i].order = 0 /\ quotation[i].status = "Open"
  /\ quotation[i].revisions < MaxRevisions
  /\ Goes(b, [does |-> "revise", i |-> i])
  /\ UNCHANGED <<bookVars, quotation, events, lost, deskFaults>>

\* SAP refuses once there is an order.
RequestRevision(b) ==
  /\ Does(b, "revise")
  /\ LET i == call[b].i  n == quotation[i].revisions + 1
     IN IF quotation[i].order = 0 /\ n <= MaxRevisions
        THEN /\ quotation' = [quotation EXCEPT ![i] = [@ EXCEPT !.revisions = n]]
             /\ Goes(b, [does |-> "announce", event |-> <<"revision", i, n>>])
        ELSE Goes(b, Idle) /\ UNCHANGED quotation
  /\ UNCHANGED <<bookVars, events, lost, deskFaults>>

\* Seeded fault: the event is deduped by the document alone.
AnnounceOnce(b) ==
  /\ Does(b, "announce")
  /\ LET e == call[b].event
     IN events' = IF \E f \in events : f[1] = e[1] /\ f[2] = e[2] THEN events
                  ELSE events \union {e}
  /\ Goes(b, Idle)
  /\ UNCHANGED <<bookVars, quotation, lost, deskFaults>>

\* An acceptance is deduped by its quotation, a revision by its count.
Announce(b) ==
  /\ Does(b, "announce")
  /\ LET e == call[b].event
     IN events' = IF e[1] = "accepted" /\ \E f \in events : f[1] = e[1] /\ f[2] = e[2]
                  THEN events
                  ELSE events \union {e}
  /\ Goes(b, Idle)
  /\ UNCHANGED <<bookVars, quotation, lost, deskFaults>>

\* The event cannot be written, or the call's process dies.
CallFails(b) ==
  /\ call[b] # Idle /\ Fault
  /\ lost' = IF Does(b, "announce") THEN lost \union {call[b].event} ELSE lost
  /\ Goes(b, Idle)
  /\ UNCHANGED <<bookVars, quotation, events>>

----------------------------------------------------------------------------

Next ==
  \/ BookNext /\ UNCHANGED deskVars
  \/ \E b \in Buyers :
       \/ \E po \in Pos \union {NoPo}, v \in Values : CreateOrder(b, po, v)
       \/ \E o \in Placed : CheckCancel(b, o)
       \/ CancelOrder(b)
       \/ \E i \in Inquiries : CreateInquiry(b, i) \/ CheckRevision(b, i)
       \/ \E i \in Inquiries, po \in Pos \union {NoPo} : AcceptQuotation(b, i, po)
       \/ ConvertQuoteToOrder(b) \/ CreateFromQuotation(b)
       \/ RequestRevision(b) \/ Announce(b) \/ CallFails(b)
  \/ \E i \in Inquiries : AutoQuote(i) \/ IssueQuotation(i) \/ Lapse(i)

Spec == Init /\ [][Next]_vars

----------------------------------------------------------------------------
(* Properties                                                              *)

\* "A customer may legitimately ask twice, and a key that ignored the second
\* ask would silence a real follow-up" (requestRevision): every revision SAP
\* has was announced, is about to be, or its event was lost outright.
RevisionsAreAnnounced ==
  \A i \in Inquiries :
    Quoted(i) => \A n \in 1..quotation[i].revisions :
      LET e == <<"revision", i, n>>
      IN e \in events \union lost \/ \E b \in Buyers : Does(b, "announce") /\ call[b].event = e

\* "The quotation's prices carried onto the lines, which is what 'copy control'
\* means" (driver.ts:727): the order a quotation was converted to has its value.
\* This does not hold (README, "What the code does not promise").
ConvertedAtQuotedPrice ==
  \A i \in Inquiries :
    Quoted(i) /\ quotation[i].order # 0 => orders[quotation[i].order].value = Price
============================================================================
