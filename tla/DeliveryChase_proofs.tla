----------------------- MODULE DeliveryChase_proofs -----------------------
(***************************************************************************)
(* Theorems about DeliveryChase, for any deliveries, requests, workers and *)
(* bounds.  The invariant follows a receipt: what a request is about to    *)
(* record SAP has taken, what is recorded is announced, what is announced  *)
(* a caller may be raising, and what a caller raised is the one ticket of  *)
(* its source.                                                             *)
(***************************************************************************)
EXTENDS DeliveryChase, FiniteSetTheorems, TLAPS

\* A request on its way to the transaction carries an outcome SAP took.
RequestsFollowSap ==
  \A b \in Buyers : request[b].at = "record" => request[b].outcome \in receipts[request[b].d]

\* Evidence and event are of one transaction.
EvidenceIsReported == \A d \in Deliveries : d \in reported <=> evidence[d] = "discrepancy"

\* Only a committed event is worked on.
CallsFollowEvents ==
  \A p \in Callers :
    call[p] # NoCall => call[p].source = Form \/ call[p].source \in reported

TicketsFollowEvents == \A t \in tickets : t.source # Form => t.source \in reported

TicketsAreFinite == IsFiniteSet(tickets)

ReceiptInv == RequestsFollowSap /\ EvidenceIsSaps /\ EvidenceIsReported
ChaseInv   == CallsFollowEvents /\ TicketsFollowEvents
TicketInv  == OneTicketPerDelivery /\ TicketsAreFinite /\ NumbersAreDense /\ SettledHasTicket

Inv == TypeOK /\ ReceiptInv /\ ChaseInv /\ TicketInv

----------------------------------------------------------------------------
(* Types                                                                   *)

\* What a request that has begun looks like.
LEMMA RequestBegun ==
  ASSUME PodTypeOK, NEW b \in Buyers, request[b].at # "idle"
  PROVE  request[b] \in Request
<1>1. request[b] \in Request \union {NoRequest}
  BY DEF PodTypeOK
<1> QED
  BY <1>1 DEF NoRequest

\* What a call that has begun looks like.
LEMMA CallBegun ==
  ASSUME IntakeTypeOK, NEW p \in Callers, call[p].at # "idle"
  PROVE  call[p] \in Call
<1>1. call[p] \in Call \union {NoCall}
  BY DEF IntakeTypeOK
<1> QED
  BY <1>1 DEF NoCall

\* A step of a receipt keeps the types of the receipts.
LEMMA PodTypePreserved == PodTypeOK /\ PodNext => PodTypeOK'
<1> SUFFICES ASSUME PodTypeOK, PodNext PROVE PodTypeOK'
  OBVIOUS
<1> USE PodAssumption DEF PodAssumption, PodTypeOK
<1>0. ASSUME NEW b \in Buyers, Return(b) PROVE request' \in [Buyers -> Request \union {NoRequest}]
  BY <1>0 DEF Return
<1>f. ASSUME PodFault PROVE podFaults' \in 0..MaxPodFaults
  BY <1>f DEF PodFault
<1>s. ASSUME NEW d \in Deliveries, NEW outcome \in Outcomes, SapConfirms(d, outcome)
      PROVE  /\ signed' \in [Deliveries -> BOOLEAN]
             /\ receipts' \in [Deliveries -> SUBSET Outcomes]
             /\ UNCHANGED <<evidence, reported, reversals>>
  BY <1>s DEF SapConfirms
<1>1. ASSUME NEW b \in Buyers, NEW d \in Deliveries, NEW outcome \in Outcomes,
             ConfirmReceipt(b, d, outcome)
      PROVE  PodTypeOK'
  <2>1. [at |-> "sap", d |-> d, outcome |-> outcome] \in Request
    BY DEF Request
  <2> QED
    BY <1>1, <2>1 DEF ConfirmReceipt
<1>2. ASSUME NEW b \in Buyers, ConfirmPod(b) PROVE PodTypeOK'
  <2>1. request[b] \in Request
    BY <1>2, RequestBegun DEF ConfirmPod, Reached
  <2>2. request[b].d \in Deliveries /\ request[b].outcome \in Outcomes
    BY <2>1 DEF Request
  <2>3. [request[b] EXCEPT !.at = "record"] \in Request
    BY ONLY <2>1, Zenon DEF Request
  <2>4. request' \in [Buyers -> Request \union {NoRequest}]
    BY <1>2, <2>3 DEF ConfirmPod
  <2> QED
    BY <1>2, <2>2, <2>4, <1>s DEF ConfirmPod
<1>3. ASSUME NEW b \in Buyers, ConfirmPodUnheard(b) PROVE PodTypeOK'
  <2>1. request[b] \in Request
    BY <1>3, RequestBegun DEF ConfirmPodUnheard, Reached
  <2>2. request[b].d \in Deliveries /\ request[b].outcome \in Outcomes
    BY <2>1 DEF Request
  <2> QED
    BY <1>3, <2>2, <1>0, <1>f, <1>s DEF ConfirmPodUnheard
<1>4. ASSUME NEW b \in Buyers, SapRefusesPod(b) PROVE PodTypeOK'
  BY <1>4, <1>0 DEF SapRefusesPod
<1>5. ASSUME NEW b \in Buyers, RecordPod(b) PROVE PodTypeOK'
  <2>1. request[b] \in Request
    BY <1>5, RequestBegun DEF RecordPod, Reached
  <2>2. request[b].d \in Deliveries /\ request[b].outcome \in Outcomes
    BY <2>1 DEF Request
  <2> QED
    BY <1>5, <2>2, <1>0 DEF RecordPod
<1>6. ASSUME NEW b \in Buyers, AlreadyRecorded(b) PROVE PodTypeOK'
  BY <1>6, <1>0 DEF AlreadyRecorded
<1>7. ASSUME NEW b \in Buyers, RequestDies(b) PROVE PodTypeOK'
  BY <1>7, <1>0, <1>f DEF RequestDies
<1>8. ASSUME NEW d \in Deliveries, Reverse(d) PROVE PodTypeOK'
  BY <1>8 DEF Reverse
<1> QED
  BY <1>1, <1>2, <1>3, <1>4, <1>5, <1>6, <1>7, <1>8 DEF PodNext, Proceed

\* A step of a caller of insertTicket keeps the types of the intake.
LEMMA IntakeTypePreserved ==
  ASSUME IntakeTypeOK, NEW p \in Callers,
         (\E s \in Sources \union {Form} : Begin(p, s)) \/ Work(p) \/ CallDies(p)
  PROVE  IntakeTypeOK'
<1> USE IntakeAssumption DEF IntakeAssumption, IntakeTypeOK
<1>0. ASSUME Returns(p) PROVE call' \in [Callers -> Call \union {NoCall}]
  BY <1>0 DEF Returns
<1>g. ASSUME NEW step \in {"number", "insert", "lookup"}, call[p] \in Call, Goes(p, step)
      PROVE  call' \in [Callers -> Call \union {NoCall}]
  <2>1. [call[p] EXCEPT !.at = step] \in Call
    BY ONLY <1>g, Zenon DEF Call
  <2> QED
    BY <1>g, <2>1 DEF Goes
<1>c. ASSUME call[p] \in Call, Completes(p) PROVE settled' \in SUBSET Sources
  <2>1. call[p].source \in Sources \union {Form}
    BY <1>c DEF Call
  <2> QED
    BY <1>c, <2>1 DEF Completes
<1>1. ASSUME NEW s \in Sources \union {Form}, Begin(p, s) PROVE IntakeTypeOK'
  <2>1. [at |-> "number", source |-> s, first |-> TRUE, creates |-> FALSE] \in Call
    BY ONLY s \in Sources \union {Form}, Zenon DEF Call
  <2> QED
    BY <1>1, <2>1 DEF Begin
<1>2. CASE NextTicketNo(p)
  <2>1. call[p] \in Call
    BY <1>2, CallBegun DEF NextTicketNo
  <2>2. (counter = 0) \in BOOLEAN
    OBVIOUS
  <2>3. [call[p] EXCEPT !.at = "insert", !.creates = (counter = 0)] \in Call
    BY ONLY <2>1, <2>2, Zenon DEF Call
  <2> QED
    BY <1>2, <2>3 DEF NextTicketNo
<1>3. CASE Insert(p)
  <2>1. call[p] \in Call
    BY <1>3, CallBegun DEF Insert
  <2>2. call[p].source \in Sources \union {Form}
    BY <2>1 DEF Call
  <2>3. counter + 1 \in 1..MaxTickets
    BY <1>3 DEF Insert
  <2>4. tickets' \in SUBSET Ticket
    BY <1>3, <2>2, <2>3 DEF Insert, Ticket
  <2> QED
    BY <1>3, <2>1, <2>3, <2>4, <1>0, <1>c DEF Insert
<1>4. CASE Collision(p)
  <2>1. call[p] \in Call
    BY <1>4, CallBegun DEF Collision
  <2> QED
    BY <1>4, <2>1, <1>0, <1>g DEF Collision
<1>5. CASE Lookup(p)
  <2>1. call[p] \in Call
    BY <1>5, CallBegun DEF Lookup
  <2>2. [call[p] EXCEPT !.at = "number", !.first = FALSE] \in Call
    BY ONLY <2>1, Zenon DEF Call
  <2> QED
    BY <1>5, <2>1, <2>2, <1>0, <1>c DEF Lookup
<1>6. CASE CallDies(p)
  BY <1>6, <1>0 DEF CallDies
<1> QED
  BY <1>1, <1>2, <1>3, <1>4, <1>5, <1>6 DEF Work

\* The initial state has its types.
LEMMA TypeInit == Init => TypeOK
<1> SUFFICES ASSUME Init PROVE TypeOK
  OBVIOUS
<1>1. PodTypeOK
  BY PodAssumption DEF PodAssumption, Init, PodInit, PodTypeOK
<1>2. IntakeTypeOK
  BY IntakeAssumption DEF IntakeAssumption, Init, IntakeInit, IntakeTypeOK
<1> QED
  BY <1>1, <1>2 DEF TypeOK

\* Every step keeps the types.
LEMMA TypePreserved == TypeOK /\ [Next]_vars => TypeOK'
<1> SUFFICES ASSUME TypeOK, [Next]_vars PROVE TypeOK'
  OBVIOUS
<1>1. CASE PodNext /\ UNCHANGED intakeVars
  BY <1>1, PodTypePreserved DEF TypeOK, IntakeTypeOK, intakeVars
<1>2. ASSUME NEW p \in Callers, Raise(p) PROVE TypeOK'
  <2>1. (\E s \in Sources \union {Form} : Begin(p, s)) \/ Work(p)
    <3>1. reported \subseteq Sources
      BY ChaseAssumption DEF ChaseAssumption, TypeOK, PodTypeOK
    <3> QED
      BY <1>2, <3>1 DEF Raise
  <2> QED
    BY <1>2, <2>1, IntakeTypePreserved DEF Raise, TypeOK, PodTypeOK, podVars
<1>3. ASSUME NEW p \in Callers, CallDies(p), UNCHANGED podVars PROVE TypeOK'
  BY <1>3, IntakeTypePreserved DEF TypeOK, PodTypeOK, podVars
<1>4. CASE UNCHANGED vars
  BY <1>4 DEF vars, podVars, intakeVars, TypeOK, PodTypeOK, IntakeTypeOK
<1> QED
  BY <1>1, <1>2, <1>3, <1>4 DEF Next

----------------------------------------------------------------------------
(* Receipts                                                                *)

\* What is recorded SAP has taken, and what is announced is recorded.
LEMMA ReceiptsPreserved == TypeOK /\ ReceiptInv /\ [Next]_vars => ReceiptInv'
<1> SUFFICES ASSUME TypeOK, ReceiptInv, [Next]_vars PROVE ReceiptInv'
  OBVIOUS
<1> USE DEF ReceiptInv, RequestsFollowSap, EvidenceIsSaps, EvidenceIsReported
<1>t. PodTypeOK
  BY DEF TypeOK
<1>u. ASSUME UNCHANGED podVars PROVE ReceiptInv'
  BY <1>u DEF podVars
<1>r. ASSUME NEW b \in Buyers, NEW x \in Buyers, Return(b), request'[x].at = "record"
      PROVE  request'[x] = request[x]
  BY <1>r, <1>t DEF Return, NoRequest, PodTypeOK
<1>s. ASSUME NEW d \in Deliveries, NEW outcome \in Outcomes, SapConfirms(d, outcome)
      PROVE  /\ \A e \in Deliveries : receipts[e] \subseteq receipts'[e]
             /\ outcome \in receipts'[d]
             /\ UNCHANGED <<evidence, reported>>
  BY <1>s, <1>t DEF SapConfirms, PodTypeOK
<1>d. ASSUME NEW b \in Buyers, request[b].at # "idle"
      PROVE  request[b].d \in Deliveries /\ request[b].outcome \in Outcomes
  BY <1>d, <1>t, RequestBegun DEF Request
<1>1. ASSUME NEW b \in Buyers, NEW d \in Deliveries, NEW outcome \in Outcomes,
             ConfirmReceipt(b, d, outcome)
      PROVE  ReceiptInv'
  BY <1>1, <1>t DEF ConfirmReceipt, PodTypeOK
<1>2. ASSUME NEW b \in Buyers, ConfirmPod(b) PROVE ReceiptInv'
  <2> DEFINE d == request[b].d  outcome == request[b].outcome
  <2>1. d \in Deliveries /\ outcome \in Outcomes
    BY <1>2, <1>d DEF ConfirmPod, Reached
  <2>2. SapConfirms(d, outcome)
    BY <1>2 DEF ConfirmPod
  <2>3. /\ \A e \in Deliveries : receipts[e] \subseteq receipts'[e]
        /\ outcome \in receipts'[d]
        /\ UNCHANGED <<evidence, reported>>
    BY <2>1, <2>2, <1>s
  <2>4. EvidenceIsSaps' /\ EvidenceIsReported'
    BY <2>3
  <2>5. ASSUME NEW x \in Buyers, request'[x].at = "record"
        PROVE  request'[x].outcome \in receipts'[request'[x].d]
    <3>1. request' = [request EXCEPT ![b] = [request[b] EXCEPT !.at = "record"]]
      BY <1>2 DEF ConfirmPod
    <3>2. CASE x = b
      <4>1. request[b] \in Request
        BY <1>2, <1>t, RequestBegun DEF ConfirmPod, Reached
      <4>2. request'[b] = [request[b] EXCEPT !.at = "record"]
        BY <3>1, <1>t DEF PodTypeOK
      <4>3. request'[b].d = d /\ request'[b].outcome = outcome
        BY <4>1, <4>2 DEF Request
      <4> QED
        BY <3>2, <4>3, <2>3
    <3>3. CASE x # b
      <4>1. request'[x] = request[x]
        BY <3>1, <3>3, <1>t DEF PodTypeOK
      <4>2. request[x].d \in Deliveries
        BY <4>1, <2>5, <1>d
      <4> QED
        BY <4>1, <4>2, <2>3, <2>5
    <3> QED
      BY <3>2, <3>3
  <2> QED
    BY <2>4, <2>5
<1>3. ASSUME NEW b \in Buyers, ConfirmPodUnheard(b) PROVE ReceiptInv'
  <2>1. request[b].d \in Deliveries /\ request[b].outcome \in Outcomes
    BY <1>3, <1>d DEF ConfirmPodUnheard, Reached
  <2>2. SapConfirms(request[b].d, request[b].outcome) /\ Return(b)
    BY <1>3 DEF ConfirmPodUnheard
  <2>3. /\ \A e \in Deliveries : receipts[e] \subseteq receipts'[e]
        /\ UNCHANGED <<evidence, reported>>
    BY <2>1, <2>2, <1>s
  <2>4. ASSUME NEW x \in Buyers, request'[x].at = "record"
        PROVE  request'[x].outcome \in receipts'[request'[x].d]
    <3>1. request'[x] = request[x]
      BY <2>2, <2>4, <1>r
    <3>2. request[x].d \in Deliveries
      BY <3>1, <2>4, <1>d
    <3> QED
      BY <3>1, <3>2, <2>3, <2>4
  <2> QED
    BY <2>3, <2>4
<1>4. ASSUME NEW b \in Buyers, RecordPod(b) PROVE ReceiptInv'
  <2> DEFINE d == request[b].d  outcome == request[b].outcome
  <2>1. d \in Deliveries /\ outcome \in Outcomes
    BY <1>4, <1>d DEF RecordPod, Reached
  <2>2. outcome \in receipts[d]
    BY <1>4 DEF RecordPod, Reached
  <2>3. /\ evidence[d] = "none"
        /\ evidence' = [evidence EXCEPT ![d] = outcome]
        /\ reported' = IF outcome = "discrepancy" THEN reported \union {d} ELSE reported
        /\ receipts' = receipts
        /\ Return(b)
    BY <1>4 DEF RecordPod
  <2>4. EvidenceIsSaps'
    BY <2>1, <2>2, <2>3, <1>t DEF PodTypeOK
  <2>5. EvidenceIsReported'
    BY <2>1, <2>3, <1>t DEF PodTypeOK, Outcomes
  <2>6. RequestsFollowSap'
    BY <2>3, <1>r
  <2> QED
    BY <2>4, <2>5, <2>6
<1>5. ASSUME NEW b \in Buyers, SapRefusesPod(b) \/ AlreadyRecorded(b) \/ RequestDies(b)
      PROVE  ReceiptInv'
  <2>1. Return(b) /\ UNCHANGED <<receipts, evidence, reported>>
    BY <1>5 DEF SapRefusesPod, AlreadyRecorded, RequestDies
  <2> QED
    BY <2>1, <1>r
<1>6. ASSUME NEW d \in Deliveries, Reverse(d) PROVE ReceiptInv'
  BY <1>6 DEF Reverse
<1>7. CASE PodNext
  BY <1>7, <1>1, <1>2, <1>3, <1>4, <1>5, <1>6 DEF PodNext, Proceed
<1> QED
  BY <1>7, <1>u DEF Next, Raise, vars

----------------------------------------------------------------------------
(* Events and calls                                                        *)

\* Nobody raises a ticket for a delivery without its event.
LEMMA ChasePreserved == TypeOK /\ ReceiptInv /\ ChaseInv /\ [Next]_vars => ChaseInv'
<1> SUFFICES ASSUME TypeOK, ReceiptInv, ChaseInv, [Next]_vars PROVE ChaseInv'
  OBVIOUS
<1> USE DEF ChaseInv, CallsFollowEvents, TicketsFollowEvents
<1>t. IntakeTypeOK
  BY DEF TypeOK
<1>1. ASSUME PodNext, UNCHANGED intakeVars PROVE ChaseInv'
  <2>1. reported \subseteq reported'
    BY <1>1 DEF PodNext, Proceed, ConfirmReceipt, ConfirmPod, ConfirmPodUnheard, SapRefusesPod,
                RecordPod, AlreadyRecorded, RequestDies, Reverse, SapConfirms
  <2> QED
    BY <1>1, <2>1 DEF intakeVars
<1>r. ASSUME NEW p \in Callers, Returns(p), UNCHANGED podVars, UNCHANGED tickets PROVE ChaseInv'
  BY <1>r, <1>t DEF Returns, NoCall, podVars, IntakeTypeOK
<1>2. ASSUME NEW p \in Callers, NEW s \in reported \union {Form}, Begin(p, s),
             UNCHANGED podVars
      PROVE  ChaseInv'
  BY <1>2, <1>t DEF Begin, podVars, NoCall, IntakeTypeOK
<1>c. ASSUME NEW p \in Callers, NEW c, call[p] \in Call, c.source = call[p].source,
             call' = [call EXCEPT ![p] = c], UNCHANGED podVars, UNCHANGED tickets
      PROVE  ChaseInv'
  <2>1. call[p] # NoCall
    BY <1>c DEF Call, NoCall
  <2> QED
    BY <1>c, <2>1, <1>t DEF podVars, IntakeTypeOK
<1>3. ASSUME NEW p \in Callers, NextTicketNo(p), UNCHANGED podVars PROVE ChaseInv'
  <2>1. call[p] \in Call
    BY <1>3, <1>t, CallBegun DEF NextTicketNo
  <2> DEFINE c == [call[p] EXCEPT !.at = "insert", !.creates = (counter = 0)]
  <2>2. c.source = call[p].source
    BY <2>1 DEF Call
  <2>3. call' = [call EXCEPT ![p] = c] /\ UNCHANGED tickets
    BY <1>3 DEF NextTicketNo
  <2> HIDE DEF c
  <2> QED
    BY <1>3, <2>1, <2>2, <2>3, <1>c
<1>4. ASSUME NEW p \in Callers, Insert(p), UNCHANGED podVars PROVE ChaseInv'
  <2>1. call[p] # NoCall
    BY <1>4 DEF Insert, NoCall
  <2> QED
    BY <1>4, <2>1, <1>t DEF Insert, Returns, NoCall, podVars, IntakeTypeOK
<1>5. ASSUME NEW p \in Callers, Collision(p), UNCHANGED podVars PROVE ChaseInv'
  <2>1. call[p] \in Call /\ UNCHANGED tickets
    BY <1>5, <1>t, CallBegun DEF Collision
  <2>2. CASE Returns(p)
    BY <2>2, <2>1, <1>5, <1>r
  <2>3. CASE Goes(p, "lookup")
    <3> DEFINE c == [call[p] EXCEPT !.at = "lookup"]
    <3>1. c.source = call[p].source
      BY <2>1 DEF Call
    <3>2. call' = [call EXCEPT ![p] = c]
      BY <2>3 DEF Goes
    <3> HIDE DEF c
    <3> QED
      BY <1>5, <2>1, <3>1, <3>2, <1>c
  <2> QED
    BY <1>5, <2>2, <2>3 DEF Collision
<1>6. ASSUME NEW p \in Callers, Lookup(p), UNCHANGED podVars PROVE ChaseInv'
  <2>1. call[p] \in Call /\ UNCHANGED tickets
    BY <1>6, <1>t, CallBegun DEF Lookup
  <2>2. CASE Returns(p)
    BY <2>2, <2>1, <1>6, <1>r
  <2>3. CASE ~Taken(call[p].source)
    <3> DEFINE c == [call[p] EXCEPT !.at = "number", !.first = FALSE]
    <3>1. c.source = call[p].source
      BY <2>1 DEF Call
    <3>2. call' = [call EXCEPT ![p] = c]
      BY <1>6, <2>3 DEF Lookup
    <3> HIDE DEF c
    <3> QED
      BY <1>6, <2>1, <3>1, <3>2, <1>c
  <2> QED
    BY <1>6, <2>2, <2>3 DEF Lookup
<1>7. ASSUME NEW p \in Callers, CallDies(p), UNCHANGED podVars PROVE ChaseInv'
  BY <1>7, <1>r DEF CallDies
<1>8. CASE UNCHANGED vars
  BY <1>8 DEF vars, podVars, intakeVars
<1> QED
  BY <1>1, <1>2, <1>3, <1>4, <1>5, <1>6, <1>7, <1>8 DEF Next, Raise, Work

----------------------------------------------------------------------------
(* Tickets                                                                 *)

\* A ticket that is inserted is the next one, and the first of its source.
LEMMA TicketsPreserved == TypeOK /\ TicketInv /\ [Next]_vars => TicketInv'
<1> SUFFICES ASSUME TypeOK, TicketInv, [Next]_vars PROVE TicketInv'
  OBVIOUS
<1> USE DEF TicketInv, OneTicketPerDelivery, TicketsAreFinite, NumbersAreDense,
            SettledHasTicket
<1>t. IntakeTypeOK
  BY DEF TypeOK
<1>u. ASSUME UNCHANGED <<tickets, counter, raised, settled>> PROVE TicketInv'
  BY <1>u
<1>1. ASSUME NEW p \in Callers, Insert(p) PROVE TicketInv'
  <2> DEFINE source == call[p].source  t == [no |-> counter + 1, source |-> source]
  <2>1. /\ tickets' = tickets \union {t}
        /\ counter' = counter + 1
        /\ raised' = raised \union {counter + 1}
        /\ settled' = settled \union ({source} \ {Form})
        /\ ~Taken(source)
    BY <1>1 DEF Insert, Completes, Collides
  <2>2. counter \in Nat
    BY <1>t, IntakeAssumption DEF IntakeTypeOK, IntakeAssumption
  <2>3. t.no = counter + 1 /\ t.source = source
    OBVIOUS
  <2>4. t \notin tickets
    <3>1. counter + 1 \notin {u.no : u \in tickets}
      BY <2>2
    <3> QED
      BY <2>3, <3>1
  <2> HIDE DEF t
  <2>5. IsFiniteSet(tickets') /\ Cardinality(tickets') = counter'
    BY <2>1, <2>2, <2>4, FS_AddElement
  <2>6. 1..counter' = (1..counter) \union {counter + 1}
    BY <2>1, <2>2
  <2>7. {u.no : u \in tickets'} = {u.no : u \in tickets} \union {counter + 1}
    BY <2>1, <2>3
  <2>8. raised' = 1..counter'
    BY <2>1, <2>6
  <2>9. OneTicketPerDelivery'
    BY <2>1, <2>3 DEF Taken
  <2>10. SettledHasTicket'
    BY <2>1, <2>3
  <2> QED
    BY <2>5, <2>6, <2>7, <2>8, <2>9, <2>10
<1>2. ASSUME NEW p \in Callers, Lookup(p) PROVE TicketInv'
  <2>1. UNCHANGED <<tickets, counter, raised>>
    BY <1>2 DEF Lookup
  <2>2. CASE Taken(call[p].source)
    <3>1. settled' = settled \union ({call[p].source} \ {Form})
      BY <1>2, <2>2 DEF Lookup, Completes
    <3> QED
      BY <2>1, <2>2, <3>1 DEF Taken
  <2>3. CASE ~Taken(call[p].source)
    BY <1>2, <2>1, <2>3, <1>u DEF Lookup
  <2> QED
    BY <2>2, <2>3
<1>3. ASSUME NEW p \in Callers,
             (\E s \in reported \union {Form} : Begin(p, s))
               \/ NextTicketNo(p) \/ Collision(p) \/ CallDies(p)
      PROVE  TicketInv'
  BY <1>3, <1>u DEF Begin, NextTicketNo, Collision, CallDies
<1>4. CASE UNCHANGED intakeVars
  BY <1>4, <1>u DEF intakeVars
<1> QED
  BY <1>1, <1>2, <1>3, <1>4 DEF Next, Raise, Work, vars

----------------------------------------------------------------------------
(* Theorems                                                                *)

\* The invariant holds in every reachable state.
THEOREM ChaseInvariance == Spec => []Inv
<1>1. Init => Inv
  <2> SUFFICES ASSUME Init PROVE Inv
    OBVIOUS
  <2>1. TypeOK
    BY TypeInit
  <2>2. ReceiptInv
    BY DEF Init, PodInit, ReceiptInv, RequestsFollowSap, EvidenceIsSaps, EvidenceIsReported,
           NoRequest
  <2>3. ChaseInv
    BY DEF Init, IntakeInit, ChaseInv, CallsFollowEvents, TicketsFollowEvents
  <2>4. TicketInv
    <3>1. tickets = {} /\ counter = 0 /\ raised = {} /\ settled = {}
      BY DEF Init, IntakeInit
    <3>2. IsFiniteSet(tickets) /\ Cardinality(tickets) = 0
      BY <3>1, FS_EmptySet
    <3>3. 1..counter = {} /\ {t.no : t \in tickets} = {}
      BY <3>1
    <3> QED
      BY <3>1, <3>2, <3>3 DEF TicketInv, OneTicketPerDelivery, TicketsAreFinite,
                              NumbersAreDense, SettledHasTicket
  <2> QED
    BY <2>1, <2>2, <2>3, <2>4 DEF Inv
<1>2. Inv /\ [Next]_vars => Inv'
  BY TypePreserved, ReceiptsPreserved, ChasePreserved, TicketsPreserved DEF Inv
<1> QED
  BY <1>1, <1>2, PTL DEF Spec

\* Every variable keeps its type.
THEOREM ChaseTypeCorrect == Spec => []TypeOK
<1>1. Inv => TypeOK
  BY DEF Inv
<1> QED
  BY <1>1, ChaseInvariance, PTL

\* Evidence is an outcome that SAP took, however many requests, reversals and
\* lost answers there are.
THEOREM EvidenceFollowsSap == Spec => []EvidenceIsSaps
<1>1. Inv => EvidenceIsSaps
  BY DEF Inv, ReceiptInv
<1> QED
  BY <1>1, ChaseInvariance, PTL

\* No ticket chases a receipt that the portal has no discrepancy of.
THEOREM TicketsFollowEvidence == Spec => []TicketsHaveEvidence
<1>1. Inv => TicketsHaveEvidence
  <2> SUFFICES ASSUME Inv, NEW t \in tickets, t.source # Form
               PROVE  evidence[t.source] = "discrepancy"
    BY DEF TicketsHaveEvidence
  <2>1. t.source \in reported
    BY DEF Inv, ChaseInv, TicketsFollowEvents
  <2>2. t.source \in Deliveries
    BY <2>1 DEF Inv, TypeOK, PodTypeOK
  <2> QED
    BY <2>1, <2>2 DEF Inv, ReceiptInv, EvidenceIsReported
<1> QED
  BY <1>1, ChaseInvariance, PTL

\* However many workers take the event, and however often, a delivery has one
\* ticket.
THEOREM DeliveryHasOneTicket == Spec => []OneTicketPerDelivery
<1>1. Inv => OneTicketPerDelivery
  BY DEF Inv, TicketInv
<1> QED
  BY <1>1, ChaseInvariance, PTL

\* Ticket numbers have no gap and no double.
THEOREM TicketNumbersAreDense == Spec => []NumbersAreDense
<1>1. Inv => NumbersAreDense
  BY DEF Inv, TicketInv
<1> QED
  BY <1>1, ChaseInvariance, PTL

\* No job completes over a collision that was not its own.
THEOREM CompletedJobsHaveTickets == Spec => []SettledHasTicket
<1>1. Inv => SettledHasTicket
  BY DEF Inv, TicketInv
<1> QED
  BY <1>1, ChaseInvariance, PTL
============================================================================
