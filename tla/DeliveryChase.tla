--------------------------- MODULE DeliveryChase ---------------------------
(***************************************************************************)
(* From a customer's short receipt to the ticket that chases it:           *)
(* confirmReceipt commits delivery.discrepancy.reported (ProofOfDelivery)  *)
(* and the handler of that event raises a ticket (TicketIntake).  The      *)
(* event reaches its handler at least once, as EventPipeline shows, and    *)
(* perhaps two workers at a time; the bound on faults is below the five    *)
(* tries of a job.                                                         *)
(***************************************************************************)
EXTENDS ProofOfDelivery, TicketIntake

ASSUME ChaseAssumption == Sources = Deliveries

vars == <<podVars, intakeVars>>

TypeOK == PodTypeOK /\ IntakeTypeOK

Init == PodInit /\ IntakeInit

\* A worker takes the job of a committed event, a customer fills in the form,
\* or either goes on.
Raise(p) ==
  /\ \/ \E d \in reported : Begin(p, d)
     \/ Begin(p, Form)
     \/ Work(p)
  /\ UNCHANGED podVars

Next ==
  \/ PodNext /\ UNCHANGED intakeVars
  \/ \E p \in Callers : Raise(p) \/ (CallDies(p) /\ UNCHANGED podVars)

Spec == Init /\ [][Next]_vars

\* A request that has begun goes on; the queue's workers keep taking jobs.
\* Customers and clerks may do nothing.
Fairness ==
  /\ \A b \in Buyers : WF_vars(Proceed(b) /\ UNCHANGED intakeVars)
  /\ \A p \in Callers : WF_vars(Work(p) /\ UNCHANGED podVars)
  /\ \A p \in Jobs : WF_vars(Raise(p))

FairSpec == Spec /\ Fairness

----------------------------------------------------------------------------
(* Properties                                                              *)

\* "A portal row written before SAP agreed would be a signature for a receipt
\* SAP never accepted" (pod-service.ts:24): the evidence is an outcome that SAP
\* took, also when a receipt was reversed there and given again.
EvidenceIsSaps ==
  \A d \in Deliveries : evidence[d] # "none" => evidence[d] \in receipts[d]

\* "Nor a ticket raised for a receipt that rolled back" (pod-service.ts:28):
\* a ticket chases a discrepancy of which the portal holds the evidence.
TicketsHaveEvidence ==
  \A t \in tickets : t.source # Form => evidence[t.source] = "discrepancy"

\* "One delivery can only ever justify one discrepancy ticket"
\* (auto-ticket.ts:44): however often the event is delivered.
OneTicketPerDelivery ==
  \A t1, t2 \in tickets : t1.source = t2.source /\ t1.source # Form => t1 = t2

\* The numbers of a tenant's tickets are 1, 2, ... with no gap and no double,
\* whatever attempts collided or died (nextTicketNo), and each ticket has its
\* event: "a ticket nobody was told about misses its SLA silently".
NumbersAreDense ==
  /\ {t.no : t \in tickets} = 1..counter
  /\ Cardinality(tickets) = counter
  /\ raised = 1..counter

\* A job that has completed left a ticket behind: the unique violation it may
\* have met was this delivery's, not the counter's.
SettledHasTicket == \A d \in settled : \E t \in tickets : t.source = d

\* "A discrepancy can never be recorded without the ticket that chases it"
\* (pod-service.ts:27), although calls die, attempts collide and the job is
\* taken by several workers.
DiscrepancyIsChased ==
  \A d \in Deliveries :
    evidence[d] = "discrepancy" ~> \E t \in tickets : t.source = d

\* A POD discrepancy "auto-creates Support ticket category=Delivery"
\* (support-auto-ticket.ts:8): a short receipt that SAP has taken ends in a
\* ticket.
\* This does not hold (README, "What the code does not promise").
SapDiscrepancyIsChased ==
  \A d \in Deliveries :
    "discrepancy" \in receipts[d] ~> \E t \in tickets : t.source = d
============================================================================
