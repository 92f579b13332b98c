-------------------------- MODULE ProofOfDelivery --------------------------
(***************************************************************************)
(* Confirming a delivery (packages/services/delivery/src/pod-service.ts):  *)
(* SAP takes the receipt first, because it can refuse; then one            *)
(* transaction keeps the evidence and, when the quantities differ, writes  *)
(* the event from which a ticket is raised.  SAP is the mock driver's      *)
(* confirmPod, and a clerk who may reverse a receipt in VL03N.             *)
(***************************************************************************)
EXTENDS Naturals

CONSTANTS
  Deliveries,
  Buyers,         \* requests of the account's users
  MaxReversals,   \* bound: receipts reversed in SAP
  MaxPodFaults    \* bound: requests that die, answers of SAP that are lost

ASSUME PodAssumption == MaxReversals \in Nat /\ MaxPodFaults \in Nat

VARIABLES
  signed,      \* signed[d]: SAP's podConfirmed
  receipts,    \* receipts[d]: the outcomes SAP has accepted (history)
  evidence,    \* evidence[d]: the outcome of the PodConfirmation row
  reported,    \* deliveries whose delivery.discrepancy.reported is committed
  request,     \* request[b]: where confirmReceipt of b is
  reversals, podFaults

podVars == <<signed, receipts, evidence, reported, request, reversals, podFaults>>

Outcomes == {"confirmed", "discrepancy"}
NoRequest == [at |-> "idle"]
Request == [at : {"sap", "record"}, d : Deliveries, outcome : Outcomes]

PodTypeOK ==
  /\ signed \in [Deliveries -> BOOLEAN]
  /\ receipts \in [Deliveries -> SUBSET Outcomes]
  /\ evidence \in [Deliveries -> Outcomes \union {"none"}]
  /\ reported \in SUBSET Deliveries
  /\ request \in [Buyers -> Request \union {NoRequest}]
  /\ reversals \in 0..MaxReversals
  /\ podFaults \in 0..MaxPodFaults

PodInit ==
  /\ signed = [d \in Deliveries |-> FALSE]
  /\ receipts = [d \in Deliveries |-> {}]
  /\ evidence = [d \in Deliveries |-> "none"]
  /\ reported = {}
  /\ request = [b \in Buyers |-> NoRequest]
  /\ reversals = 0
  /\ podFaults = 0

Reached(b, step) == request[b].at = step
Return(b) == request' = [request EXCEPT ![b] = NoRequest]
PodFault == podFaults < MaxPodFaults /\ podFaults' = podFaults + 1

\* Reads the delivery and compares its quantities with those received; a
\* delivery that is signed for is not refused here.
ConfirmReceipt(b, d, outcome) ==
  /\ request[b] = NoRequest
  /\ request' = [request EXCEPT ![b] = [at |-> "sap", d |-> d, outcome |-> outcome]]
  /\ UNCHANGED <<signed, receipts, evidence, reported, reversals, podFaults>>

\* confirmPod of the driver: refused once the delivery is signed for.
SapConfirms(d, outcome) ==
  /\ ~signed[d]
  /\ signed' = [signed EXCEPT ![d] = TRUE]
  /\ receipts' = [receipts EXCEPT ![d] = @ \union {outcome}]
  /\ UNCHANGED <<evidence, reported, reversals>>

ConfirmPod(b) ==
  /\ Reached(b, "sap")
  /\ SapConfirms(request[b].d, request[b].outcome)
  /\ request' = [request EXCEPT ![b] = [@ EXCEPT !.at = "record"]]
  /\ UNCHANGED podFaults

\* The answer is lost, or the process dies waiting for it.
ConfirmPodUnheard(b) ==
  /\ Reached(b, "sap") /\ PodFault
  /\ SapConfirms(request[b].d, request[b].outcome)
  /\ Return(b)

SapRefusesPod(b) ==
  /\ Reached(b, "sap") /\ signed[request[b].d]
  /\ Return(b)
  /\ UNCHANGED <<signed, receipts, evidence, reported, reversals, podFaults>>

\* Seeded fault: the evidence is written before SAP has agreed.
RecordPodFirst(b) ==
  LET d == request[b].d  outcome == request[b].outcome
  IN
  /\ request[b] # NoRequest /\ evidence[d] = "none"
  /\ evidence' = [evidence EXCEPT ![d] = outcome]
  /\ reported' = IF outcome = "discrepancy" THEN reported \union {d} ELSE reported
  /\ request' = IF Reached(b, "record") THEN [request EXCEPT ![b] = NoRequest] ELSE request
  /\ UNCHANGED <<signed, receipts, reversals, podFaults>>

\* One transaction: the row, unique per delivery, and its event.
RecordPod(b) ==
  LET d == request[b].d  outcome == request[b].outcome
  IN
  /\ Reached(b, "record") /\ evidence[d] = "none"
  /\ evidence' = [evidence EXCEPT ![d] = outcome]
  /\ reported' = IF outcome = "discrepancy" THEN reported \union {d} ELSE reported
  /\ Return(b)
  /\ UNCHANGED <<signed, receipts, reversals, podFaults>>

\* The unique constraint fires: the same answer as when SAP refuses.
AlreadyRecorded(b) ==
  /\ Reached(b, "record") /\ evidence[request[b].d] # "none"
  /\ Return(b)
  /\ UNCHANGED <<signed, receipts, evidence, reported, reversals, podFaults>>

RequestDies(b) ==
  /\ request[b] # NoRequest /\ PodFault
  /\ Return(b)
  /\ UNCHANGED <<signed, receipts, evidence, reported, reversals>>

\* A clerk reverses the receipt in SAP (VL03N): the portal is not told.
Reverse(d) ==
  /\ signed[d] /\ reversals < MaxReversals
  /\ signed' = [signed EXCEPT ![d] = FALSE]
  /\ reversals' = reversals + 1
  /\ UNCHANGED <<receipts, evidence, reported, request, podFaults>>

\* The request goes on by itself once it has begun.
Proceed(b) ==
  ConfirmPod(b) \/ SapRefusesPod(b) \/ RecordPod(b) \/ AlreadyRecorded(b)

PodNext ==
  \/ \E b \in Buyers, d \in Deliveries, outcome \in Outcomes :
       ConfirmReceipt(b, d, outcome)
  \/ \E b \in Buyers : Proceed(b) \/ ConfirmPodUnheard(b) \/ RequestDies(b)
  \/ \E d \in Deliveries : Reverse(d)
============================================================================
