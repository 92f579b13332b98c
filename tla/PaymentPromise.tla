--------------------------- MODULE PaymentPromise ---------------------------
(***************************************************************************)
(* What payments promise (packages/services/payment/src/                   *)
(* payment-service.ts, the three rules at its head; docs/DECISIONS.md,     *)
(* ADR-019 and ADR-021), with no browser, webhook, poll, row state or      *)
(* retry: money is taken first; for money that was taken SAP makes one     *)
(* document; only then, and with that document, is the customer told; and  *)
(* none of it is taken back.                                               *)
(***************************************************************************)
EXTENDS Naturals

CONSTANT Payments

VARIABLES charged,   \* payments whose money the gateway took
          document,  \* document[p]: SAP's document for p, 0 if none
          receipt,   \* receipt[p]: the document the portal names for p, 0 if none
          told       \* payments whose customer was told they are final

vars == <<charged, document, receipt, told>>

Init ==
  /\ charged = {}
  /\ document = [p \in Payments |-> 0]
  /\ receipt = [p \in Payments |-> 0]
  /\ told = {}

Charge(p) ==
  /\ p \notin charged
  /\ charged' = charged \union {p}
  /\ UNCHANGED <<document, receipt, told>>

\* A number no other payment has.
Post(p) ==
  LET d == document'[p] IN
  /\ p \in charged /\ document[p] = 0
  /\ d \notin {0} \union {document[q] : q \in Payments}
  /\ document' = [document EXCEPT ![p] = d]
  /\ UNCHANGED <<charged, receipt, told>>

Confirm(p) ==
  /\ document[p] # 0 /\ p \notin told
  /\ receipt' = [receipt EXCEPT ![p] = document[p]]
  /\ told' = told \union {p}
  /\ UNCHANGED <<charged, document>>

Next == \E p \in Payments : Charge(p) \/ Post(p) \/ Confirm(p)

Spec == Init /\ [][Next]_vars
============================================================================
