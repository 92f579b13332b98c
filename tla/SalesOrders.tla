---------------------------- MODULE SalesOrders ----------------------------
(***************************************************************************)
(* The sales orders and the credit exposure of one account, as the SAP     *)
(* adapter keeps them (packages/adapters/sap/src/mock/driver.ts).  A call  *)
(* of the driver runs to its end once it has been let in, so each is one   *)
(* action; what a caller knows of the book may be old by then.             *)
(***************************************************************************)
EXTENDS Integers, FiniteSetsExt

CONSTANTS
  Pos, NoPo,      \* customer PO references, and an order without one
  Values,         \* net values, in some unit
  CreditLimit,    \* the limit, with its tolerance
  MaxOrders,      \* bound: orders
  MaxBlocks       \* bound: times the account is blocked for credit

ASSUME BookAssumption ==
  /\ NoPo \notin Pos
  /\ Values \subseteq Nat \ {0}
  /\ CreditLimit \in Nat /\ MaxOrders \in Nat /\ MaxBlocks \in Nat

VARIABLES
  placed,       \* orders so far: they are numbered 1..placed
  orders,       \* orders[o]
  byPo,         \* orderIdempotency: the order of a PO reference, 0 for none
  utilized,     \* KNKK-SKFOR
  blocked,      \* KNKK-CRBLB
  blocks,
  despatched    \* orders whose goods have gone out (history)

bookVars == <<placed, orders, byPo, utilized, blocked, blocks, despatched>>

NoOrder == [status |-> "none"]
Order == [po : Pos \union {NoPo}, value : Values, status : {"Open", "InProcess", "Closed"},
          credit : {"CreditHold", "Confirmed"}]

BookTypeOK ==
  /\ placed \in 0..MaxOrders
  /\ orders \in [1..MaxOrders -> Order \union {NoOrder}]
  /\ byPo \in [Pos -> 0..MaxOrders]
  /\ utilized \in Int
  /\ blocked \in BOOLEAN
  /\ blocks \in 0..MaxBlocks
  /\ despatched \in SUBSET (1..MaxOrders)

BookInit ==
  /\ placed = 0
  /\ orders = [o \in 1..MaxOrders |-> NoOrder]
  /\ byPo = [p \in Pos |-> 0]
  /\ utilized = 0
  /\ blocked = FALSE
  /\ blocks = 0
  /\ despatched = {}

Placed == 1..placed
Live(o) == o \in Placed /\ orders[o].status # "Closed"
Held(o) == orders[o].credit = "CreditHold"
Fails(value) == blocked \/ utilized + value > CreditLimit

----------------------------------------------------------------------------
(* createSalesOrder                                                        *)

IsNew(po) == po = NoPo \/ byPo[po] = 0

\* The order the call answers with.
OrderOf(po) == IF IsNew(po) THEN placed + 1 ELSE byPo[po]

\* The same PO reference answers with the order it has; a new order consumes
\* the limit unless the credit check holds it.
CreateSalesOrder(po, value) ==
  IF ~IsNew(po) THEN UNCHANGED bookVars
  ELSE
  /\ placed < MaxOrders
  /\ placed' = placed + 1
  /\ orders' = [orders EXCEPT ![placed + 1] =
       [po |-> po, value |-> value, status |-> "Open",
        credit |-> IF Fails(value) THEN "CreditHold" ELSE "Confirmed"]]
  /\ byPo' = [p \in Pos |-> IF p = po THEN placed + 1 ELSE byPo[p]]
  /\ utilized' = IF Fails(value) THEN utilized ELSE utilized + value
  /\ UNCHANGED <<blocked, blocks, despatched>>

----------------------------------------------------------------------------
(* cancelSalesOrder                                                        *)

Closed(o) == orders' = [orders EXCEPT ![o] = [@ EXCEPT !.status = "Closed"]]
ForgetPo(o) == byPo' = [p \in Pos |-> IF p = orders[o].po THEN 0 ELSE byPo[p]]

\* Seeded fault: the status is left to the caller.
CancelUnchecked(o) ==
  /\ o \in Placed
  /\ utilized' = IF Held(o) THEN utilized ELSE utilized - orders[o].value
  /\ Closed(o) /\ ForgetPo(o)
  /\ UNCHANGED <<placed, blocked, blocks, despatched>>

\* Seeded fault: a held order gives back what it never consumed.
CancelGivesBackHeld(o) ==
  /\ Live(o) /\ orders[o].status = "Open"
  /\ utilized' = IF utilized < orders[o].value THEN 0 ELSE utilized - orders[o].value
  /\ Closed(o) /\ ForgetPo(o)
  /\ UNCHANGED <<placed, blocked, blocks, despatched>>

\* Only an open order; its exposure is given back and its PO reference freed.
CancelSalesOrder(o) ==
  /\ Live(o) /\ orders[o].status = "Open"
  /\ utilized' = IF Held(o) THEN utilized ELSE utilized - orders[o].value
  /\ Closed(o) /\ ForgetPo(o)
  /\ UNCHANGED <<placed, blocked, blocks, despatched>>

CancelRefused(o) == o \in Placed /\ orders[o].status # "Open" /\ UNCHANGED bookVars

----------------------------------------------------------------------------
(* releaseCreditBlock                                                      *)

Confirm(o) == orders' = [orders EXCEPT ![o] = [@ EXCEPT !.credit = "Confirmed"]]

\* The credit check is run again.  What is in the queue is the credit status
\* alone: an order that was cancelled while it was held is still there.
ReleaseCreditBlock(o) ==
  /\ o \in Placed /\ Held(o) /\ ~Fails(orders[o].value)
  /\ Confirm(o)
  /\ utilized' = utilized + orders[o].value
  /\ UNCHANGED <<placed, byPo, blocked, blocks, despatched>>

----------------------------------------------------------------------------
(* What happens in SAP alone                                               *)

\* A delivery is created for a confirmed order, and the goods go out.
Deliver(o) ==
  /\ Live(o) /\ orders[o].status = "Open" /\ ~Held(o)
  /\ orders' = [orders EXCEPT ![o] = [@ EXCEPT !.status = "InProcess"]]
  /\ despatched' = despatched \union {o}
  /\ UNCHANGED <<placed, byPo, utilized, blocked, blocks>>

\* FD32 blocks the account, or lifts the block.
SetBlock(to) ==
  /\ blocked # to /\ (to => blocks < MaxBlocks)
  /\ blocked' = to
  /\ blocks' = IF to THEN blocks + 1 ELSE blocks
  /\ UNCHANGED <<placed, orders, byPo, utilized, despatched>>

BookNext ==
  \/ \E o \in Placed : ReleaseCreditBlock(o) \/ Deliver(o)
  \/ \E to \in BOOLEAN : SetBlock(to)

----------------------------------------------------------------------------
(* Properties                                                              *)

ExposureOf(S) == MapThenSumSet(LAMBDA o : orders[o].value, S)
LiveConfirmed == {o \in Placed : Live(o) /\ ~Held(o)}

\* "The same customer PO reference must never create two sales orders"
\* (createSalesOrder): of the orders with one PO reference at most one is
\* alive or has been delivered, whoever resubmits, cancels and reorders.
NoPoTwice ==
  LET counts(o) == Live(o) \/ o \in despatched
  IN \A o1, o2 \in Placed :
       o1 # o2 /\ counts(o1) /\ counts(o2) => orders[o1].po # orders[o2].po \/ orders[o1].po = NoPo

\* SAP never reports more exposure than the limit allows (creditCheckFails),
\* whatever was cancelled, released and blocked in between.
LimitIsKept == utilized <= CreditLimit

\* "Otherwise releasing two orders in a row would each be checked against the
\* same headroom" (releaseCreditBlock): the orders that may be delivered never
\* add up to more than the exposure SAP reports, nor that to more than the
\* limit; so no sequence of cancellations gives back more than was consumed.
ExposureIsCovered == ExposureOf(LiveConfirmed) <= utilized /\ LimitIsKept

\* A cancelled order has "nothing confirmed, and any credit exposure it
\* consumed is given back" (driver.ts:922).
\* This does not hold (README, "What the code does not promise").
ClosedConsumesNothing == utilized = ExposureOf(LiveConfirmed)
============================================================================
