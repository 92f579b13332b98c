--------------------------- MODULE EventDelivery ---------------------------
(***************************************************************************)
(* What the transactional outbox promises (docs/DECISIONS.md, ADR-023),    *)
(* with no table, no relay and no queue: an event is committed once, in    *)
(* the transaction of the fact that caused it; only a committed event is   *)
(* ever delivered to a queue; a delivered event is not taken back; and     *)
(* every deliverable event that was committed is delivered.                *)
(***************************************************************************)
CONSTANTS Events,       \* the events a producer may record, by dedupe key
          Deliverable   \* those whose payload the publisher accepts

VARIABLES committed,    \* events recorded with their fact
          delivered     \* events a queue has accepted

vars == <<committed, delivered>>

Init == committed = {} /\ delivered = {}

Commit(e) ==
  /\ e \notin committed
  /\ committed' = committed \union {e}
  /\ UNCHANGED delivered

Deliver(e) ==
  /\ e \in committed \ delivered
  /\ delivered' = delivered \union {e}
  /\ UNCHANGED committed

Next == \E e \in Events : Commit(e) \/ Deliver(e)

Safety == Init /\ [][Next]_vars

Spec == Safety /\ \A e \in Deliverable : WF_vars(Deliver(e))
============================================================================
