--------------------------- MODULE CreditDecision ---------------------------
(***************************************************************************)
(* A decision of the credit desk on its way to the customer: the event     *)
(* that decideCreditRequest commits (CreditRequest) is turned into inbox   *)
(* rows and mails (NotificationFanOut).  The fact of request r is its      *)
(* credit.increase.decided.                                                *)
(***************************************************************************)
EXTENDS CreditRequest, NotificationFanOut

ASSUME DecisionAssumption == Facts = Requests

vars == <<creditVars, fanOutVars>>

TypeOK == CreditTypeOK /\ FanOutTypeOK

Init == CreditInit /\ FanOutInit

Announced == {r \in Requests : decided[r] # Undecided}

Tell(m) ==
  /\ FanOut(m) \/ \E e \in Announced : Take(m, e)
  /\ UNCHANGED creditVars

Next ==
  \/ CreditNext /\ UNCHANGED fanOutVars
  \/ \E m \in Mailers : Tell(m)
  \/ /\ \/ \E m \in Mailers : OvertakenEnds(m)
        \/ \E m \in Mailers, e \in Announced : MailerDies(m, e) \/ HandlerThrows(m, e)
        \/ \E e \in Announced : Stall(e)
        \/ \E u \in Users : MarkNotificationsRead(u) \/ Leave(u)
     /\ UNCHANGED creditVars

Spec == Init /\ [][Next]_vars

\* Only the queue's workers are bound to go on.
Fairness == \A m \in Mailers : WF_vars(Tell(m))

FairSpec == Spec /\ Fairness

----------------------------------------------------------------------------
(* Properties                                                              *)

\* Whoever may see the account's credit, and keeps that right, finds every
\* decision in the inbox, however the fan-out is interrupted: unless its job is
\* given up, after its tries or after one stall more than maxStalledCount.
DecisionIsTold ==
  \A r \in Requests, u \in Users :
    decided[r] # Undecided ~>
      \/ u \notin eligible
      \/ \A t \in 1..Templates : <<r, t, u>> \in inbox
      \/ GivenUp(r)
============================================================================
