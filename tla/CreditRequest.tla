--------------------------- MODULE CreditRequest ---------------------------
(***************************************************************************)
(* Asking for a higher credit limit (packages/services/loyalty/src): one   *)
(* account's users ask and withdraw (credit-request-service.ts), the       *)
(* credit desk decides (credit-desk-service.ts).  A decision is written    *)
(* only over a pending row; a withdrawal is written by id after a check.   *)
(* The limit itself is SAP's, and somebody may maintain it at any time.    *)
(***************************************************************************)
EXTENDS Naturals

CONSTANTS
  Requests,        \* rows, in order of their creation
  Buyers,          \* calls of the account's users
  Clerks,          \* calls of the credit desk
  MaxLimit,        \* bound: limits, in some unit
  MaxMaintained    \* bound: changes of the limit in SAP

ASSUME CreditAssumption ==
  /\ Requests \subseteq Nat
  /\ Buyers \intersect Clerks = {}
  /\ MaxLimit \in Nat \ {0} /\ MaxMaintained \in Nat

VARIABLES
  limit,        \* KNKK-KLIMK in SAP
  maintained,   \* changes of it so far
  request,      \* request[r]: the CreditLimitRequest row
  decided,      \* decided[r]: the committed credit.increase.decided
  calls         \* calls[c]: what call c has read and is about to write

creditVars == <<limit, maintained, request, decided, calls>>

Limits == 1..MaxLimit
States == {"pending", "approved", "rejected", "withdrawn"}
Absent == [state |-> "absent", requested |-> 1, current |-> 1, agreed |-> 0]
RequestRow == [state : States \union {"absent"}, requested : Limits, current : Limits,
               agreed : 0..MaxLimit]
\* agreed: the approved limit; 0 for a rejection.
Decision == [state : {"approved"}, agreed : Limits] \union [state : {"rejected"}, agreed : {0}]
Undecided == [state |-> "none", agreed |-> 0]
NoCall == [does |-> "nothing"]
Call == [does : {"check", "ask"}, requested : Limits, current : Limits]
          \union [does : {"withdraw"}, r : Requests]
          \union [does : {"decide"}, r : Requests, decision : Decision]

CreditTypeOK ==
  /\ limit \in Limits
  /\ maintained \in 0..MaxMaintained
  /\ request \in [Requests -> RequestRow]
  /\ decided \in [Requests -> Decision \union {Undecided}]
  /\ calls \in [Buyers \union Clerks -> Call \union {NoCall}]

CreditInit ==
  /\ limit = 1
  /\ maintained = 0
  /\ request = [r \in Requests |-> Absent]
  /\ decided = [r \in Requests |-> Undecided]
  /\ calls = [c \in Buyers \union Clerks |-> NoCall]

Pending(r) == request[r].state = "pending"
Opens(c, what) == calls[c] = NoCall /\ calls' = [calls EXCEPT ![c] = what]
Ends(c) == calls' = [calls EXCEPT ![c] = NoCall]

----------------------------------------------------------------------------
(* requestCreditIncrease                                                   *)

\* Nothing of the account is pending; Requests bounds the asks.
CheckOpenAsk(b, wanted) ==
  /\ \A r \in Requests : ~Pending(r)
  /\ \E r \in Requests : request[r] = Absent
  /\ Opens(b, [does |-> "check", requested |-> wanted, current |-> 1])
  /\ UNCHANGED <<limit, maintained, request, decided>>

\* getCreditPosition, and creditIncreaseIssue: more than there is, and at most
\* ten times that, which no limit here exceeds.
ReadPosition(b) ==
  /\ calls[b].does = "check"
  /\ calls' = [calls EXCEPT ![b] =
       IF calls[b].requested > limit
       THEN [does |-> "ask", requested |-> calls[b].requested, current |-> limit]
       ELSE NoCall]
  /\ UNCHANGED <<limit, maintained, request, decided>>

\* One transaction: the row and credit.increase.requested.
CreateRequest(b, r) ==
  /\ calls[b].does = "ask"
  /\ request[r] = Absent /\ \A s \in Requests : s < r => request[s] # Absent
  /\ request' = [request EXCEPT ![r] =
       [state |-> "pending", requested |-> calls[b].requested,
        current |-> calls[b].current, agreed |-> 0]]
  /\ Ends(b)
  /\ UNCHANGED <<limit, maintained, decided>>

----------------------------------------------------------------------------
(* withdrawCreditRequest                                                   *)

CheckWithdrawal(b, r) ==
  /\ Pending(r)
  /\ Opens(b, [does |-> "withdraw", r |-> r])
  /\ UNCHANGED <<limit, maintained, request, decided>>

\* Seeded fault: a withdrawal takes back what the desk agreed to.
WithdrawAgreement(b) ==
  /\ calls[b].does = "withdraw"
  /\ request' = [request EXCEPT ![calls[b].r] =
                   [@ EXCEPT !.state = "withdrawn", !.agreed = 0]]
  /\ Ends(b)
  /\ UNCHANGED <<limit, maintained, decided>>

\* By id, whatever the row has become.
Withdraw(b) ==
  /\ calls[b].does = "withdraw"
  /\ request' = [request EXCEPT ![calls[b].r] = [@ EXCEPT !.state = "withdrawn"]]
  /\ Ends(b)
  /\ UNCHANGED <<limit, maintained, decided>>

----------------------------------------------------------------------------
(* decideCreditRequest                                                     *)

\* The desk may agree to another figure than was asked.
CheckDecision(c, r, decision) ==
  /\ Pending(r)
  /\ Opens(c, [does |-> "decide", r |-> r, decision |-> decision])
  /\ UNCHANGED <<limit, maintained, request, decided>>

Holds(c) == calls[c].does = "decide"

\* Seeded fault: the decision is written by id; its event is deduped.
DecideById(c) ==
  LET r == calls[c].r  decision == calls[c].decision
  IN
  /\ Holds(c)
  /\ request' = [request EXCEPT ![r] =
       [@ EXCEPT !.state = decision.state, !.agreed = decision.agreed]]
  /\ decided' = [decided EXCEPT ![r] = IF @ = Undecided THEN decision ELSE @]
  /\ Ends(c)
  /\ UNCHANGED <<limit, maintained>>

\* One transaction: the row, if it is pending still, and its event.
Decide(c) ==
  LET r == calls[c].r  decision == calls[c].decision
  IN
  /\ Holds(c) /\ Pending(r)
  /\ request' = [request EXCEPT ![r] =
       [@ EXCEPT !.state = decision.state, !.agreed = decision.agreed]]
  /\ decided' = [decided EXCEPT ![r] = decision]
  /\ Ends(c)
  /\ UNCHANGED <<limit, maintained>>

DecideTooLate(c) ==
  /\ Holds(c) /\ ~Pending(calls[c].r)
  /\ Ends(c)
  /\ UNCHANGED <<limit, maintained, request, decided>>

----------------------------------------------------------------------------

\* FD32: somebody maintains the limit in SAP.
MaintainLimit(l) ==
  /\ l # limit /\ maintained < MaxMaintained
  /\ limit' = l
  /\ maintained' = maintained + 1
  /\ UNCHANGED <<request, decided, calls>>

CallDies(c) ==
  /\ calls[c] # NoCall
  /\ Ends(c)
  /\ UNCHANGED <<limit, maintained, request, decided>>

CreditNext ==
  \/ \E b \in Buyers :
       \/ \E l \in Limits : CheckOpenAsk(b, l)
       \/ ReadPosition(b)
       \/ \E r \in Requests : CreateRequest(b, r) \/ CheckWithdrawal(b, r)
       \/ Withdraw(b)
  \/ \E c \in Clerks :
       \/ \E r \in Requests, d \in Decision : CheckDecision(c, r, d)
       \/ Decide(c) \/ DecideTooLate(c)
  \/ \E l \in Limits : MaintainLimit(l)
  \/ \E c \in Buyers \union Clerks : CallDies(c)

----------------------------------------------------------------------------
(* Properties                                                              *)

\* "Two desk users deciding the same request at once produce one decision
\* rather than a last-write-wins overwrite" (decideCreditRequest): the limit on
\* the row is the one of the event the customer is told from.
AgreedIsAnnounced ==
  \A r \in Requests :
    /\ request[r].agreed = decided[r].agreed
    /\ request[r].state \in {"approved", "rejected"} => request[r].state = decided[r].state

\* "The desk must see the delta as it stood when the customer asked"
\* (requestCreditIncrease): what is asked is more than the limit kept with it,
\* although the limit in SAP moves between the check and the row.
AskIsAnIncrease ==
  \A r \in Requests :
    request[r] # Absent => request[r].requested > request[r].current

\* A customer may withdraw a request that is pending and nothing else
\* (loyalty.ts:497): what the desk decided stays decided.
\* This does not hold (README, "What the code does not promise").
DecisionIsFinal ==
  \A r \in Requests : decided[r] # Undecided => request[r].state = decided[r].state
============================================================================
