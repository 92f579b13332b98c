----------------------------- MODULE Onboarding -----------------------------
(***************************************************************************)
(* A new customer's application (packages/services/onboarding/src): the    *)
(* wizard's saves, the verification of the GSTIN with GSTN, the documents, *)
(* submission with its duplicate guard, the reviewer's decisions, and the  *)
(* approval route, which creates the customer in SAP, marks the            *)
(* application, keeps the account and issues the login, in that order.     *)
(* Every call reads the row, checks it, perhaps waits for another system,  *)
(* and writes the row by id.                                               *)
(***************************************************************************)
EXTENDS Naturals, FiniteSets

CONSTANTS
  Applications,
  BackOffice,      \* those that the tenant's own staff started
  Gstins, NoGstin, \* tax numbers; a draft may have none yet
  Callers,         \* requests of applicants and reviewers
  MaxCustomers,    \* bound: customers in SAP
  MaxEdits,        \* bound: calls that edit a draft
  MaxDeaths        \* bound: calls that die

ASSUME OnboardingAssumption ==
  /\ BackOffice \subseteq Applications
  /\ NoGstin \notin Gstins
  /\ MaxCustomers \in Nat /\ MaxEdits \in Nat /\ MaxDeaths \in Nat

VARIABLES
  row,         \* row[a]: the OnboardingApplication
  customers,   \* SAP's customer masters; a: whose application made it (history)
  accounts,    \* CustomerAccount rows, by number
  logins,      \* UserAccountLink rows: <<application of the contact, number>>
  call,        \* call[c]: what c has read and does next
  edits, deaths,
  disturbed,   \* applications with two calls on them at once (history)
  twins        \* pairs that were both past the duplicate guard at once (history)

vars == <<row, customers, accounts, logins, call, edits, deaths, disturbed, twins>>
pastVars == <<disturbed, twins>>
sapVars == <<customers, accounts, logins>>

Statuses == {"draft", "submitted", "pending_approval", "approved", "rejected"}
Numbers == 1..MaxCustomers
\* passes: the outcome does not block a submission (isGstinBlocking).
Evidence == [gstin : Gstins, passes : BOOLEAN]
NoEvidence == [gstin |-> NoGstin, passes |-> FALSE]
Row == [status : Statuses, gstin : Gstins \union {NoGstin},
        evidence : Evidence \union {NoEvidence}, documents : BOOLEAN,
        kunnr : {0} \union Numbers]
Customer == [kunnr : Numbers, gstin : Gstins, a : Applications]
Idle == [does |-> "nothing"]
Call == [does : {"save"}, a : Applications, old : Gstins \union {NoGstin}, gstin : Gstins]
          \union [does : {"verify"}, a : Applications, gstin : Gstins]
          \union [does : {"upload", "remove", "askMore", "reject"}, a : Applications]
          \union [does : {"guard", "submit", "queue"}, a : Applications, gstin : Gstins,
                  register : BOOLEAN]
          \union [does : {"approve"}, a : Applications]
          \union [does : {"create"}, a : Applications, gstin : Gstins]
          \union [does : {"record", "account", "provision"}, a : Applications,
                  kunnr : Numbers]

TypeOK ==
  /\ row \in [Applications -> Row]
  /\ customers \in SUBSET Customer
  /\ accounts \in SUBSET Numbers
  /\ logins \in SUBSET (Applications \X Numbers)
  /\ call \in [Callers -> Call \union {Idle}]
  /\ edits \in 0..MaxEdits
  /\ deaths \in 0..MaxDeaths
  /\ disturbed \in SUBSET Applications
  /\ twins \in SUBSET SUBSET Applications

\* startApplication: a blank draft.
Init ==
  /\ row = [a \in Applications |->
       [status |-> "draft", gstin |-> NoGstin, evidence |-> NoEvidence,
        documents |-> FALSE, kunnr |-> 0]]
  /\ customers = {} /\ accounts = {} /\ logins = {}
  /\ call = [c \in Callers |-> Idle]
  /\ edits = 0 /\ deaths = 0
  /\ disturbed = {} /\ twins = {}

Does(c, what) == call[c].does = what
Goes(c, next) == call' = [call EXCEPT ![c] = next]
On(a) == {c \in Callers : call[c] # Idle /\ call[c].a = a}

\* c begins a call on a.
Opens(c, first) ==
  /\ call[c] = Idle
  /\ Goes(c, first)
  /\ disturbed' = IF On(first.a) = {} THEN disturbed ELSE disturbed \union {first.a}
  /\ UNCHANGED <<row, sapVars, deaths, twins>>

Edits(c, a, first) ==
  /\ edits < MaxEdits /\ edits' = edits + 1
  /\ Opens(c, first)

Writes(c, a, to) ==
  /\ row' = [row EXCEPT ![a] = to]
  /\ UNCHANGED <<sapVars, edits, deaths, pastVars>>

----------------------------------------------------------------------------
(* ONBOARDING_TRANSITIONS                                                  *)

CanTransition(from, to) ==
  \/ from = "draft" /\ to \in {"draft", "submitted"}
  \/ from = "submitted" /\ to \in {"pending_approval", "rejected"}
  \/ from = "pending_approval" /\ to \in {"approved", "rejected", "draft"}
  \/ from = "rejected" /\ to = "draft"

----------------------------------------------------------------------------
(* The wizard                                                              *)

\* saveStep reads the draft; a step without the GSTIN carries the one read.
ReadStep(c, a, gstin) ==
  /\ row[a].status = "draft"
  /\ Edits(c, a, [does |-> "save", a |-> a, old |-> row[a].gstin, gstin |-> gstin])

\* Seeded fault: the evidence of the old number is kept.
SaveStepKeepsEvidence(c) ==
  LET a == call[c].a
  IN
  /\ Does(c, "save")
  /\ Writes(c, a, [row[a] EXCEPT !.gstin = call[c].gstin])
  /\ Goes(c, Idle)

\* Another number than the one read clears the evidence.
SaveStep(c) ==
  LET a == call[c].a
  IN
  /\ Does(c, "save")
  /\ Writes(c, a, [row[a] EXCEPT !.gstin = call[c].gstin,
       !.evidence = IF call[c].gstin = call[c].old THEN @ ELSE NoEvidence])
  /\ Goes(c, Idle)

\* verifyApplicationGstin, in any status ...
ReadGstin(c, a) ==
  /\ row[a].gstin # NoGstin
  /\ Edits(c, a, [does |-> "verify", a |-> a, gstin |-> row[a].gstin])

\* ... and what GSTN says of the number it was asked about.
StoreVerification(c, passes) ==
  LET a == call[c].a
  IN
  /\ Does(c, "verify")
  /\ Writes(c, a, [row[a] EXCEPT
       !.evidence = [gstin |-> call[c].gstin, passes |-> passes]])
  /\ Goes(c, Idle)

\* uploadDocument and removeDocument: documents says whether all are there.
ReadForDocument(c, a, what) ==
  /\ row[a].status = "draft"
  /\ what = "remove" => row[a].documents
  /\ Edits(c, a, [does |-> what, a |-> a])

StoreDocument(c) ==
  /\ Does(c, "upload") \/ Does(c, "remove")
  /\ Writes(c, call[c].a, [row[call[c].a] EXCEPT !.documents = Does(c, "upload")])
  /\ Goes(c, Idle)

----------------------------------------------------------------------------
(* submitApplication                                                       *)

Complete(a) == row[a].gstin # NoGstin /\ row[a].documents

\* The application must be complete and have evidence that does not block.
CheckSubmission(c, a, register) ==
  /\ register => a \in BackOffice
  /\ CanTransition(row[a].status, "submitted")
  /\ Complete(a)
  /\ row[a].evidence # NoEvidence /\ row[a].evidence.passes
  /\ Opens(c, [does |-> "guard", a |-> a, gstin |-> row[a].gstin, register |-> register])
  /\ UNCHANGED edits

\* Seeded fault: only approved applications count.
DuplicateApproved(a, gstin) ==
  \E other \in Applications \ {a} :
    row[other].gstin = gstin /\ row[other].status = "approved"

\* Another application with this number is under way or approved.
Duplicate(a, gstin) ==
  \E other \in Applications \ {a} :
    row[other].gstin = gstin /\ row[other].status \in {"submitted", "pending_approval", "approved"}

PastGuard(gstin) ==
  {call[c].a : c \in {d \in Callers : Does(d, "submit") /\ call[d].gstin = gstin}}

GuardDuplicate(c) ==
  LET a == call[c].a  gstin == call[c].gstin
  IN
  /\ Does(c, "guard")
  /\ IF Duplicate(a, gstin)
     THEN Goes(c, Idle) /\ UNCHANGED twins
     ELSE /\ Goes(c, [call[c] EXCEPT !.does = "submit"])
          /\ twins' = twins \union {{a, other} : other \in PastGuard(gstin) \ {a}}
  /\ UNCHANGED <<row, sapVars, edits, deaths, disturbed>>

Submit(c) ==
  /\ Does(c, "submit")
  /\ Writes(c, call[c].a, [row[call[c].a] EXCEPT !.status = "submitted"])
  /\ Goes(c, [call[c] EXCEPT !.does = "queue"])

\* The second update; registerCustomer goes on to the approval.
Queue(c) ==
  /\ Does(c, "queue")
  /\ Writes(c, call[c].a, [row[call[c].a] EXCEPT !.status = "pending_approval"])
  /\ Goes(c, IF call[c].register THEN [does |-> "approve", a |-> call[c].a] ELSE Idle)

----------------------------------------------------------------------------
(* requestMoreInfo, rejectApplication                                      *)

CheckDecision(c, a, what, status) ==
  /\ CanTransition(row[a].status, status)
  /\ Opens(c, [does |-> what, a |-> a])
  /\ UNCHANGED edits

RequestMoreInfo(c) ==
  /\ Does(c, "askMore")
  /\ Writes(c, call[c].a, [row[call[c].a] EXCEPT !.status = "draft"])
  /\ Goes(c, Idle)

RejectApplication(c) ==
  /\ Does(c, "reject")
  /\ Writes(c, call[c].a, [row[call[c].a] EXCEPT !.status = "rejected"])
  /\ Goes(c, Idle)

----------------------------------------------------------------------------
(* approveApplication and the route around it                              *)

OpenApproval(c, a) == Opens(c, [does |-> "approve", a |-> a]) /\ UNCHANGED edits

\* The row is read and its data and documents checked again; the evidence is
\* not.
CheckApproval(c) ==
  LET a == call[c].a
  IN
  /\ Does(c, "approve")
  /\ Goes(c, IF CanTransition(row[a].status, "approved") /\ Complete(a)
             THEN [does |-> "create", a |-> a, gstin |-> row[a].gstin]
             ELSE Idle)
  /\ UNCHANGED <<row, sapVars, edits, deaths, pastVars>>

NextCustomerNumber == Cardinality(customers) + 1

\* Seeded fault: SAP does not mind a second customer with the number.
KnowsNobody(gstin) == FALSE

KnowsGstin(gstin) == \E k \in customers : k.gstin = gstin

\* createCustomer of the driver refuses a GSTIN it has.
SapCreates(c) ==
  /\ Does(c, "create") /\ ~KnowsGstin(call[c].gstin)
  /\ Cardinality(customers) < MaxCustomers
  /\ customers' = customers \union
       {[kunnr |-> NextCustomerNumber, gstin |-> call[c].gstin, a |-> call[c].a]}

\* Seeded fault: the application is approved before SAP has answered.
ApproveFirst(c) ==
  LET a == call[c].a
  IN
  /\ Does(c, "create") /\ Cardinality(customers) < MaxCustomers
  /\ row' = [row EXCEPT ![a] = [@ EXCEPT !.status = "approved", !.kunnr = NextCustomerNumber]]
  /\ customers' = IF KnowsGstin(call[c].gstin) THEN customers
                  ELSE customers \union {[kunnr |-> NextCustomerNumber,
                                          gstin |-> call[c].gstin, a |-> a]}
  /\ Goes(c, Idle)
  /\ UNCHANGED <<accounts, logins, edits, deaths, pastVars>>

CreateCustomer(c) ==
  /\ SapCreates(c)
  /\ Goes(c, [does |-> "record", a |-> call[c].a, kunnr |-> NextCustomerNumber])
  /\ UNCHANGED <<row, accounts, logins, edits, deaths, pastVars>>

\* The customer is there and the answer is lost.
CreateCustomerUnheard(c) ==
  /\ SapCreates(c) /\ deaths < MaxDeaths /\ deaths' = deaths + 1
  /\ Goes(c, Idle)
  /\ UNCHANGED <<row, accounts, logins, edits, pastVars>>

SapRefuses(c) ==
  /\ Does(c, "create") /\ KnowsGstin(call[c].gstin)
  /\ Goes(c, Idle)
  /\ UNCHANGED <<row, sapVars, edits, deaths, pastVars>>

RecordApproval(c) ==
  LET a == call[c].a
  IN
  /\ Does(c, "record")
  /\ Writes(c, a, [row[a] EXCEPT !.status = "approved", !.kunnr = call[c].kunnr])
  /\ Goes(c, [call[c] EXCEPT !.does = "account"])

\* A failure of this is swallowed.
RegisterCustomerAccount(c) ==
  /\ Does(c, "account")
  /\ \/ accounts' = accounts \union {call[c].kunnr} /\ UNCHANGED deaths
     \/ deaths < MaxDeaths /\ deaths' = deaths + 1 /\ UNCHANGED accounts
  /\ Goes(c, [call[c] EXCEPT !.does = "provision"])
  /\ UNCHANGED <<row, customers, logins, edits, pastVars>>

ProvisionPortalAccess(c) ==
  /\ Does(c, "provision")
  /\ logins' = logins \union {<<call[c].a, call[c].kunnr>>}
  /\ Goes(c, Idle)
  /\ UNCHANGED <<row, customers, accounts, edits, deaths, pastVars>>

----------------------------------------------------------------------------

CallDies(c) ==
  /\ call[c] # Idle /\ deaths < MaxDeaths
  /\ deaths' = deaths + 1
  /\ Goes(c, Idle)
  /\ UNCHANGED <<row, sapVars, edits, pastVars>>

Proceed(c) ==
  \/ SaveStep(c) \/ StoreDocument(c)
  \/ \E passes \in BOOLEAN : StoreVerification(c, passes)
  \/ GuardDuplicate(c) \/ Submit(c) \/ Queue(c)
  \/ RequestMoreInfo(c) \/ RejectApplication(c)
  \/ CheckApproval(c) \/ CreateCustomer(c) \/ SapRefuses(c) \/ RecordApproval(c)
  \/ RegisterCustomerAccount(c) \/ ProvisionPortalAccess(c)

Next ==
  \/ \E c \in Callers, a \in Applications :
       \/ \E gstin \in Gstins : ReadStep(c, a, gstin)
       \/ ReadGstin(c, a)
       \/ \E what \in {"upload", "remove"} : ReadForDocument(c, a, what)
       \/ \E register \in BOOLEAN : CheckSubmission(c, a, register)
       \/ CheckDecision(c, a, "askMore", "draft")
       \/ CheckDecision(c, a, "reject", "rejected")
       \/ OpenApproval(c, a)
  \/ \E c \in Callers : Proceed(c) \/ CreateCustomerUnheard(c) \/ CallDies(c)

Spec == Init /\ [][Next]_vars

----------------------------------------------------------------------------
(* Properties                                                              *)

UnderReview(a) == row[a].status \in {"submitted", "pending_approval", "approved"}

\* "Nobody gets a login for a customer SAP hasn't accepted" (the approval
\* route): the number on a row, on an account and behind a login is that of a
\* customer SAP made, from this very application, whoever approved it twice,
\* rejected it meanwhile or died on the way.
NumbersAreSaps ==
  LET made(a, kunnr) == \E k \in customers : k.kunnr = kunnr /\ k.a = a
  IN
  /\ \A a \in Applications : row[a].kunnr # 0 => made(a, row[a].kunnr)
  /\ \A kunnr \in accounts : \E a \in Applications : made(a, kunnr)
  /\ \A login \in logins : made(login[1], login[2])

\* "Change the GSTIN and the previous verification is no longer evidence of
\* anything" (saveStepCore): an application that no two calls have edited at
\* once is only ever reviewed, or approved, with its documents and with the
\* evidence of the number it carries, through rejections and resubmissions.
QuietReviewIsSound ==
  \A a \in Applications \ disturbed :
    UnderReview(a) => Complete(a) /\ row[a].evidence.gstin = row[a].gstin

Duplicates(a1, a2) ==
  a1 # a2 /\ UnderReview(a1) /\ UnderReview(a2) /\ row[a1].gstin = row[a2].gstin

\* Of the applications that no two calls were on at once, two with one number
\* are under review together only if both were between the duplicate guard and
\* their first write at the same moment.
DuplicatesAreTwins ==
  \A a1, a2 \in Applications \ disturbed : Duplicates(a1, a2) => {a1, a2} \in twins

\* The same of all applications.
\* This does not hold (README, "What the code does not promise").
AllDuplicatesAreTwins ==
  \A a1, a2 \in Applications : Duplicates(a1, a2) => {a1, a2} \in twins

\* Whatever calls overlap, and twins or not: an approved application has a
\* customer in SAP, and no other approved application has one with the same
\* GSTIN.  The GSTIN is the customer's; that of the row may be another by now,
\* written by a save that had read it as a draft.
GstinApprovedOnce ==
  LET approved == {a \in Applications : row[a].status = "approved"}
      customersOf(a) == {k \in customers : k.kunnr = row[a].kunnr}
  IN
  /\ \A a \in approved : customersOf(a) # {}
  /\ \A a1, a2 \in approved : \A k1 \in customersOf(a1), k2 \in customersOf(a2) :
       k1.gstin = k2.gstin => a1 = a2

\* The evidence on an application under review is of the number it carries,
\* whatever calls overlap.
\* This does not hold (README, "What the code does not promise").
EvidenceIsOfTheNumber ==
  \A a \in Applications : UnderReview(a) => row[a].evidence.gstin = row[a].gstin
============================================================================
