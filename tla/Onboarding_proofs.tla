-------------------------- MODULE Onboarding_proofs --------------------------
(***************************************************************************)
(* Theorems about Onboarding, for any applications, tax numbers, callers   *)
(* and bounds.                                                             *)
(***************************************************************************)
EXTENDS Onboarding, FiniteSetTheorems, TLAPS

\* Of these customers, one has this number and was made for this application.
MadeIn(ks, a, kunnr) == \E k \in ks : k.kunnr = kunnr /\ k.a = a

\* A call that is to write a number down has it from SAP.
CallsHaveSapsNumber ==
  \A c \in Callers :
    call[c].does \in {"record", "account", "provision"} =>
      MadeIn(customers, call[c].a, call[c].kunnr)

\* No two customers share a GSTIN or a number; the numbers are given in order.
CustomersDiffer ==
  /\ \A k1, k2 \in customers : k1.gstin = k2.gstin \/ k1.kunnr = k2.kunnr => k1 = k2
  /\ \A k \in customers : k.kunnr <= Cardinality(customers)

SapInv == IsFiniteSet(customers) /\ CustomersDiffer /\ CallsHaveSapsNumber
            /\ NumbersAreSaps

\* What a row says of itself, when no two calls have been on it at once.
Reviewed == {"submitted", "pending_approval", "approved"}
RowFits(a, r, ks) ==
  /\ r.evidence # NoEvidence => r.evidence.gstin = r.gstin
  /\ r.status \in Reviewed =>
       r.gstin # NoGstin /\ r.documents = TRUE /\ r.evidence.gstin = r.gstin
  /\ r.status = "approved" => \E k \in ks : k.a = a /\ k.gstin = r.gstin

\* What the call has read is still so when it is about to write.
CallFits(what, r, ks) ==
  /\ what.does = "save" => r.status = "draft" /\ r.gstin = what.old
  /\ what.does = "verify" => r.gstin = what.gstin
  /\ what.does \in {"upload", "remove"} => r.status = "draft"
  /\ what.does \in {"guard", "submit"} =>
       /\ r.status = "draft" /\ r.gstin = what.gstin
       /\ r.documents = TRUE /\ r.evidence.gstin = r.gstin
  /\ what.does = "queue" => r.status = "submitted"
  /\ what.does = "create" => r.status = "pending_approval" /\ r.gstin = what.gstin
  /\ what.does = "record" =>
       /\ r.status = "pending_approval"
       /\ \E k \in ks : k.a = what.a /\ k.gstin = r.gstin

Busy(c, a) == call[c] # Idle /\ call[c].a = a

Quiet(a) ==
  /\ \A c1, c2 \in Callers : Busy(c1, a) /\ Busy(c2, a) => c1 = c2
  /\ RowFits(a, row[a], customers)
  /\ \A c \in Callers : Busy(c, a) => CallFits(call[c], row[a], customers)

QuietInv == \A a \in Applications \ disturbed : Quiet(a)

\* Past the duplicate guard: under review, or about to be.
AtSubmit(what) == what.does = "submit"
Passed(a) ==
  row[a].status \in Reviewed \/ \E c \in Callers : AtSubmit(call[c]) /\ call[c].a = a

TwinInv ==
  \A a1, a2 \in Applications \ disturbed :
    a1 # a2 /\ Passed(a1) /\ Passed(a2) /\ row[a1].gstin = row[a2].gstin => {a1, a2} \in twins

Inv == TypeOK /\ SapInv /\ QuietInv /\ TwinInv

----------------------------------------------------------------------------
(* Rows and calls                                                          *)

LEMMA RowFields ==
  ASSUME NEW r \in Row
  PROVE  /\ r.status \in Statuses /\ r.gstin \in Gstins \union {NoGstin}
         /\ r.evidence \in Evidence \union {NoEvidence} /\ r.kunnr \in {0} \union Numbers
BY DEF Row

LEMMA StatusWritten ==
  ASSUME NEW r \in Row, NEW s \in Statuses
  PROVE  LET y == [r EXCEPT !.status = s]
         IN /\ y \in Row /\ y.status = s /\ y.gstin = r.gstin
            /\ y.evidence = r.evidence /\ y.documents = r.documents /\ y.kunnr = r.kunnr
<1>1. [r EXCEPT !.status = s] \in Row
  BY ONLY r \in Row, s \in Statuses, Zenon DEF Row
<1>2. DOMAIN r = {"status", "gstin", "evidence", "documents", "kunnr"}
  BY DEF Row
<1> QED
  BY ONLY <1>1, <1>2

LEMMA EvidenceWritten ==
  ASSUME NEW r \in Row, NEW e \in Evidence
  PROVE  LET y == [r EXCEPT !.evidence = e]
         IN /\ y \in Row /\ y.status = r.status /\ y.gstin = r.gstin
            /\ y.evidence = e /\ y.documents = r.documents /\ y.kunnr = r.kunnr
<1>1. e \in Evidence \union {NoEvidence}
  OBVIOUS
<1>2. [r EXCEPT !.evidence = e] \in Row
  BY ONLY r \in Row, <1>1, Zenon DEF Row
<1>3. DOMAIN r = {"status", "gstin", "evidence", "documents", "kunnr"}
  BY DEF Row
<1> QED
  BY ONLY <1>2, <1>3

LEMMA DocumentsWritten ==
  ASSUME NEW r \in Row, NEW d \in BOOLEAN
  PROVE  LET y == [r EXCEPT !.documents = d]
         IN /\ y \in Row /\ y.status = r.status /\ y.gstin = r.gstin
            /\ y.evidence = r.evidence /\ y.kunnr = r.kunnr
<1>1. [r EXCEPT !.documents = d] \in Row
  BY ONLY r \in Row, d \in BOOLEAN, Zenon DEF Row
<1>2. DOMAIN r = {"status", "gstin", "evidence", "documents", "kunnr"}
  BY DEF Row
<1> QED
  BY ONLY <1>1, <1>2

LEMMA CallFields ==
  ASSUME NEW x \in Call \union {Idle}
  PROVE  /\ x # Idle <=> x \in Call
         /\ x \in Call => x.a \in Applications /\ x.does # "nothing"
         /\ x.does = "nothing" <=> x = Idle
         /\ x.does = "save" => x.gstin \in Gstins /\ x.old \in Gstins \union {NoGstin}
         /\ x.does \in {"verify", "guard", "submit", "queue", "create"} => x.gstin \in Gstins
         /\ x.does \in {"record", "account", "provision"} => x.kunnr \in Numbers
BY DEF Call, Idle

----------------------------------------------------------------------------
(* A step that one call takes on one application                           *)

Step(c, a, next, new) ==
  /\ call' = [call EXCEPT ![c] = next]
  /\ row' = [row EXCEPT ![a] = new]

\* The call is on this application before and after.
IsOn(c, a, next) ==
  /\ call[c] # Idle => call[c].a = a
  /\ next # Idle => next.a = a

Alone(c, a) == \A d \in Callers : d # c => ~Busy(d, a)

LEMMA StepEffect ==
  ASSUME TypeOK, NEW c \in Callers, NEW a \in Applications,
         NEW next \in Call \union {Idle}, NEW new \in Row, Step(c, a, next, new)
  PROVE  /\ call' \in [Callers -> Call \union {Idle}]
         /\ call'[c] = next /\ \A d \in Callers : d # c => call'[d] = call[d]
         /\ row' \in [Applications -> Row]
         /\ row'[a] = new /\ \A x \in Applications : x # a => row'[x] = row[x]
BY DEF Step, TypeOK

\* More customers make nothing unfit.
LEMMA FitsGrow ==
  ASSUME NEW ks, NEW more, ks \subseteq more, NEW a, NEW what, NEW r
  PROVE  /\ RowFits(a, r, ks) => RowFits(a, r, more)
         /\ CallFits(what, r, ks) => CallFits(what, r, more)
BY DEF RowFits, CallFits

\* An application that nothing has disturbed stays consistent when the step's
\* own writing is.
LEMMA QuietStep ==
  ASSUME TypeOK, QuietInv, NEW c \in Callers, NEW a \in Applications,
         NEW next \in Call \union {Idle}, NEW new \in Row, Step(c, a, next, new),
         IsOn(c, a, next), customers \subseteq customers', disturbed \subseteq disturbed',
         a \notin disturbed' =>
           /\ Alone(c, a) /\ RowFits(a, new, customers')
           /\ next # Idle => CallFits(next, new, customers')
  PROVE  QuietInv'
<1>e. /\ call'[c] = next /\ \A d \in Callers : d # c => call'[d] = call[d]
      /\ row'[a] = new /\ \A x \in Applications : x # a => row'[x] = row[x]
  BY StepEffect
<1> SUFFICES ASSUME NEW x \in Applications \ disturbed' PROVE Quiet(x)'
  BY DEF QuietInv
<1>1. CASE x = a
  <2>1. Alone(c, a) /\ RowFits(a, new, customers') /\ (next # Idle => CallFits(next, new, customers'))
    BY <1>1
  <2>2. \A d \in Callers : Busy(d, a)' => d = c
    BY <1>e, <2>1 DEF Busy, Alone
  <2>3. Busy(c, a)' => CallFits(call'[c], row'[a], customers')
    BY <1>e, <2>1 DEF Busy
  <2> QED
    BY <1>1, <1>e, <2>1, <2>2, <2>3 DEF Quiet
<1>2. CASE x # a
  <2>1. Quiet(x)
    BY DEF QuietInv
  <2>2. ~Busy(c, x) /\ ~Busy(c, x)'
    BY <1>2, <1>e DEF Busy, IsOn
  <2>3. \A d \in Callers : /\ Busy(d, x)' <=> Busy(d, x)
                           /\ Busy(d, x) => call'[d] = call[d]
    BY <1>e, <2>2 DEF Busy
  <2>4. row'[x] = row[x] /\ RowFits(x, row[x], customers')
    BY <1>2, <1>e, <2>1, FitsGrow DEF Quiet
  <2>5. \A d \in Callers : Busy(d, x) => CallFits(call[d], row[x], customers')
    BY <2>1, FitsGrow DEF Quiet
  <2> QED
    BY <2>1, <2>3, <2>4, <2>5 DEF Quiet
<1> QED
  BY <1>1, <1>2

\* No two applications become twins unnoticed when the step brings none past
\* the guard.
LEMMA TwinStep ==
  ASSUME TypeOK, TwinInv, NEW c \in Callers, NEW a \in Applications,
         NEW next \in Call \union {Idle}, NEW new \in Row, Step(c, a, next, new),
         IsOn(c, a, next), disturbed \subseteq disturbed', twins \subseteq twins',
         a \notin disturbed' =>
           /\ Alone(c, a)
           /\ new.status \in Reviewed \/ AtSubmit(next) =>
                Passed(a) /\ new.gstin = row[a].gstin
  PROVE  TwinInv'
<1>e. /\ call'[c] = next /\ \A d \in Callers : d # c => call'[d] = call[d]
      /\ row'[a] = new /\ \A x \in Applications : x # a => row'[x] = row[x]
  BY StepEffect
<1>i. ~AtSubmit(Idle)
  BY DEF AtSubmit, Idle
<1>1. ASSUME NEW x \in Applications \ disturbed', Passed(x)'
      PROVE  Passed(x) /\ row'[x].gstin = row[x].gstin
  <2>1. CASE x = a
    <3>1. \A d \in Callers : d # c => ~(AtSubmit(call'[d]) /\ call'[d].a = a)
      BY <2>1, <1>e, <1>i DEF Alone, Busy
    <3>2. new.status \in Reviewed \/ AtSubmit(next)
      BY <2>1, <1>1, <1>e, <3>1 DEF Passed, AtSubmit
    <3> QED
      BY <2>1, <3>2, <1>e
  <2>2. CASE x # a
    <3>1. \A d \in Callers : AtSubmit(call'[d]) /\ call'[d].a = x => call'[d] = call[d]
      BY <2>2, <1>e, <1>i DEF IsOn
    <3> QED
      BY <2>2, <1>1, <1>e, <3>1 DEF Passed, AtSubmit
  <2> QED
    BY <2>1, <2>2
<1> SUFFICES ASSUME NEW a1 \in Applications \ disturbed', NEW a2 \in Applications \ disturbed',
                    a1 # a2, Passed(a1)', Passed(a2)', row'[a1].gstin = row'[a2].gstin
             PROVE  {a1, a2} \in twins'
  BY DEF TwinInv
<1>2. Passed(a1) /\ Passed(a2) /\ row[a1].gstin = row[a2].gstin
  BY <1>1
<1> QED
  BY <1>2 DEF TwinInv

\* Every number that is written down is SAP's.
LEMMA SapStep ==
  ASSUME TypeOK, SapInv, NEW c \in Callers, NEW a \in Applications,
         NEW next \in Call \union {Idle}, NEW new \in Row, Step(c, a, next, new),
         customers \subseteq customers', IsFiniteSet(customers'), CustomersDiffer',
         next.does \in {"record", "account", "provision"} =>
           MadeIn(customers', next.a, next.kunnr),
         new.kunnr = row[a].kunnr \/ MadeIn(customers', a, new.kunnr),
         \A n \in accounts' : n \in accounts \/ \E x \in Applications : MadeIn(customers', x, n),
         \A l \in logins' : l \in logins \/ MadeIn(customers', l[1], l[2])
  PROVE  SapInv'
<1>e. /\ call'[c] = next /\ \A d \in Callers : d # c => call'[d] = call[d]
      /\ row'[a] = new /\ \A x \in Applications : x # a => row'[x] = row[x]
  BY StepEffect
<1>g. \A x, n : MadeIn(customers, x, n) => MadeIn(customers', x, n)
  BY DEF MadeIn
<1>1. CallsHaveSapsNumber'
  BY <1>e, <1>g DEF CallsHaveSapsNumber, SapInv
<1>2. /\ \A x \in Applications : row[x].kunnr # 0 => MadeIn(customers, x, row[x].kunnr)
      /\ \A n \in accounts : \E x \in Applications : MadeIn(customers, x, n)
      /\ \A l \in logins : MadeIn(customers, l[1], l[2])
  BY DEF SapInv, NumbersAreSaps, MadeIn
<1>3. /\ \A x \in Applications : row'[x].kunnr # 0 => MadeIn(customers', x, row'[x].kunnr)
      /\ \A n \in accounts' : \E x \in Applications : MadeIn(customers', x, n)
      /\ \A l \in logins' : MadeIn(customers', l[1], l[2])
  BY <1>2, <1>e, <1>g
<1>4. NumbersAreSaps'
  BY <1>3 DEF NumbersAreSaps, MadeIn
<1> QED
  BY <1>1, <1>4 DEF SapInv

\* A step that leaves SAP and its numbers alone.
LEMMA PlainStep ==
  ASSUME Inv, NEW c \in Callers, NEW a \in Applications,
         NEW next \in Call \union {Idle}, NEW new \in Row, Step(c, a, next, new),
         IsOn(c, a, next), UNCHANGED sapVars, UNCHANGED twins,
         edits' \in 0..MaxEdits, deaths' \in 0..MaxDeaths,
         disturbed' \in SUBSET Applications, disturbed \subseteq disturbed',
         new.kunnr = row[a].kunnr,
         next.does \in {"record", "account", "provision"} =>
           MadeIn(customers, next.a, next.kunnr),
         a \notin disturbed' =>
           /\ Alone(c, a) /\ RowFits(a, new, customers)
           /\ next # Idle => CallFits(next, new, customers)
           /\ new.status \in Reviewed \/ AtSubmit(next) =>
                Passed(a) /\ new.gstin = row[a].gstin
  PROVE  Inv'
<1>i. TypeOK /\ SapInv /\ QuietInv /\ TwinInv
  BY DEF Inv
<1>s. customers' = customers /\ accounts' = accounts /\ logins' = logins
  BY DEF sapVars
<1>e. call' \in [Callers -> Call \union {Idle}] /\ row' \in [Applications -> Row]
  BY <1>i, StepEffect
<1>1. TypeOK'
  BY <1>i, <1>e, <1>s DEF TypeOK
<1>2. IsFiniteSet(customers') /\ CustomersDiffer'
  BY <1>i, <1>s DEF SapInv, CustomersDiffer
<1>3. SapInv'
  BY <1>i, <1>s, <1>2, SapStep
<1>4. QuietInv'
  BY <1>i, <1>s, QuietStep
<1>5. TwinInv'
  BY <1>i, TwinStep
<1> QED
  BY <1>1, <1>3, <1>4, <1>5 DEF Inv

\* A call opens on what it has read.
LEMMA OpenStep ==
  ASSUME Inv, NEW c \in Callers, NEW a \in Applications, NEW first \in Call, first.a = a,
         Opens(c, first), edits' \in 0..MaxEdits,
         first.does \notin {"record", "account", "provision", "submit"},
         a \notin disturbed => CallFits(first, row[a], customers)
  PROVE  Inv'
<1>i. TypeOK /\ QuietInv
  BY DEF Inv
<1>1. /\ call[c] = Idle /\ call' = [call EXCEPT ![c] = first]
      /\ disturbed' = IF On(a) = {} THEN disturbed ELSE disturbed \union {a}
      /\ UNCHANGED <<row, sapVars, deaths, twins>>
  BY DEF Opens, Goes
<1>2. row[a] \in Row /\ Step(c, a, first, row[a]) /\ IsOn(c, a, first)
  BY <1>1, <1>i DEF Step, IsOn, TypeOK
<1>3. disturbed' \in SUBSET Applications /\ disturbed \subseteq disturbed'
      /\ deaths' \in 0..MaxDeaths
  BY <1>1, <1>i DEF TypeOK
<1>4. ASSUME a \notin disturbed'
      PROVE  Alone(c, a) /\ RowFits(a, row[a], customers)
             /\ a \notin disturbed
  BY <1>4, <1>1, <1>i DEF Alone, On, Busy, QuietInv, Quiet
<1>5. row[a].status \in Reviewed \/ AtSubmit(first) => Passed(a)
  BY DEF Passed, AtSubmit
<1> QED
  BY <1>1, <1>2, <1>3, <1>4, <1>5, PlainStep

----------------------------------------------------------------------------
(* Every step                                                              *)

LEMMA OpensPreserve ==
  ASSUME Inv, NEW c \in Callers, NEW a \in Applications,
         \/ \E gstin \in Gstins : ReadStep(c, a, gstin)
         \/ ReadGstin(c, a)
         \/ \E what \in {"upload", "remove"} : ReadForDocument(c, a, what)
         \/ \E register \in BOOLEAN : CheckSubmission(c, a, register)
         \/ CheckDecision(c, a, "askMore", "draft")
         \/ CheckDecision(c, a, "reject", "rejected")
         \/ OpenApproval(c, a)
  PROVE  Inv'
<1>i. TypeOK /\ QuietInv /\ edits \in 0..MaxEdits /\ row[a] \in Row
  BY DEF Inv, TypeOK
<1>e. ASSUME edits' = edits \/ (edits < MaxEdits /\ edits' = edits + 1)
      PROVE  edits' \in 0..MaxEdits
  BY <1>e, <1>i, OnboardingAssumption DEF OnboardingAssumption
<1>1. ASSUME NEW gstin \in Gstins, ReadStep(c, a, gstin) PROVE Inv'
  <2> DEFINE first == [does |-> "save", a |-> a, old |-> row[a].gstin, gstin |-> gstin]
  <2>1. row[a].status = "draft" /\ Opens(c, first) /\ edits' \in 0..MaxEdits
    BY <1>1, <1>e DEF ReadStep, Edits
  <2>2. first \in Call /\ first.a = a /\ first.does = "save" /\ first.old = row[a].gstin
    BY <1>i, RowFields DEF Call
  <2> HIDE DEF first
  <2>3. CallFits(first, row[a], customers)
    BY <2>1, <2>2 DEF CallFits
  <2> QED
    BY <2>1, <2>2, <2>3, OpenStep
<1>2. ASSUME ReadGstin(c, a) PROVE Inv'
  <2> DEFINE first == [does |-> "verify", a |-> a, gstin |-> row[a].gstin]
  <2>1. Opens(c, first) /\ edits' \in 0..MaxEdits
    BY <1>2, <1>e DEF ReadGstin, Edits
  <2>2. first \in Call /\ first.a = a /\ first.does = "verify" /\ first.gstin = row[a].gstin
    BY <1>2, <1>i, RowFields DEF Call, ReadGstin
  <2> HIDE DEF first
  <2>3. CallFits(first, row[a], customers)
    BY <2>1, <2>2 DEF CallFits
  <2> QED
    BY <2>1, <2>2, <2>3, OpenStep
<1>3. ASSUME NEW what \in {"upload", "remove"}, ReadForDocument(c, a, what) PROVE Inv'
  <2> DEFINE first == [does |-> what, a |-> a]
  <2>1. row[a].status = "draft" /\ Opens(c, first) /\ edits' \in 0..MaxEdits
    BY <1>3, <1>e DEF ReadForDocument, Edits
  <2>2. first \in Call /\ first.a = a /\ first.does \in {"upload", "remove"}
    BY DEF Call
  <2> HIDE DEF first
  <2>3. CallFits(first, row[a], customers)
    BY <2>1, <2>2 DEF CallFits
  <2> QED
    BY <2>1, <2>2, <2>3, OpenStep
<1>4. ASSUME NEW register \in BOOLEAN, CheckSubmission(c, a, register) PROVE Inv'
  <2> DEFINE first == [does |-> "guard", a |-> a, gstin |-> row[a].gstin, register |-> register]
  <2>1. /\ row[a].status = "draft" /\ row[a].gstin # NoGstin /\ row[a].evidence # NoEvidence
        /\ Opens(c, first) /\ edits' \in 0..MaxEdits
    BY <1>4, <1>e DEF CheckSubmission, Complete, CanTransition
  <2>2. row[a].documents = TRUE
    BY <1>4, <1>i DEF CheckSubmission, Complete, Row
  <2>3. row[a].gstin \in Gstins
    BY <2>1, <1>i, RowFields
  <2>4. first \in [does : {"guard", "submit", "queue"}, a : Applications, gstin : Gstins,
                   register : BOOLEAN]
    BY ONLY <2>3, a \in Applications, register \in BOOLEAN, Zenon
  <2>5. first.a = a /\ first.does = "guard" /\ first.gstin = row[a].gstin
    OBVIOUS
  <2> HIDE DEF first
  <2>6. first \in Call
    BY <2>4 DEF Call
  <2>7. ASSUME a \notin disturbed PROVE CallFits(first, row[a], customers)
    <3>1. row[a].evidence.gstin = row[a].gstin
      BY <2>1, <2>7, <1>i DEF QuietInv, Quiet, RowFits
    <3> QED
      BY <2>1, <2>2, <2>5, <3>1 DEF CallFits
  <2> QED
    BY <2>1, <2>5, <2>6, <2>7, OpenStep
<1>5. ASSUME NEW what \in {"askMore", "reject"}, NEW to, CheckDecision(c, a, what, to) PROVE Inv'
  <2> DEFINE first == [does |-> what, a |-> a]
  <2>1. Opens(c, first) /\ edits' \in 0..MaxEdits
    BY <1>5, <1>e DEF CheckDecision
  <2>2. first \in Call /\ first.a = a /\ first.does \in {"askMore", "reject"}
    BY DEF Call
  <2> HIDE DEF first
  <2>3. CallFits(first, row[a], customers)
    BY <2>2 DEF CallFits
  <2> QED
    BY <2>1, <2>2, <2>3, OpenStep
<1>6. ASSUME OpenApproval(c, a) PROVE Inv'
  <2> DEFINE first == [does |-> "approve", a |-> a]
  <2>1. Opens(c, first) /\ edits' \in 0..MaxEdits
    BY <1>6, <1>e DEF OpenApproval
  <2>2. first \in Call /\ first.a = a /\ first.does = "approve"
    BY DEF Call
  <2> HIDE DEF first
  <2>3. CallFits(first, row[a], customers)
    BY <2>2 DEF CallFits
  <2> QED
    BY <2>1, <2>2, <2>3, OpenStep
<1> QED
  BY <1>1, <1>2, <1>3, <1>4, <1>5, <1>6

\* What a call under way can count on.
LEMMA Ongoing ==
  ASSUME Inv, NEW c \in Callers, NEW a, a = call[c].a, call[c] # Idle
  PROVE  /\ a \in Applications /\ row[a] \in Row /\ call[c] \in Call
         /\ a \notin disturbed =>
              /\ Alone(c, a) /\ RowFits(a, row[a], customers)
              /\ CallFits(call[c], row[a], customers)
<1>1. a \in Applications /\ row[a] \in Row /\ call[c] \in Call
  BY CallFields DEF Inv, TypeOK
<1> QED
  BY <1>1 DEF Inv, QuietInv, Quiet, Busy, Alone

\* Such a call goes on, and nobody else has come or gone.
LEMMA ContinueStep ==
  ASSUME Inv, NEW c \in Callers, NEW a, a = call[c].a, call[c] # Idle,
         NEW next \in Call \union {Idle}, NEW new \in Row, Step(c, a, next, new),
         next # Idle => next.a = a, UNCHANGED <<sapVars, edits, disturbed, twins>>,
         deaths' \in 0..MaxDeaths,
         new.kunnr = row[a].kunnr,
         next.does \in {"record", "account", "provision"} =>
           MadeIn(customers, a, next.kunnr),
         a \notin disturbed =>
           /\ RowFits(a, new, customers)
           /\ next # Idle => CallFits(next, new, customers)
           /\ new.status \in Reviewed \/ AtSubmit(next) =>
                Passed(a) /\ new.gstin = row[a].gstin
  PROVE  Inv'
<1>1. a \in Applications /\ (a \notin disturbed => Alone(c, a)) /\ IsOn(c, a, next)
  BY Ongoing DEF IsOn
<1>2. edits' \in 0..MaxEdits /\ disturbed' \in SUBSET Applications
  BY DEF Inv, TypeOK
<1>3. next.does \in {"record", "account", "provision"} => next.a = a
  BY DEF Idle
<1> QED
  BY <1>1, <1>2, <1>3, PlainStep

LEMMA EditsPreserve ==
  ASSUME Inv, NEW c \in Callers,
         \/ SaveStep(c) \/ StoreDocument(c)
         \/ \E passes \in BOOLEAN : StoreVerification(c, passes)
         \/ RequestMoreInfo(c) \/ RejectApplication(c)
  PROVE  Inv'
<1> DEFINE a == call[c].a
<1>d. deaths \in 0..MaxDeaths /\ (Idle \in Call \union {Idle})
  BY DEF Inv, TypeOK
<1>f. ~AtSubmit(Idle) /\ Idle.does = "nothing"
  BY DEF AtSubmit, Idle
<1>1. ASSUME SaveStep(c) PROVE Inv'
  <2> DEFINE e == IF call[c].gstin = call[c].old THEN row[a].evidence ELSE NoEvidence
             new == [row[a] EXCEPT !.gstin = call[c].gstin, !.evidence = e]
  <2>1. call[c].does = "save" /\ call[c] # Idle /\ Step(c, a, Idle, new)
        /\ UNCHANGED <<sapVars, edits, deaths, disturbed, twins>>
    BY <1>1, <1>f DEF SaveStep, Does, Writes, Goes, Step, pastVars
  <2>2. /\ a \in Applications /\ row[a] \in Row /\ call[c].gstin \in Gstins
        /\ a \notin disturbed => /\ RowFits(a, row[a], customers)
                                 /\ CallFits(call[c], row[a], customers)
    BY <2>1, Ongoing, CallFields
  <2>3. e \in Evidence \union {NoEvidence}
    BY <2>2, RowFields
  <2>g. e # NoEvidence => e = row[a].evidence /\ call[c].gstin = call[c].old
    OBVIOUS
  <2> HIDE DEF e
  <2>4. /\ new \in Row /\ new.status = row[a].status /\ new.gstin = call[c].gstin
        /\ new.evidence = e /\ new.kunnr = row[a].kunnr
    <3>1. new = [row[a] EXCEPT !.gstin = call[c].gstin, !.evidence = e]
      OBVIOUS
    <3> HIDE DEF new, a
    <3>2. row[a] \in Row /\ call[c].gstin \in Gstins
      BY <2>2
    <3>3. call[c].gstin \in Gstins \union {NoGstin}
      BY <3>2
    <3>4. new \in Row
      BY ONLY <3>1, <3>2, <3>3, <2>3, Zenon DEF Row
    <3>5. DOMAIN row[a] = {"status", "gstin", "evidence", "documents", "kunnr"}
      BY <3>2 DEF Row
    <3> QED
      BY ONLY <3>1, <3>4, <3>5
  <2>5. ASSUME a \notin disturbed
        PROVE  RowFits(a, new, customers) /\ new.status \notin Reviewed
    BY <2>1, <2>2, <2>4, <2>g, <2>5 DEF RowFits, CallFits, Reviewed
  <2>6. a = call[c].a
    OBVIOUS
  <2> HIDE DEF a, new
  <2> QED
    BY <1>d, <1>f, <2>1, <2>4, <2>5, <2>6, ContinueStep
<1>2. ASSUME StoreDocument(c) PROVE Inv'
  <2> DEFINE new == [row[a] EXCEPT !.documents = Does(c, "upload")]
  <2>1. call[c].does \in {"upload", "remove"} /\ call[c] # Idle /\ Step(c, a, Idle, new)
        /\ UNCHANGED <<sapVars, edits, deaths, disturbed, twins>>
    BY <1>2, <1>f DEF StoreDocument, Does, Writes, Goes, Step, pastVars
  <2>2. /\ a \in Applications /\ row[a] \in Row
        /\ a \notin disturbed => /\ RowFits(a, row[a], customers)
                                 /\ CallFits(call[c], row[a], customers)
    BY <2>1, Ongoing
  <2>3. Does(c, "upload") \in BOOLEAN
    BY DEF Does
  <2>4. /\ new \in Row /\ new.status = row[a].status /\ new.gstin = row[a].gstin
        /\ new.evidence = row[a].evidence /\ new.kunnr = row[a].kunnr
    BY <2>2, <2>3, DocumentsWritten
  <2> HIDE DEF new
  <2>5. ASSUME a \notin disturbed
        PROVE  RowFits(a, new, customers) /\ new.status \notin Reviewed
    BY <2>1, <2>2, <2>4, <2>5 DEF RowFits, CallFits, Reviewed
  <2>6. a = call[c].a
    OBVIOUS
  <2> HIDE DEF a
  <2> QED
    BY <1>d, <1>f, <2>1, <2>4, <2>5, <2>6, ContinueStep
<1>3. ASSUME NEW passes \in BOOLEAN, StoreVerification(c, passes) PROVE Inv'
  <2> DEFINE e == [gstin |-> call[c].gstin, passes |-> passes]
             new == [row[a] EXCEPT !.evidence = e]
  <2>1. call[c].does = "verify" /\ call[c] # Idle /\ Step(c, a, Idle, new)
        /\ UNCHANGED <<sapVars, edits, deaths, disturbed, twins>>
    BY <1>3, <1>f DEF StoreVerification, Does, Writes, Goes, Step, pastVars
  <2>2. /\ a \in Applications /\ row[a] \in Row /\ call[c].gstin \in Gstins
        /\ a \notin disturbed => /\ RowFits(a, row[a], customers)
                                 /\ CallFits(call[c], row[a], customers)
    BY <2>1, Ongoing, CallFields
  <2>3. e \in Evidence
    BY ONLY <2>2, passes \in BOOLEAN, Zenon DEF Evidence
  <2>g. e.gstin = call[c].gstin
    OBVIOUS
  <2> HIDE DEF e
  <2>4. /\ new \in Row /\ new.status = row[a].status /\ new.gstin = row[a].gstin
        /\ new.evidence = e /\ new.documents = row[a].documents /\ new.kunnr = row[a].kunnr
    BY <2>2, <2>3, EvidenceWritten
  <2> HIDE DEF new
  <2>5. ASSUME a \notin disturbed PROVE RowFits(a, new, customers)
    BY <2>1, <2>2, <2>4, <2>g, <2>5 DEF RowFits, CallFits
  <2>6. new.status \in Reviewed \/ AtSubmit(Idle) => Passed(a)
    BY <2>4, <1>f DEF Passed
  <2>7. a = call[c].a
    OBVIOUS
  <2> HIDE DEF a
  <2> QED
    BY <1>d, <1>f, <2>1, <2>4, <2>5, <2>6, <2>7, ContinueStep
<1>4. ASSUME RequestMoreInfo(c) \/ RejectApplication(c) PROVE Inv'
  <2>0. PICK to \in {"draft", "rejected"} :
          /\ call[c].does \in {"askMore", "reject"}
          /\ Step(c, a, Idle, [row[a] EXCEPT !.status = to])
          /\ UNCHANGED <<sapVars, edits, deaths, disturbed, twins>>
    BY <1>4 DEF RequestMoreInfo, RejectApplication, Does, Writes, Goes, Step, pastVars
  <2> DEFINE new == [row[a] EXCEPT !.status = to]
  <2>1. call[c] # Idle /\ Step(c, a, Idle, new)
    BY <2>0, <1>f
  <2>2. /\ a \in Applications /\ row[a] \in Row
        /\ a \notin disturbed => RowFits(a, row[a], customers)
    BY <2>1, Ongoing
  <2>4. /\ new \in Row /\ new.status = to /\ new.gstin = row[a].gstin
        /\ new.evidence = row[a].evidence /\ new.kunnr = row[a].kunnr
    <3>1. to \in Statuses
      BY DEF Statuses
    <3> QED
      BY <2>2, <3>1, StatusWritten
  <2> HIDE DEF new
  <2>5. a \notin disturbed => RowFits(a, new, customers)
    BY <2>2, <2>4 DEF RowFits, Reviewed
  <2>6. new.status \notin Reviewed
    BY <2>4 DEF Reviewed
  <2>7. a = call[c].a
    OBVIOUS
  <2> HIDE DEF a
  <2> QED
    BY <1>d, <1>f, <2>0, <2>1, <2>4, <2>5, <2>6, <2>7, ContinueStep
<1> QED
  BY <1>1, <1>2, <1>3, <1>4

\* From the submission to the approval, where SAP has not been asked yet.
LEMMA ReviewPreserves ==
  ASSUME Inv, NEW c \in Callers,
         Submit(c) \/ Queue(c) \/ CheckApproval(c) \/ SapRefuses(c) \/ CallDies(c)
  PROVE  Inv'
<1> DEFINE a == call[c].a
<1>d. deaths \in 0..MaxDeaths /\ Idle \in Call \union {Idle} /\ Idle.does = "nothing"
      /\ call[c] \in Call \union {Idle}
  BY DEF Inv, TypeOK, Idle
<1>f. ~AtSubmit(Idle)
  BY <1>d DEF AtSubmit
<1>a. a = call[c].a
  OBVIOUS
<1>o. ASSUME call[c] # Idle
      PROVE  /\ a \in Applications /\ row[a] \in Row /\ call[c] \in Call
             /\ a \notin disturbed => /\ RowFits(a, row[a], customers)
                                      /\ CallFits(call[c], row[a], customers)
  BY <1>o, Ongoing
\* The call ends and the row stays.
<1>s. ASSUME call[c] # Idle, NEW next \in Call \union {Idle},
             call' = [call EXCEPT ![c] = next],
             UNCHANGED <<row, sapVars, edits, disturbed, twins>>, deaths' \in 0..MaxDeaths,
             next # Idle => next.a = a,
             next.does \notin {"record", "account", "provision", "submit"},
             a \notin disturbed /\ next # Idle => CallFits(next, row[a], customers)
      PROVE  Inv'
  <2>1. a \in Applications /\ row[a] \in Row /\ (a \notin disturbed => RowFits(a, row[a], customers))
    BY <1>s, <1>o
  <2>2. Step(c, a, next, row[a])
    BY <1>s, <2>1 DEF Step, Inv, TypeOK
  <2>3. row[a].status \in Reviewed \/ AtSubmit(next) => Passed(a)
    BY <1>s DEF Passed, AtSubmit
  <2> HIDE DEF a
  <2> QED
    BY <1>a, <1>s, <2>1, <2>2, <2>3, ContinueStep
<1>1. ASSUME Submit(c) PROVE Inv'
  <2> DEFINE new == [row[a] EXCEPT !.status = "submitted"]
             next == [call[c] EXCEPT !.does = "queue"]
  <2>1. call[c].does = "submit" /\ Step(c, a, next, new)
        /\ UNCHANGED <<sapVars, edits, deaths, disturbed, twins>>
    BY <1>1 DEF Submit, Does, Writes, Goes, Step, pastVars
  <2>2. call[c] # Idle
    BY <2>1, <1>d
  <2>3. call[c] \in [does : {"guard", "submit", "queue"}, a : Applications, gstin : Gstins,
                     register : BOOLEAN]
    BY <2>1, <2>2, <1>d DEF Call
  <2>4. next \in [does : {"guard", "submit", "queue"}, a : Applications, gstin : Gstins,
                     register : BOOLEAN]
    BY ONLY <2>3, Zenon
  <2>5. next \in Call /\ next.does = "queue" /\ next.a = a
    BY <2>3, <2>4 DEF Call
  <2>6. /\ new \in Row /\ new.status = "submitted" /\ new.gstin = row[a].gstin
        /\ new.evidence = row[a].evidence /\ new.documents = row[a].documents
        /\ new.kunnr = row[a].kunnr
    BY <2>2, <1>o, StatusWritten DEF Statuses
  <2> HIDE DEF new, next
  <2>7. ASSUME a \notin disturbed
        PROVE  RowFits(a, new, customers) /\ CallFits(next, new, customers)
    <3>1. /\ row[a].gstin = call[c].gstin /\ row[a].documents = TRUE
          /\ row[a].evidence.gstin = row[a].gstin
      BY <2>1, <2>2, <2>7, <1>o DEF CallFits
    <3>2. call[c].gstin # NoGstin
      BY <2>3, OnboardingAssumption DEF OnboardingAssumption
    <3> QED
      BY <2>5, <2>6, <3>1, <3>2 DEF RowFits, CallFits
  <2>8. Passed(a)
    BY <2>1 DEF Passed, AtSubmit
  <2> HIDE DEF a
  <2> QED
    BY <1>a, <1>d, <2>1, <2>2, <2>5, <2>6, <2>7, <2>8, ContinueStep
<1>2. ASSUME Queue(c) PROVE Inv'
  <2> DEFINE new == [row[a] EXCEPT !.status = "pending_approval"]
             next == IF call[c].register THEN [does |-> "approve", a |-> a] ELSE Idle
  <2>1. call[c].does = "queue" /\ Step(c, a, next, new)
        /\ UNCHANGED <<sapVars, edits, deaths, disturbed, twins>>
    BY <1>2 DEF Queue, Does, Writes, Goes, Step, pastVars
  <2>2. call[c] # Idle
    BY <2>1, <1>d
  <2>3. a \in Applications /\ row[a] \in Row
    BY <2>2, <1>o
  <2>4. /\ next \in Call \union {Idle} /\ next.does \in {"approve", "nothing"}
        /\ next # Idle => next.a = a
    BY <2>3, <1>d DEF Call
  <2>5. /\ new \in Row /\ new.status = "pending_approval" /\ new.gstin = row[a].gstin
        /\ new.evidence = row[a].evidence /\ new.documents = row[a].documents
        /\ new.kunnr = row[a].kunnr
    BY <2>3, StatusWritten DEF Statuses
  <2> HIDE DEF new, next
  <2>6. ASSUME a \notin disturbed
        PROVE  RowFits(a, new, customers) /\ row[a].status = "submitted"
    <3>1. row[a].status = "submitted"
      BY <2>1, <2>2, <2>6, <1>o DEF CallFits
    <3> QED
      BY <2>2, <2>5, <2>6, <3>1, <1>o DEF RowFits, Reviewed
  <2>7. a \notin disturbed => Passed(a)
    BY <2>6 DEF Passed, Reviewed
  <2>8. CallFits(next, new, customers)
    BY <2>4 DEF CallFits
  <2> HIDE DEF a
  <2> QED
    BY <1>a, <1>d, <2>1, <2>2, <2>3, <2>4, <2>5, <2>6, <2>7, <2>8, ContinueStep DEF AtSubmit
<1>3. ASSUME CheckApproval(c) PROVE Inv'
  <2> DEFINE next == IF CanTransition(row[a].status, "approved") /\ Complete(a)
                     THEN [does |-> "create", a |-> a, gstin |-> row[a].gstin] ELSE Idle
  <2>1. call[c].does = "approve" /\ call' = [call EXCEPT ![c] = next]
        /\ UNCHANGED <<row, sapVars, edits, deaths, disturbed, twins>>
    BY <1>3 DEF CheckApproval, Does, Goes, pastVars
  <2>2. call[c] # Idle
    BY <2>1, <1>d
  <2>3. /\ next \in Call \union {Idle} /\ next.does \in {"create", "nothing"}
        /\ next # Idle => next.a = a
        /\ next.does = "create" => row[a].status = "pending_approval" /\ next.gstin = row[a].gstin
    BY <2>2, <1>o, <1>d, RowFields DEF Call, CanTransition, Complete
  <2> HIDE DEF next
  <2>4. CallFits(next, row[a], customers)
    BY <2>3 DEF CallFits
  <2> QED
    BY <1>d, <1>s, <2>1, <2>2, <2>3, <2>4
<1>4. ASSUME SapRefuses(c) \/ CallDies(c) PROVE Inv'
  <2>1. call[c] # Idle /\ call' = [call EXCEPT ![c] = Idle]
        /\ UNCHANGED <<row, sapVars, edits, disturbed, twins>>
    BY <1>4, <1>d DEF SapRefuses, CallDies, Does, Goes, pastVars
  <2>2. deaths' \in 0..MaxDeaths
    BY <1>4, <1>d, OnboardingAssumption DEF SapRefuses, CallDies, OnboardingAssumption
  <2> QED
    BY <1>d, <1>s, <2>1, <2>2
<1> QED
  BY <1>1, <1>2, <1>3, <1>4

\* The guard: whoever is past it with the same number by then is a twin.
LEMMA GuardPreserves ==
  ASSUME Inv, NEW c \in Callers, GuardDuplicate(c)
  PROVE  Inv'
<1> DEFINE a == call[c].a  g == call[c].gstin
           pass == [call[c] EXCEPT !.does = "submit"]
<1>i. TypeOK /\ SapInv /\ QuietInv /\ TwinInv
  BY DEF Inv
<1>1. call[c].does = "guard" /\ call[c] # Idle
      /\ UNCHANGED <<row, sapVars, edits, deaths, disturbed>>
  BY DEF GuardDuplicate, Does, Idle
<1>2. call[c] \in [does : {"guard", "submit", "queue"}, a : Applications, gstin : Gstins,
                   register : BOOLEAN]
  BY <1>1, <1>i DEF Call, TypeOK
<1>3. pass \in [does : {"guard", "submit", "queue"}, a : Applications, gstin : Gstins,
                register : BOOLEAN]
  BY ONLY <1>2, Zenon
<1>4. pass \in Call /\ pass.does = "submit" /\ pass.a = a /\ pass.gstin = g /\ g \in Gstins
  BY <1>2, <1>3 DEF Call
<1>5. /\ a \in Applications /\ row[a] \in Row
      /\ a \notin disturbed => /\ Alone(c, a) /\ RowFits(a, row[a], customers)
                               /\ CallFits(call[c], row[a], customers)
  BY <1>1, Ongoing
<1>6. Idle \in Call \union {Idle} /\ Idle.does = "nothing"
  BY DEF Idle
<1>a. a = call[c].a
  OBVIOUS
<1>7. CASE Duplicate(a, g)
  <2>1. Step(c, a, Idle, row[a]) /\ UNCHANGED twins
    BY <1>1, <1>5, <1>7, <1>i DEF GuardDuplicate, Goes, Step, TypeOK
  <2>2. row[a].status \in Reviewed \/ AtSubmit(Idle) => Passed(a)
    BY <1>6 DEF Passed, AtSubmit
  <2>3. deaths' \in 0..MaxDeaths
    BY <1>1, <1>i DEF TypeOK
  <2> HIDE DEF a
  <2> QED
    BY <1>1, <1>5, <1>6, <1>a, <2>1, <2>2, <2>3, ContinueStep
<1>8. CASE ~Duplicate(a, g)
  <2>1. call' = [call EXCEPT ![c] = pass] /\ Step(c, a, pass, row[a])
        /\ twins' = twins \union {{a, other} : other \in PastGuard(g) \ {a}}
    BY <1>1, <1>5, <1>8, <1>i DEF GuardDuplicate, Goes, Step, TypeOK
  <2> HIDE DEF pass
  <2>2. IsOn(c, a, pass)
    BY <1>4 DEF IsOn
  <2>3. customers' = customers /\ accounts' = accounts /\ logins' = logins
    BY <1>1 DEF sapVars
  <2>4. call' \in [Callers -> Call \union {Idle}] /\ call'[c] = pass
        /\ \A d \in Callers : d # c => call'[d] = call[d]
    BY <2>1, <1>4, <1>5, <1>i, StepEffect
  <2>5. TypeOK'
    <3>1. PastGuard(g) \subseteq Applications
      BY <1>i, CallFields DEF PastGuard, Does, TypeOK
    <3>2. twins' \in SUBSET SUBSET Applications
      BY <3>1, <2>1, <1>5, <1>i DEF TypeOK
    <3> QED
      BY <2>3, <2>4, <3>2, <1>1, <1>i DEF TypeOK
  <2>6. SapInv'
    <3>1. IsFiniteSet(customers') /\ CustomersDiffer'
      BY <2>3, <1>i DEF SapInv, CustomersDiffer
    <3> QED
      BY <1>4, <1>5, <1>i, <2>1, <2>3, <3>1, SapStep
  <2>7. QuietInv'
    <3>1. a \notin disturbed' => CallFits(pass, row[a], customers')
      BY <1>1, <1>4, <1>5, <2>3 DEF CallFits
    <3> QED
      BY <1>1, <1>4, <1>5, <1>i, <2>1, <2>2, <2>3, <3>1, QuietStep
  <2>8. ASSUME NEW x \in Applications \ disturbed', x # a, Passed(x)'
        PROVE  Passed(x) /\ row'[x].gstin = row[x].gstin
    <3>1. \A d \in Callers : AtSubmit(call'[d]) /\ call'[d].a = x => call'[d] = call[d]
      BY <2>8, <2>4, <1>4
    <3> QED
      BY <2>8, <3>1, <1>1 DEF Passed, AtSubmit
  <2>9. ASSUME NEW x \in Applications \ disturbed', x # a, a \notin disturbed', Passed(x)',
               row'[x].gstin = row'[a].gstin
        PROVE  {a, x} \in twins'
    <3>1. Passed(x) /\ row[x].gstin = g /\ row[a].gstin = g
      BY <2>8, <2>9, <1>1, <1>5 DEF CallFits
    <3>2. row[x].status \notin Reviewed
      BY <3>1, <2>9, <1>8 DEF Duplicate, Reviewed
    <3>3. PICK d \in Callers : AtSubmit(call[d]) /\ call[d].a = x
      BY <3>1, <3>2 DEF Passed
    <3>4. CallFits(call[d], row[x], customers)
      BY <3>3, <2>9, <1>1, <1>i, <1>6 DEF QuietInv, Quiet, Busy, AtSubmit
    <3>5. call[d].gstin = g
      BY <3>1, <3>3, <3>4 DEF CallFits, AtSubmit
    <3>6. x \in PastGuard(g)
      BY <3>3, <3>5 DEF PastGuard, Does, AtSubmit
    <3> QED
      BY <2>1, <2>9, <3>6
  <2>10. TwinInv'
    <3> SUFFICES ASSUME NEW a1 \in Applications \ disturbed', NEW a2 \in Applications \ disturbed',
                        a1 # a2, Passed(a1)', Passed(a2)', row'[a1].gstin = row'[a2].gstin
                 PROVE  {a1, a2} \in twins'
      BY DEF TwinInv
    <3>1. CASE a1 = a
      BY <3>1, <2>9
    <3>2. CASE a2 = a
      <4>1. {a, a1} \in twins' /\ {a, a1} = {a1, a2}
        BY <3>2, <2>9
      <4> QED
        BY <4>1
    <3>3. CASE a1 # a /\ a2 # a
      BY <3>3, <2>1, <2>8, <1>1, <1>i DEF TwinInv
    <3> QED
      BY <3>1, <3>2, <3>3
  <2> QED
    BY <2>5, <2>6, <2>7, <2>10 DEF Inv
<1> QED
  BY <1>7, <1>8

\* SAP is asked, and what it answered is written down in three places.
LEMMA ApprovalPreserves ==
  ASSUME Inv, NEW c \in Callers,
         \/ CreateCustomer(c) \/ CreateCustomerUnheard(c) \/ RecordApproval(c)
         \/ RegisterCustomerAccount(c) \/ ProvisionPortalAccess(c)
  PROVE  Inv'
<1> DEFINE a == call[c].a
<1>i. TypeOK /\ SapInv /\ QuietInv /\ TwinInv
  BY DEF Inv
<1>0. Idle.does = "nothing" /\ Idle \in Call \union {Idle}
  BY DEF Idle
<1>1. call[c] # Idle /\ UNCHANGED <<edits, disturbed, twins>>
  BY <1>0 DEF CreateCustomer, CreateCustomerUnheard, SapCreates, RecordApproval, Writes,
         RegisterCustomerAccount, ProvisionPortalAccess, Does, pastVars
<1>2. /\ a \in Applications /\ row[a] \in Row /\ call[c] \in Call
      /\ a \notin disturbed => /\ Alone(c, a) /\ RowFits(a, row[a], customers)
                               /\ CallFits(call[c], row[a], customers)
  BY <1>1, Ongoing
<1>3. deaths' \in 0..MaxDeaths
  BY <1>i, OnboardingAssumption
     DEF OnboardingAssumption, CreateCustomer, CreateCustomerUnheard, RecordApproval, Writes,
         RegisterCustomerAccount, ProvisionPortalAccess, TypeOK
<1>p. row[a].status \in Reviewed => Passed(a)
  BY DEF Passed
\* What the rest of the invariant needs of such a step.
<1>k. ASSUME NEW next \in Call \union {Idle}, NEW new \in Row, Step(c, a, next, new),
             next # Idle => next.a = a, ~AtSubmit(next), new.gstin = row[a].gstin,
             customers \subseteq customers', customers' \in SUBSET Customer,
             accounts' \in SUBSET Numbers, logins' \in SUBSET (Applications \X Numbers),
             a \notin disturbed =>
               /\ RowFits(a, new, customers')
               /\ next # Idle => CallFits(next, new, customers')
               /\ new.status \in Reviewed => row[a].status \in Reviewed,
             SapInv'
      PROVE  Inv'
  <2>1. IsOn(c, a, next)
    BY <1>k DEF IsOn
  <2>2. QuietInv'
    BY <1>k, <1>1, <1>2, <1>i, <2>1, QuietStep
  <2>3. TwinInv'
    BY <1>k, <1>1, <1>2, <1>p, <1>i, <2>1, TwinStep
  <2>4. call' \in [Callers -> Call \union {Idle}] /\ row' \in [Applications -> Row]
    BY <1>k, <1>2, <1>i, StepEffect
  <2>5. TypeOK'
    BY <1>k, <1>1, <1>3, <2>4, <1>i DEF TypeOK
  <2> QED
    BY <1>k, <2>2, <2>3, <2>5 DEF Inv
<1>4. ASSUME SapCreates(c), UNCHANGED <<row, accounts, logins>>,
             \/ call' = [call EXCEPT ![c] = Idle]
             \/ call' = [call EXCEPT ![c] = [does |-> "record", a |-> a,
                                             kunnr |-> NextCustomerNumber]]
      PROVE  Inv'
  <2> DEFINE k == [kunnr |-> NextCustomerNumber, gstin |-> call[c].gstin, a |-> a]
             recording == [does |-> "record", a |-> a, kunnr |-> NextCustomerNumber]
  <2>1. /\ call[c].does = "create" /\ customers' = customers \union {k}
        /\ Cardinality(customers) < MaxCustomers
        /\ \A other \in customers : other.gstin # call[c].gstin
    BY <1>4 DEF SapCreates, Does, KnowsGstin
  <2>2. IsFiniteSet(customers) /\ Cardinality(customers) \in Nat
    BY <1>i, FS_CardinalityType DEF SapInv
  <2>3. NextCustomerNumber \in Numbers /\ NextCustomerNumber # 0
    BY <2>1, <2>2, OnboardingAssumption DEF NextCustomerNumber, Numbers, OnboardingAssumption
  <2>4. k \in Customer /\ k.gstin = call[c].gstin /\ k.a = a /\ k.kunnr = NextCustomerNumber
    BY <1>2, <2>1, <2>3, CallFields DEF Customer
  <2>5. recording \in Call /\ recording.does = "record" /\ recording.a = a
        /\ recording.kunnr = NextCustomerNumber
    BY <1>2, <2>3 DEF Call
  <2>6. PICK next \in {Idle, recording} : call' = [call EXCEPT ![c] = next]
    BY <1>4
  <2> HIDE DEF k, recording
  <2>7. /\ next \in Call \union {Idle} /\ (next # Idle => next.a = a)
        /\ next.does \in {"nothing", "record"}
    BY <2>5, <2>6, <1>0
  <2>8. Step(c, a, next, row[a])
    BY <1>4, <1>2, <2>6, <1>i DEF Step, TypeOK
  <2>9. IsFiniteSet(customers')
    BY <2>1, <2>2, FS_AddElement
  <2>10. CustomersDiffer'
    <3>1. /\ \A k1 \in customers : k1.gstin # k.gstin /\ k1.kunnr <= Cardinality(customers)
          /\ \A k1, k2 \in customers : k1.gstin = k2.gstin \/ k1.kunnr = k2.kunnr => k1 = k2
      BY <2>1, <2>4, <1>i DEF SapInv, CustomersDiffer
    <3>2. k \notin customers
      BY <3>1
    <3>3. Cardinality(customers') = k.kunnr
      BY <2>1, <2>2, <2>4, <3>2, FS_AddElement DEF NextCustomerNumber
    <3>4. \A k1 \in customers : k1.kunnr \in Nat /\ k1.kunnr < k.kunnr
      BY <2>2, <2>4, <3>1, <1>i DEF NextCustomerNumber, TypeOK, Customer, Numbers
    <3>5. k.kunnr \in Nat
      BY <2>2, <2>4 DEF NextCustomerNumber
    <3> QED
      BY <2>1, <3>1, <3>3, <3>4, <3>5 DEF CustomersDiffer
  <2>11. next.does = "record" => MadeIn(customers', next.a, next.kunnr)
    BY <2>1, <2>4, <2>5, <2>6, <1>0 DEF MadeIn
  <2>12. SapInv'
    BY <1>2, <1>4, <1>i, <2>1, <2>7, <2>8, <2>9, <2>10, <2>11, SapStep
  <2>13. a \notin disturbed =>
           /\ RowFits(a, row[a], customers')
           /\ next # Idle => CallFits(next, row[a], customers')
    <3> SUFFICES ASSUME a \notin disturbed
                 PROVE  RowFits(a, row[a], customers') /\ CallFits(next, row[a], customers')
      OBVIOUS
    <3>1. RowFits(a, row[a], customers')
      BY <1>2, <2>1, FitsGrow
    <3>2. row[a].status = "pending_approval" /\ row[a].gstin = call[c].gstin
      BY <1>2, <2>1 DEF CallFits
    <3>3. next.does = "record" => next.a = a
      BY <2>7, <1>0
    <3> QED
      BY <2>1, <2>4, <2>7, <3>1, <3>2, <3>3 DEF CallFits
  <2>14. ~AtSubmit(next) /\ accounts' \in SUBSET Numbers /\ logins' \in SUBSET (Applications \X Numbers)
         /\ customers \subseteq customers' /\ customers' \in SUBSET Customer
    BY <2>1, <2>4, <2>7, <1>4, <1>i DEF AtSubmit, TypeOK
  <2> HIDE DEF a
  <2> QED
    BY <1>2, <1>k, <2>7, <2>8, <2>12, <2>13, <2>14
<1>5. ASSUME CreateCustomer(c) \/ CreateCustomerUnheard(c) PROVE Inv'
  BY <1>5, <1>4 DEF CreateCustomer, CreateCustomerUnheard, Goes
<1>n. ASSUME call[c].does \in {"record", "account", "provision"}
      PROVE  call[c].kunnr \in Numbers /\ MadeIn(customers, a, call[c].kunnr)
  BY <1>n, <1>2, <1>i, CallFields DEF SapInv, CallsHaveSapsNumber
<1>m. ASSUME call[c].does \in {"record", "account", "provision"},
             NEW to \in {"account", "provision"}
      PROVE  LET next == [call[c] EXCEPT !.does = to]
             IN next \in Call /\ next.does = to /\ next.a = a /\ next.kunnr = call[c].kunnr
  BY <1>m, <1>2 DEF Call
<1>6. ASSUME RecordApproval(c) PROVE Inv'
  <2> DEFINE next == [call[c] EXCEPT !.does = "account"]
             new == [row[a] EXCEPT !.status = "approved", !.kunnr = call[c].kunnr]
  <2>1. call[c].does = "record" /\ Step(c, a, next, new)
        /\ customers' = customers /\ accounts' = accounts /\ logins' = logins
    BY <1>6 DEF RecordApproval, Does, Writes, Goes, Step, sapVars
  <2>2. next \in Call /\ next.does = "account" /\ next.a = a /\ next.kunnr = call[c].kunnr
    BY <2>1, <1>m
  <2>3. call[c].kunnr \in Numbers /\ MadeIn(customers, a, call[c].kunnr)
    BY <2>1, <1>n
  <2>4. /\ new \in Row /\ new.status = "approved" /\ new.gstin = row[a].gstin
        /\ new.evidence = row[a].evidence /\ new.documents = row[a].documents
        /\ new.kunnr = call[c].kunnr
    <3>1. new = [row[a] EXCEPT !.status = "approved", !.kunnr = call[c].kunnr]
      OBVIOUS
    <3>2. call[c].kunnr \in {0} \union Numbers /\ "approved" \in Statuses /\ row[a] \in Row
      BY <1>2, <2>3 DEF Statuses
    <3> HIDE DEF new, a
    <3>3. new \in Row
      BY ONLY <3>1, <3>2, Zenon DEF Row
    <3>4. DOMAIN row[a] = {"status", "gstin", "evidence", "documents", "kunnr"}
      BY <3>2 DEF Row
    <3> QED
      BY ONLY <3>1, <3>3, <3>4
  <2> HIDE DEF next, new
  <2>5. SapInv'
    <3>1. IsFiniteSet(customers') /\ CustomersDiffer'
      BY <2>1, <1>i DEF SapInv, CustomersDiffer
    <3> QED
      BY <1>2, <1>i, <2>1, <2>2, <2>3, <2>4, <3>1, SapStep
  <2>6. ASSUME a \notin disturbed
        PROVE  /\ RowFits(a, new, customers) /\ CallFits(next, new, customers)
               /\ row[a].status \in Reviewed
    <3>1. /\ row[a].status = "pending_approval"
          /\ \E k \in customers : k.a = a /\ k.gstin = row[a].gstin
      BY <2>1, <2>6, <1>2 DEF CallFits
    <3> QED
      BY <2>2, <2>4, <2>6, <3>1, <1>2 DEF RowFits, CallFits, Reviewed
  <2>7. ~AtSubmit(next) /\ accounts' \in SUBSET Numbers /\ logins' \in SUBSET (Applications \X Numbers)
        /\ customers \subseteq customers' /\ customers' \in SUBSET Customer
    BY <2>1, <2>2, <1>i DEF AtSubmit, TypeOK
  <2> HIDE DEF a
  <2> QED
    BY <1>k, <2>1, <2>2, <2>4, <2>5, <2>6, <2>7
<1>7. ASSUME RegisterCustomerAccount(c) \/ ProvisionPortalAccess(c) PROVE Inv'
  <2> DEFINE going == [call[c] EXCEPT !.does = "provision"]
  <2>1. /\ call[c].does \in {"account", "provision"} /\ row' = row /\ customers' = customers
        /\ call' = [call EXCEPT ![c] = going] \/ call' = [call EXCEPT ![c] = Idle]
    BY <1>7 DEF RegisterCustomerAccount, ProvisionPortalAccess, Does, Goes
  <2>2. accounts' \subseteq accounts \union {call[c].kunnr}
        /\ logins' \subseteq logins \union {<<a, call[c].kunnr>>}
    BY <1>7 DEF RegisterCustomerAccount, ProvisionPortalAccess
  <2>3. going \in Call /\ going.does = "provision" /\ going.a = a /\ going.kunnr = call[c].kunnr
    BY <2>1, <1>m
  <2>4. call[c].kunnr \in Numbers /\ MadeIn(customers, a, call[c].kunnr)
    BY <2>1, <1>n
  <2>5. PICK next \in {Idle, going} : call' = [call EXCEPT ![c] = next]
    BY <2>1
  <2> HIDE DEF going
  <2>6. /\ next \in Call \union {Idle} /\ (next # Idle => next.a = a)
        /\ next.does \in {"nothing", "provision"}
        /\ next.does = "provision" => MadeIn(customers, next.a, next.kunnr)
    BY <2>3, <2>4, <2>5, <1>0
  <2>7. Step(c, a, next, row[a])
    BY <1>2, <2>1, <2>5, <1>i DEF Step, TypeOK
  <2>8. SapInv'
    <3>1. IsFiniteSet(customers') /\ CustomersDiffer'
      BY <2>1, <1>i DEF SapInv, CustomersDiffer
    <3>2. \A n \in accounts' : n \in accounts \/ \E x \in Applications : MadeIn(customers', x, n)
      BY <1>2, <2>1, <2>2, <2>4
    <3>3. \A l \in logins' : l \in logins \/ MadeIn(customers', l[1], l[2])
      BY <1>2, <2>1, <2>2, <2>4
    <3> QED
      BY <1>2, <1>i, <2>1, <2>6, <2>7, <3>1, <3>2, <3>3, SapStep
  <2>9. a \notin disturbed =>
          RowFits(a, row[a], customers') /\ CallFits(next, row[a], customers')
    BY <1>2, <2>1, <2>6 DEF CallFits
  <2>10. ~AtSubmit(next) /\ accounts' \in SUBSET Numbers /\ logins' \in SUBSET (Applications \X Numbers)
         /\ customers \subseteq customers' /\ customers' \in SUBSET Customer
    BY <1>2, <2>1, <2>2, <2>4, <2>6, <1>i DEF AtSubmit, TypeOK
  <2> HIDE DEF a
  <2> QED
    BY <1>2, <1>k, <2>6, <2>7, <2>8, <2>9, <2>10
<1> QED
  BY <1>5, <1>6, <1>7

LEMMA InvPreserved == Inv /\ [Next]_vars => Inv'
<1> SUFFICES ASSUME Inv, [Next]_vars PROVE Inv'
  OBVIOUS
<1>1. ASSUME NEW c \in Callers, Proceed(c) \/ CreateCustomerUnheard(c) \/ CallDies(c) PROVE Inv'
  BY <1>1, EditsPreserve, ReviewPreserves, GuardPreserves, ApprovalPreserves DEF Proceed
<1>2. ASSUME UNCHANGED vars PROVE Inv'
  BY <1>2 DEF vars, sapVars, pastVars, Inv, TypeOK, SapInv, CustomersDiffer,
     CallsHaveSapsNumber, NumbersAreSaps, QuietInv, Quiet, Busy, TwinInv, Passed
<1> QED
  BY <1>1, <1>2, OpensPreserve DEF Next

----------------------------------------------------------------------------
(* Theorems                                                                *)

\* The invariant holds in every reachable state.
THEOREM OnboardingInvariance == Spec => []Inv
<1>1. Init => Inv
  <2> SUFFICES ASSUME Init PROVE Inv
    OBVIOUS
  <2> DEFINE blank == [status |-> "draft", gstin |-> NoGstin, evidence |-> NoEvidence,
                       documents |-> FALSE, kunnr |-> 0]
  <2>1. /\ row = [a \in Applications |-> blank] /\ call = [c \in Callers |-> Idle]
        /\ customers = {} /\ accounts = {} /\ logins = {} /\ disturbed = {} /\ twins = {}
        /\ edits = 0 /\ deaths = 0
    BY DEF Init
  <2>2. blank \in Row
    <3>1. "draft" \in Statuses /\ NoGstin \in Gstins \union {NoGstin}
          /\ NoEvidence \in Evidence \union {NoEvidence} /\ 0 \in {0} \union Numbers
      BY DEF Statuses
    <3> QED
      BY ONLY <3>1, Zenon DEF Row
  <2>3. blank.status = "draft" /\ blank.evidence = NoEvidence /\ blank.kunnr = 0
    OBVIOUS
  <2> HIDE DEF blank
  <2>4. TypeOK
    BY <2>1, <2>2, OnboardingAssumption DEF TypeOK, OnboardingAssumption
  <2>5. SapInv
    BY <2>1, <2>3, FS_EmptySet
       DEF SapInv, CustomersDiffer, CallsHaveSapsNumber, NumbersAreSaps, Idle
  <2>6. QuietInv
    BY <2>1, <2>3 DEF QuietInv, Quiet, Busy, RowFits, Reviewed
  <2>7. TwinInv
    BY <2>1, <2>3 DEF TwinInv, Passed, AtSubmit, Reviewed, Idle
  <2> QED
    BY <2>4, <2>5, <2>6, <2>7 DEF Inv
<1> QED
  BY <1>1, InvPreserved, PTL DEF Spec

\* Every variable keeps its type.
THEOREM OnboardingTypeCorrect == Spec => []TypeOK
<1>1. Inv => TypeOK
  BY DEF Inv
<1> QED
  BY <1>1, OnboardingInvariance, PTL

\* Every customer number on a row, an account and a login is one that SAP gave
\* to this application, through races, repeated approvals and deaths.
THEOREM NumbersComeFromSap == Spec => []NumbersAreSaps
<1>1. Inv => NumbersAreSaps
  BY DEF Inv, SapInv
<1> QED
  BY <1>1, OnboardingInvariance, PTL

\* What is reviewed has its documents and the evidence of its own number,
\* unless two calls have been on the application at once.
THEOREM ReviewsAreSound == Spec => []QuietReviewIsSound
<1>1. Inv => QuietReviewIsSound
  BY DEF Inv, QuietInv, Quiet, RowFits, QuietReviewIsSound, UnderReview, Complete, Reviewed
<1> QED
  BY <1>1, OnboardingInvariance, PTL

\* Two reviews of one number at once come of the gap between the guard and
\* the first write, and of nothing else: of applications that no two calls were
\* on at once.
THEOREM DuplicatesWereTwins == Spec => []DuplicatesAreTwins
<1>1. Inv => DuplicatesAreTwins
  BY DEF Inv, TwinInv, Passed, DuplicatesAreTwins, Duplicates, UnderReview, Reviewed
<1> QED
  BY <1>1, OnboardingInvariance, PTL

ApprovedHasNumber ==
  \A a \in Applications : row[a].status = "approved" => row[a].kunnr # 0

LEMMA ApprovedStep ==
  ASSUME Inv, ApprovedHasNumber, [Next]_vars
  PROVE  ApprovedHasNumber'
<1> DEFINE Kept(a) == row'[a].status = "approved" =>
             row[a].status = "approved" /\ row'[a].kunnr = row[a].kunnr
<1> USE DEF Does, Writes
<1>i. TypeOK /\ row \in [Applications -> Row] /\ call \in [Callers -> Call \union {Idle}]
  BY DEF Inv, TypeOK
<1>r. \A a \in Applications : DOMAIN row[a] = {"status", "gstin", "evidence", "documents", "kunnr"}
  BY <1>i DEF Row
<1>k. ASSUME \A a \in Applications : Kept(a) PROVE ApprovedHasNumber'
  BY <1>k DEF ApprovedHasNumber
<1>w. ASSUME NEW a, NEW r, row' = [row EXCEPT ![a] = r],
             a \in Applications => r.status = row[a].status /\ r.kunnr = row[a].kunnr
      PROVE  ApprovedHasNumber'
  BY <1>w, <1>i, <1>k
<1>1. ASSUME NEW c \in Callers,
             \/ SaveStep(c) \/ StoreDocument(c)
             \/ \E passes \in BOOLEAN : StoreVerification(c, passes)
      PROVE  ApprovedHasNumber'
  <2> DEFINE a == call[c].a
  <2>1. CASE SaveStep(c)
    <3> DEFINE e == IF call[c].gstin = call[c].old THEN row[a].evidence ELSE NoEvidence
               r == [row[a] EXCEPT !.gstin = call[c].gstin, !.evidence = e]
    <3>1. row' = [row EXCEPT ![a] = r]
      BY <2>1 DEF SaveStep
    <3>2. a \in Applications => r.status = row[a].status /\ r.kunnr = row[a].kunnr
      BY <1>r
    <3> HIDE DEF r, a
    <3> QED
      BY <1>w, <3>1, <3>2
  <2>2. CASE StoreDocument(c)
    <3> DEFINE r == [row[a] EXCEPT !.documents = (call[c].does = "upload")]
    <3>1. row' = [row EXCEPT ![a] = r]
      BY <2>2 DEF StoreDocument
    <3>2. a \in Applications => r.status = row[a].status /\ r.kunnr = row[a].kunnr
      BY <1>r
    <3> HIDE DEF r, a
    <3> QED
      BY <1>w, <3>1, <3>2
  <2>3. ASSUME NEW passes \in BOOLEAN, StoreVerification(c, passes)
        PROVE  ApprovedHasNumber'
    <3> DEFINE r == [row[a] EXCEPT !.evidence = [gstin |-> call[c].gstin, passes |-> passes]]
    <3>1. row' = [row EXCEPT ![a] = r]
      BY <2>3 DEF StoreVerification
    <3>2. a \in Applications => r.status = row[a].status /\ r.kunnr = row[a].kunnr
      BY <1>r
    <3> HIDE DEF r, a
    <3> QED
      BY <1>w, <3>1, <3>2
  <2> QED
    BY <1>1, <2>1, <2>2, <2>3
<1>2. ASSUME NEW c \in Callers, Submit(c) \/ Queue(c) \/ RequestMoreInfo(c) \/ RejectApplication(c)
      PROVE  ApprovedHasNumber'
  <2>1. PICK a, s : s # "approved" /\ row' = [row EXCEPT ![a] = [row[a] EXCEPT !.status = s]]
    BY <1>2 DEF Submit, Queue, RequestMoreInfo, RejectApplication
  <2> QED
    BY <1>i, <1>r, <1>k, <2>1
<1>3. ASSUME NEW c \in Callers, RecordApproval(c) PROVE ApprovedHasNumber'
  <2>1. call[c].kunnr \in Numbers
    BY <1>3, <1>i, CallFields DEF RecordApproval
  <2>2. call[c].kunnr # 0
    BY <2>1, OnboardingAssumption DEF Numbers, OnboardingAssumption
  <2>3. row' = [row EXCEPT ![call[c].a] =
                  [row[call[c].a] EXCEPT !.status = "approved", !.kunnr = call[c].kunnr]]
    BY <1>3 DEF RecordApproval
  <2> QED
    BY <1>i, <1>r, <2>2, <2>3 DEF ApprovedHasNumber
<1>4. ASSUME UNCHANGED row PROVE ApprovedHasNumber'
  BY <1>4 DEF ApprovedHasNumber
<1>5. ASSUME NEW c \in Callers, Proceed(c) PROVE ApprovedHasNumber'
  <2>1. CASE GuardDuplicate(c) \/ CheckApproval(c) \/ CreateCustomer(c) \/ SapRefuses(c)
               \/ RegisterCustomerAccount(c) \/ ProvisionPortalAccess(c)
    BY <2>1, <1>4 DEF GuardDuplicate, CheckApproval, CreateCustomer, SapRefuses,
                      RegisterCustomerAccount, ProvisionPortalAccess
  <2> QED
    BY <1>5, <1>1, <1>2, <1>3, <2>1 DEF Proceed
<1>6. ASSUME NEW c \in Callers, CreateCustomerUnheard(c) \/ CallDies(c) PROVE ApprovedHasNumber'
  BY <1>6, <1>4 DEF CreateCustomerUnheard, CallDies
<1>7. ASSUME NEW c \in Callers, NEW a \in Applications,
             \/ \E gstin \in Gstins : ReadStep(c, a, gstin)
             \/ ReadGstin(c, a)
             \/ \E what \in {"upload", "remove"} : ReadForDocument(c, a, what)
             \/ \E register \in BOOLEAN : CheckSubmission(c, a, register)
             \/ CheckDecision(c, a, "askMore", "draft")
             \/ CheckDecision(c, a, "reject", "rejected")
             \/ OpenApproval(c, a)
      PROVE  ApprovedHasNumber'
  BY <1>7, <1>4 DEF ReadStep, ReadGstin, ReadForDocument, CheckSubmission, CheckDecision,
                    OpenApproval, Edits, Opens
<1> QED
  BY <1>4, <1>5, <1>6, <1>7 DEF Next, vars

\* No two approved applications have customers of one GSTIN, whatever calls
\* overlap: a row's number is that of one customer, SAP made that customer for
\* this application, and has no other with its GSTIN.
THEOREM GstinHasOneApproval == Spec => []GstinApprovedOnce
<1>1. Inv /\ ApprovedHasNumber => GstinApprovedOnce
  <2> SUFFICES ASSUME Inv, ApprovedHasNumber PROVE GstinApprovedOnce
    OBVIOUS
  <2>1. ASSUME NEW a \in Applications, row[a].status = "approved"
        PROVE  /\ \E k \in customers : k.kunnr = row[a].kunnr /\ k.a = a
               /\ \A k \in customers : k.kunnr = row[a].kunnr => k.a = a
    BY <2>1 DEF Inv, SapInv, NumbersAreSaps, ApprovedHasNumber, CustomersDiffer
  <2>2. \A k1, k2 \in customers : k1.gstin = k2.gstin => k1 = k2
    BY DEF Inv, SapInv, CustomersDiffer
  <2> QED
    BY <2>1, <2>2 DEF GstinApprovedOnce
<1>2. Init => ApprovedHasNumber
  BY DEF Init, ApprovedHasNumber
<1>3. Inv /\ ApprovedHasNumber /\ [Next]_vars => ApprovedHasNumber'
  BY ApprovedStep
<1> QED
  BY <1>1, <1>2, <1>3, OnboardingInvariance, PTL DEF Spec
=============================================================================
