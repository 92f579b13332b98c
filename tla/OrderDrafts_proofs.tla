------------------------- MODULE OrderDrafts_proofs -------------------------
(***************************************************************************)
(* Theorems about OrderDrafts, for any drafts, requests and bounds.        *)
(***************************************************************************)
EXTENDS OrderDrafts, TLAPS

\* A row with an order is a submitted one, and a request that is to mark a
\* draft has SAP's answer.
OrderMeansSubmitted == \A d \in Drafts : draft[d].order # 0 => draft[d].status = "Submitted"
MarksAreAnswered ==
  \A b \in Buyers : call[b].does = "mark" => <<call[b].d, call[b].order>> \in answered

NameInv == OrderMeansSubmitted /\ MarksAreAnswered /\ SubmittedNamesItsOrder

Rewrites(b, d) == call[b].does \in Rewriting /\ call[b].d = d
Saves(b, d) == call[b].does \in {"deleteLines", "createLines"} /\ call[b].d = d

\* How far the rewriting of a draft has come when nothing has disturbed it:
\* one request has it in hand, its header is the one that request wrote, and
\* the old lines are gone before the new ones come.
InOneHand(d) ==
  /\ \A b1, b2 \in Buyers : Rewrites(b1, d) /\ Rewrites(b2, d) => b1 = b2
  /\ \A b \in Buyers : Saves(b, d) =>
       /\ draft[d] # NoDraft /\ draft[d].header = call[b].v
       /\ call[b].does = "createLines" => LinesOf(d) = {}
  /\ draft[d] # NoDraft /\ ~Rewritten(d) => LinesOf(d) = {<<d, draft[d].header>>}

QuietInv == \A d \in Drafts \ disturbed : InOneHand(d)

Inv == TypeOK /\ NameInv /\ QuietInv

----------------------------------------------------------------------------
(* The book's types                                                        *)

LEMMA CreateTypes ==
  ASSUME BookTypeOK, NEW po \in Pos \union {NoPo}, NEW value \in Values,
         CreateSalesOrder(po, value)
  PROVE  BookTypeOK' /\ OrderOf(po) \in 1..MaxOrders
<1> USE BookAssumption DEF BookAssumption
<1>1. CASE ~IsNew(po)
  <2>1. UNCHANGED bookVars
    BY <1>1 DEF CreateSalesOrder
  <2>2. BookTypeOK'
    BY <2>1 DEF bookVars, BookTypeOK
  <2>3. OrderOf(po) \in 1..MaxOrders
    BY <1>1 DEF BookTypeOK, OrderOf, IsNew
  <2> QED
    BY <2>2, <2>3
<1>2. CASE IsNew(po)
  <2> DEFINE new == [po |-> po, value |-> value, status |-> "Open",
                     credit |-> IF Fails(value) THEN "CreditHold" ELSE "Confirmed"]
  <2>1. /\ placed < MaxOrders /\ placed' = placed + 1
        /\ orders' = [orders EXCEPT ![placed + 1] = new]
        /\ byPo' = [p \in Pos |-> IF p = po THEN placed + 1 ELSE byPo[p]]
        /\ utilized' = IF Fails(value) THEN utilized ELSE utilized + value
        /\ UNCHANGED <<blocked, blocks, despatched>>
    BY <1>2 DEF CreateSalesOrder
  <2>2. new \in Order
    BY DEF Order
  <2> HIDE DEF new
  <2>3. BookTypeOK'
    BY <2>1, <2>2 DEF BookTypeOK
  <2> QED
    BY <1>2, <2>1, <2>3 DEF OrderOf, BookTypeOK
<1> QED
  BY <1>1, <1>2

LEMMA CancelTypes ==
  ASSUME BookTypeOK, NEW o \in Placed, CancelSalesOrder(o)
  PROVE  BookTypeOK'
<1> USE BookAssumption DEF BookAssumption
<1> DEFINE new == [orders[o] EXCEPT !.status = "Closed"]
<1>1. /\ orders[o].status = "Open" /\ o \in 1..MaxOrders
      /\ utilized' = IF Held(o) THEN utilized ELSE utilized - orders[o].value
      /\ orders' = [orders EXCEPT ![o] = new]
      /\ byPo' = [p \in Pos |-> IF p = orders[o].po THEN 0 ELSE byPo[p]]
      /\ UNCHANGED <<placed, blocked, blocks, despatched>>
  BY DEF CancelSalesOrder, Live, Closed, ForgetPo, Placed, BookTypeOK
<1>2. orders[o] \in Order
  BY <1>1 DEF BookTypeOK, NoOrder
<1>3. new \in Order /\ orders[o].value \in Nat
  BY <1>2 DEF Order
<1> HIDE DEF new
<1>4. utilized' \in Int
  BY <1>1, <1>3 DEF BookTypeOK
<1>5. byPo' \in [Pos -> 0..MaxOrders]
  BY <1>1 DEF BookTypeOK
<1> QED
  BY <1>1, <1>3, <1>4, <1>5 DEF BookTypeOK

----------------------------------------------------------------------------
(* Requests                                                                *)

LEMMA CallFields ==
  ASSUME NEW x \in Call \union {Idle}
  PROVE  /\ x.does \in Rewriting \union {"mark"} => x.d \in Drafts
         /\ x.does \in {"deleteLines", "createLines"} => x.v \in 1..MaxSaves
         /\ x.does = "mark" => x.order \in 1..MaxOrders
         /\ x # Idle <=> x.does \in Rewriting \union {"mark"}
BY DEF Call, Idle, Rewriting

LEMMA CallMoves ==
  ASSUME NEW d \in Drafts
  PROVE  /\ \A v \in 1..MaxSaves : [does |-> "deleteLines", d |-> d, v |-> v] \in Call
         /\ \A v \in 1..MaxSaves : [does |-> "createLines", d |-> d, v |-> v] \in Call
         /\ [does |-> "dropLines", d |-> d] \in Call
         /\ [does |-> "dropDraft", d |-> d] \in Call
         /\ \A o \in 1..MaxOrders : [does |-> "mark", d |-> d, order |-> o] \in Call
BY DEF Call

LEMMA DraftFields ==
  ASSUME NEW x \in Draft
  PROVE  /\ x.status \in {"Draft", "Submitted"} /\ x # NoDraft
         /\ x.order \in 0..MaxOrders /\ x.header \in 1..MaxSaves
BY DEF Draft, NoDraft

LEMMA DraftMarked ==
  ASSUME NEW x \in Draft, NEW o \in 1..MaxOrders
  PROVE  LET y == [x EXCEPT !.status = "Submitted", !.order = o]
         IN y \in Draft /\ y.status = "Submitted" /\ y.order = o /\ y.header = x.header
<1>1. o \in 0..MaxOrders
  BY BookAssumption DEF BookAssumption
<1>2. [x EXCEPT !.status = "Submitted", !.order = o] \in Draft
  BY <1>1 DEF Draft
<1> QED
  BY <1>2 DEF Draft

LEMMA AbsentFields == NoDraft.status = "absent" /\ NoDraft.order = 0
BY DEF NoDraft

----------------------------------------------------------------------------
(* A step that one request takes on one draft                              *)

\* What the steps have in common: request b moves to next, it is about draft
\* d, and only d's row and lines change.
Step(b, d, next, new, ls) ==
  /\ call' = [call EXCEPT ![b] = next]
  /\ draft' = [draft EXCEPT ![d] = new]
  /\ lines' = (lines \ LinesOf(d)) \union ls

LEMMA StepEffect ==
  ASSUME TypeOK, NEW b \in Buyers, NEW d \in Drafts,
         NEW next \in Call \union {Idle}, NEW new \in Draft \union {NoDraft},
         NEW ls \in SUBSET ({d} \X (1..MaxSaves)), Step(b, d, next, new, ls)
  PROVE  /\ call' \in [Buyers -> Call \union {Idle}]
         /\ call'[b] = next /\ \A c \in Buyers : c # b => call'[c] = call[c]
         /\ draft' \in [Drafts -> Draft \union {NoDraft}]
         /\ draft'[d] = new /\ \A x \in Drafts : x # d => draft'[x] = draft[x]
         /\ lines' \in SUBSET (Drafts \X (1..MaxSaves))
         /\ LinesOf(d)' = ls /\ \A x \in Drafts : x # d => LinesOf(x)' = LinesOf(x)
<1>1. /\ call' \in [Buyers -> Call \union {Idle}]
      /\ call'[b] = next /\ \A c \in Buyers : c # b => call'[c] = call[c]
  BY DEF Step, TypeOK
<1>2. /\ draft' \in [Drafts -> Draft \union {NoDraft}]
      /\ draft'[d] = new /\ \A x \in Drafts : x # d => draft'[x] = draft[x]
  BY DEF Step, TypeOK
<1>3. \A l \in ls : l \in Drafts \X (1..MaxSaves) /\ l[1] = d
  OBVIOUS
<1>4. lines' \in SUBSET (Drafts \X (1..MaxSaves))
  BY <1>3 DEF Step, TypeOK
<1>5. LinesOf(d)' = ls
  BY <1>3 DEF Step, LinesOf
<1>6. ASSUME NEW x \in Drafts, x # d PROVE LinesOf(x)' = LinesOf(x)
  BY <1>3, <1>6 DEF Step, LinesOf
<1> QED
  BY <1>1, <1>2, <1>4, <1>5, <1>6

\* Drafts that the request is not about stay as whole as they were.
LEMMA OthersStayWhole ==
  ASSUME TypeOK, QuietInv, NEW b \in Buyers, NEW d \in Drafts,
         NEW next \in Call \union {Idle}, NEW new \in Draft \union {NoDraft},
         NEW ls \in SUBSET ({d} \X (1..MaxSaves)), Step(b, d, next, new, ls),
         call[b].does \in Rewriting => call[b].d = d,
         next.does \in Rewriting => next.d = d,
         disturbed \subseteq disturbed',
         NEW x \in Drafts \ disturbed', x # d
  PROVE  InOneHand(x)'
<1>1. /\ call'[b] = next /\ \A c \in Buyers : c # b => call'[c] = call[c]
      /\ draft'[x] = draft[x] /\ LinesOf(x)' = LinesOf(x)
  BY StepEffect
<1>2. InOneHand(x)
  BY DEF QuietInv
<1>3. \A c \in Buyers : /\ Rewrites(c, x)' <=> Rewrites(c, x)
                        /\ Rewrites(c, x) => call'[c] = call[c]
  BY <1>1 DEF Rewrites
<1>4. Rewritten(x)' <=> Rewritten(x)
  BY <1>3 DEF Rewritten, Rewrites
<1>5. \A c \in Buyers : Saves(c, x)' => Saves(c, x) /\ call'[c] = call[c]
  BY <1>3 DEF Saves, Rewrites, Rewriting
<1> QED
  BY <1>1, <1>2, <1>3, <1>4, <1>5 DEF InOneHand

\* When the request was alone with its draft, it still is.
LEMMA StaysAlone ==
  ASSUME TypeOK, NEW b \in Buyers, NEW d \in Drafts,
         NEW next \in Call \union {Idle}, NEW new \in Draft \union {NoDraft},
         NEW ls \in SUBSET ({d} \X (1..MaxSaves)), Step(b, d, next, new, ls),
         \A c \in Buyers : c # b => ~Rewrites(c, d)
  PROVE  /\ \A c \in Buyers : c # b => ~Rewrites(c, d)'
         /\ next.does \notin Rewriting => ~Rewritten(d)'
<1>1. call'[b] = next /\ \A c \in Buyers : c # b => call'[c] = call[c]
  BY StepEffect
<1> QED
  BY <1>1 DEF Rewrites, Rewritten

LEMMA SavingKeepsWhole ==
  ASSUME TypeOK, NEW b \in Buyers, NEW d \in Drafts,
         NEW next \in Call \union {Idle}, NEW new \in Draft \union {NoDraft},
         NEW ls \in SUBSET ({d} \X (1..MaxSaves)), Step(b, d, next, new, ls),
         \A c \in Buyers : c # b => ~Rewrites(c, d),
         next.does \in Rewriting => next.d = d,
         next.does \in {"deleteLines", "createLines"} => new # NoDraft /\ new.header = next.v,
         next.does = "createLines" => ls = {},
         next.does \notin Rewriting /\ new # NoDraft => ls = {<<d, new.header>>}
  PROVE  InOneHand(d)'
<1>1. /\ call'[b] = next /\ draft'[d] = new /\ LinesOf(d)' = ls
  BY StepEffect
<1>2. /\ \A c \in Buyers : c # b => ~Rewrites(c, d)'
      /\ next.does \notin Rewriting => ~Rewritten(d)'
  BY StaysAlone
<1>3. next.does \in Rewriting => Rewritten(d)'
  BY <1>1 DEF Rewritten
<1>4. \A c \in Buyers : Saves(c, d)' => c = b
  BY <1>2 DEF Saves, Rewrites, Rewriting
<1> QED
  BY <1>1, <1>2, <1>3, <1>4 DEF InOneHand, Saves

\* A request that moves without touching a draft's row or lines, and is not
\* rewriting one.
LEMMA NothingRewritten ==
  ASSUME TypeOK, QuietInv, NEW b \in Buyers, NEW next \in Call \union {Idle},
         call' = [call EXCEPT ![b] = next],
         call[b].does \notin Rewriting, next.does \notin Rewriting,
         UNCHANGED lines, disturbed \subseteq disturbed',
         \A d \in Drafts : /\ draft'[d] = NoDraft <=> draft[d] = NoDraft
                           /\ draft'[d].header = draft[d].header
  PROVE  QuietInv'
<1>1. call'[b] = next /\ \A c \in Buyers : c # b => call'[c] = call[c]
  BY DEF TypeOK
<1> SUFFICES ASSUME NEW d \in Drafts \ disturbed' PROVE InOneHand(d)'
  BY DEF QuietInv
<1>2. InOneHand(d)
  BY DEF QuietInv
<1>3. \A c \in Buyers : /\ Rewrites(c, d)' <=> Rewrites(c, d)
                        /\ Rewrites(c, d) => call'[c] = call[c]
  BY <1>1 DEF Rewrites
<1>4. Rewritten(d)' <=> Rewritten(d)
  BY <1>3 DEF Rewritten, Rewrites
<1>5. \A c \in Buyers : Saves(c, d)' => Saves(c, d) /\ call'[c] = call[c]
  BY <1>3 DEF Saves, Rewrites, Rewriting
<1>6. LinesOf(d)' = LinesOf(d)
  BY DEF LinesOf
<1> QED
  BY <1>2, <1>3, <1>4, <1>5, <1>6 DEF InOneHand

\* The names on the rows stay right while rows keep theirs, or lose them.
LEMMA NameFrame ==
  ASSUME TypeOK, NameInv, answered \subseteq answered',
         \A d \in Drafts : \/ draft'[d] = NoDraft
                           \/ draft'[d].order = 0 /\ draft'[d].status = "Draft"
                           \/ /\ draft'[d].order = draft[d].order
                              /\ draft'[d].status = draft[d].status,
         \A b \in Buyers : call'[b].does = "mark" =>
           call'[b] = call[b] \/ <<call'[b].d, call'[b].order>> \in answered'
  PROVE  NameInv'
<1>1. OrderMeansSubmitted'
  BY AbsentFields DEF OrderMeansSubmitted, NameInv
<1>2. MarksAreAnswered'
  BY DEF MarksAreAnswered, NameInv
<1>3. SubmittedNamesItsOrder'
  <2> SUFFICES ASSUME NEW d \in Drafts, draft'[d].status = "Submitted"
               PROVE  /\ <<d, draft'[d].order>> \in answered'
                      /\ \A other \in Drafts \ {d} : draft'[other].order # draft'[d].order
    BY DEF SubmittedNamesItsOrder
  <2>1. draft'[d].order = draft[d].order /\ draft[d].status = "Submitted"
    BY AbsentFields
  <2>2. /\ <<d, draft[d].order>> \in answered
        /\ \A other \in Drafts \ {d} : draft[other].order # draft[d].order
    BY <2>1 DEF NameInv, SubmittedNamesItsOrder
  <2>3. draft[d].order # 0
    BY <2>2, BookAssumption DEF TypeOK, BookAssumption
  <2> QED
    BY <2>1, <2>2, <2>3, AbsentFields
<1> QED
  BY <1>1, <1>2, <1>3 DEF NameInv

----------------------------------------------------------------------------
(* Every step                                                              *)

\* A statement of a save or a deletion: of a draft that nothing else disturbs
\* it leaves what the next statement expects.
LEMMA RewriteStep ==
  ASSUME Inv, NEW b \in Buyers, NEW d \in Drafts,
         NEW next \in Call \union {Idle}, NEW new \in Draft \union {NoDraft},
         NEW ls \in SUBSET ({d} \X (1..MaxSaves)), Step(b, d, next, new, ls),
         UNCHANGED <<bookVars, answered>>, saves' \in 0..MaxSaves,
         draftFaults' \in 0..MaxDraftFaults, disturbed' \in SUBSET Drafts,
         disturbed \subseteq disturbed',
         call[b].does \in Rewriting => call[b].d = d,
         next.does \in Rewriting => next.d = d,
         next.does # "mark",
         \/ new = NoDraft
         \/ new.order = 0 /\ new.status = "Draft"
         \/ new.order = draft[d].order /\ new.status = draft[d].status,
         d \notin disturbed' =>
           /\ \A c \in Buyers : c # b => ~Rewrites(c, d)
           /\ next.does \in {"deleteLines", "createLines"} => new # NoDraft /\ new.header = next.v
           /\ next.does = "createLines" => ls = {}
           /\ next.does \notin Rewriting /\ new # NoDraft => ls = {<<d, new.header>>}
  PROVE  Inv'
<1>i. TypeOK /\ NameInv /\ QuietInv
  BY DEF Inv
<1>1. /\ call' \in [Buyers -> Call \union {Idle}]
      /\ call'[b] = next /\ \A c \in Buyers : c # b => call'[c] = call[c]
      /\ draft' \in [Drafts -> Draft \union {NoDraft}]
      /\ draft'[d] = new /\ \A x \in Drafts : x # d => draft'[x] = draft[x]
      /\ lines' \in SUBSET (Drafts \X (1..MaxSaves))
  BY <1>i, StepEffect
<1>2. BookTypeOK'
  BY <1>i DEF TypeOK, BookTypeOK, bookVars
<1>3. TypeOK'
  BY <1>i, <1>1, <1>2 DEF TypeOK
<1>4. NameInv'
  BY <1>i, <1>1, NameFrame
<1>5. ASSUME NEW x \in Drafts \ disturbed' PROVE InOneHand(x)'
  <2>1. CASE x = d
    BY <2>1, <1>i, SavingKeepsWhole
  <2>2. CASE x # d
    BY <2>2, <1>i, OthersStayWhole
  <2> QED
    BY <2>1, <2>2
<1>6. QuietInv'
  BY <1>5 DEF QuietInv
<1> QED
  BY <1>3, <1>4, <1>6 DEF Inv

LEMMA InvPreserved ==
  ASSUME Inv, Next
  PROVE  Inv'
<1> USE BookAssumption, DraftAssumption DEF BookAssumption, DraftAssumption
<1>i. TypeOK /\ NameInv /\ QuietInv
  BY DEF Inv
<1>t. /\ BookTypeOK
      /\ draft \in [Drafts -> Draft \union {NoDraft}]
      /\ lines \in SUBSET (Drafts \X (1..MaxSaves))
      /\ saves \in 0..MaxSaves
      /\ call \in [Buyers -> Call \union {Idle}]
      /\ disturbed \in SUBSET Drafts
      /\ answered \in SUBSET (Drafts \X (1..MaxOrders))
      /\ draftFaults \in 0..MaxDraftFaults
  BY <1>i DEF TypeOK
<1>l. ASSUME NEW d \in Drafts
      PROVE  /\ LinesOf(d) \in SUBSET ({d} \X (1..MaxSaves))
             /\ (lines \ LinesOf(d)) \union LinesOf(d) = lines
             /\ (lines \ LinesOf(d)) \union {} = lines \ LinesOf(d)
  BY <1>t DEF LinesOf
<1>n. ASSUME NEW b \in Buyers, NEW d \in Drafts, d \notin disturbed, ~Rewritten(d)
      PROVE  \A c \in Buyers : c # b => ~Rewrites(c, d)
  BY <1>n DEF Rewritten, Rewrites
<1>o. ASSUME NEW b \in Buyers, NEW d \in Drafts, d \notin disturbed, Rewrites(b, d)
      PROVE  InOneHand(d) /\ \A c \in Buyers : c # b => ~Rewrites(c, d)
  BY <1>o, <1>i DEF QuietInv, InOneHand
<1>d. ASSUME NEW d \in Drafts, Disturb(d)
      PROVE  /\ disturbed' \in SUBSET Drafts /\ disturbed \subseteq disturbed'
             /\ d \notin disturbed' => d \notin disturbed /\ ~Rewritten(d)
  BY <1>d, <1>t DEF Disturb
<1>1. ASSUME NEW b \in Buyers, NEW d \in Drafts, CreateDraft(b, d) PROVE Inv'
  <2> DEFINE new == [status |-> "Draft", order |-> 0, header |-> saves + 1]
             next == [does |-> "deleteLines", d |-> d, v |-> saves + 1]
  <2>1. /\ call[b].does = "nothing" /\ saves < MaxSaves /\ ~Rewritten(d)
        /\ draft' = [draft EXCEPT ![d] = new] /\ call' = [call EXCEPT ![b] = next]
        /\ saves' = saves + 1
        /\ UNCHANGED <<bookVars, lines, disturbed, answered, draftFaults>>
    BY <1>1 DEF CreateDraft, Goes, Idle
  <2>2. /\ new \in Draft /\ new.order = 0 /\ new.status = "Draft" /\ new.header = saves + 1
        /\ next \in Call /\ next.does = "deleteLines" /\ next.d = d /\ next.v = saves + 1
        /\ saves + 1 \in 0..MaxSaves
    BY <2>1, <1>t DEF Draft, Call
  <2>3. new # NoDraft
    BY <2>2, DraftFields
  <2> HIDE DEF new, next
  <2>4. Step(b, d, next, new, LinesOf(d))
    BY <2>1, <1>l DEF Step
  <2>5. d \notin disturbed' => \A c \in Buyers : c # b => ~Rewrites(c, d)
    BY <2>1, <1>n
  <2> QED
    BY <2>1, <2>2, <2>3, <2>4, <2>5, <1>l, <1>t, RewriteStep DEF Rewriting
<1>2. ASSUME NEW b \in Buyers, NEW d \in Drafts, UpdateHeader(b, d) PROVE Inv'
  <2> DEFINE new == [draft[d] EXCEPT !.header = saves + 1]
             next == [does |-> "deleteLines", d |-> d, v |-> saves + 1]
  <2>1. /\ call[b].does = "nothing" /\ saves < MaxSaves /\ draft[d].status = "Draft"
        /\ draft' = [draft EXCEPT ![d] = new] /\ call' = [call EXCEPT ![b] = next]
        /\ saves' = saves + 1 /\ Disturb(d)
        /\ UNCHANGED <<bookVars, lines, answered, draftFaults>>
    BY <1>2 DEF UpdateHeader, Goes, Idle, Open
  <2>2. draft[d] \in Draft
    BY <2>1, <1>t, AbsentFields
  <2>3. /\ new \in Draft /\ new.order = draft[d].order /\ new.status = draft[d].status
        /\ new.header = saves + 1
        /\ next \in Call /\ next.does = "deleteLines" /\ next.d = d /\ next.v = saves + 1
        /\ saves + 1 \in 0..MaxSaves
    BY <2>1, <2>2, <1>t DEF Draft, Call
  <2>4. new # NoDraft
    BY <2>3, DraftFields
  <2> HIDE DEF new, next
  <2>5. Step(b, d, next, new, LinesOf(d))
    BY <2>1, <1>l DEF Step
  <2>6. d \notin disturbed' => \A c \in Buyers : c # b => ~Rewrites(c, d)
    BY <2>1, <1>n, <1>d
  <2>7. disturbed' \in SUBSET Drafts /\ disturbed \subseteq disturbed'
    BY <2>1, <1>d
  <2> QED
    BY <2>1, <2>3, <2>4, <2>5, <2>6, <2>7, <1>l, <1>t, RewriteStep DEF Rewriting
<1>3. ASSUME NEW b \in Buyers, NEW d \in Drafts, FindDraft(b, d) PROVE Inv'
  <2> DEFINE next == [does |-> "dropLines", d |-> d]
  <2>1. /\ call[b].does = "nothing" /\ call' = [call EXCEPT ![b] = next] /\ Disturb(d)
        /\ UNCHANGED <<bookVars, draft, lines, saves, answered, draftFaults>>
    BY <1>3 DEF FindDraft, Goes, Idle
  <2>2. next \in Call /\ next.does = "dropLines" /\ next.d = d
    BY DEF Call
  <2> HIDE DEF next
  <2>3. Step(b, d, next, draft[d], LinesOf(d))
    BY <2>1, <1>l, <1>t DEF Step
  <2>4. d \notin disturbed' => \A c \in Buyers : c # b => ~Rewrites(c, d)
    BY <2>1, <1>n, <1>d
  <2>5. disturbed' \in SUBSET Drafts /\ disturbed \subseteq disturbed'
    BY <2>1, <1>d
  <2> QED
    BY <2>1, <2>2, <2>3, <2>4, <2>5, <1>l, <1>t, RewriteStep DEF Rewriting
<1>4. ASSUME NEW b \in Buyers, DeleteLines(b) PROVE Inv'
  <2> DEFINE d == call[b].d  next == [call[b] EXCEPT !.does = "createLines"]
  <2>1. /\ call[b].does = "deleteLines" /\ call' = [call EXCEPT ![b] = next]
        /\ lines' = lines \ LinesOf(d)
        /\ UNCHANGED <<bookVars, draft, saves, disturbed, answered, draftFaults>>
    BY <1>4 DEF DeleteLines, Does, Goes
  <2>2. d \in Drafts /\ next \in Call /\ next.does = "createLines" /\ next.d = d
        /\ next.v = call[b].v
    BY <2>1, <1>t DEF Call, Idle
  <2>3. Rewrites(b, d) /\ Saves(b, d)
    BY <2>1 DEF Rewrites, Saves, Rewriting
  <2> HIDE DEF next, d
  <2>4. Step(b, d, next, draft[d], {})
    BY <2>1, <2>2, <1>l, <1>t DEF Step
  <2>5. d \notin disturbed' =>
          /\ \A c \in Buyers : c # b => ~Rewrites(c, d)
          /\ draft[d] # NoDraft /\ draft[d].header = next.v
    BY <2>1, <2>2, <2>3, <1>o DEF InOneHand
  <2>6. call[b].d = d
    BY DEF d
  <2> QED
    BY <2>1, <2>2, <2>4, <2>5, <2>6, <1>t, RewriteStep DEF Rewriting
<1>5. ASSUME NEW b \in Buyers, CreateLines(b) PROVE Inv'
  <2> DEFINE d == call[b].d
             ls == IF draft[d] = NoDraft THEN LinesOf(d) ELSE LinesOf(d) \union {<<d, call[b].v>>}
  <2>1. /\ call[b].does = "createLines" /\ call' = [call EXCEPT ![b] = Idle]
        /\ lines' = IF draft[d] = NoDraft THEN lines ELSE lines \union {<<d, call[b].v>>}
        /\ UNCHANGED <<bookVars, draft, saves, disturbed, answered, draftFaults>>
    BY <1>5 DEF CreateLines, Does, Goes
  <2>2. d \in Drafts /\ call[b].v \in 1..MaxSaves /\ Idle.does = "nothing"
    BY <2>1, <1>t, CallFields DEF Rewriting, Idle
  <2>3. Rewrites(b, d) /\ Saves(b, d)
    BY <2>1 DEF Rewrites, Saves, Rewriting
  <2>4. ls \in SUBSET ({d} \X (1..MaxSaves)) /\ lines' = (lines \ LinesOf(d)) \union ls
    BY <2>1, <2>2, <1>l
  <2>5. Step(b, d, Idle, draft[d], ls)
    BY <2>1, <2>2, <2>4, <1>t DEF Step
  <2>6. d \notin disturbed' =>
          /\ \A c \in Buyers : c # b => ~Rewrites(c, d)
          /\ ls = {<<d, draft[d].header>>}
    BY <2>1, <2>2, <2>3, <1>o DEF InOneHand
  <2>7. call[b].d = d
    BY DEF d
  <2> HIDE DEF d, ls
  <2> QED
    BY <2>1, <2>2, <2>4, <2>5, <2>6, <2>7, <1>t, RewriteStep DEF Rewriting
<1>6. ASSUME NEW b \in Buyers, DropLines(b) PROVE Inv'
  <2> DEFINE d == call[b].d  next == [call[b] EXCEPT !.does = "dropDraft"]
  <2>1. /\ call[b].does = "dropLines" /\ call' = [call EXCEPT ![b] = next]
        /\ lines' = lines \ LinesOf(d)
        /\ UNCHANGED <<bookVars, draft, saves, disturbed, answered, draftFaults>>
    BY <1>6 DEF DropLines, Does, Goes
  <2>2. d \in Drafts /\ next \in Call /\ next.does = "dropDraft" /\ next.d = d
    BY <2>1, <1>t DEF Call, Idle
  <2>3. Rewrites(b, d)
    BY <2>1 DEF Rewrites, Rewriting
  <2> HIDE DEF next, d
  <2>4. Step(b, d, next, draft[d], {})
    BY <2>1, <2>2, <1>l, <1>t DEF Step
  <2>5. d \notin disturbed' => \A c \in Buyers : c # b => ~Rewrites(c, d)
    BY <2>1, <2>2, <2>3, <1>o
  <2>6. call[b].d = d
    BY DEF d
  <2> QED
    BY <2>1, <2>2, <2>4, <2>5, <2>6, <1>t, RewriteStep DEF Rewriting
<1>7. ASSUME NEW b \in Buyers, DropDraft(b) PROVE Inv'
  <2> DEFINE d == call[b].d
  <2>1. /\ call[b].does = "dropDraft" /\ call' = [call EXCEPT ![b] = Idle]
        /\ draft' = [draft EXCEPT ![d] = NoDraft]
        /\ lines' = lines \ LinesOf(d)
        /\ UNCHANGED <<bookVars, saves, disturbed, answered, draftFaults>>
    BY <1>7 DEF DropDraft, Does, Goes
  <2>2. d \in Drafts /\ Idle.does = "nothing"
    BY <2>1, <1>t, CallFields DEF Rewriting, Idle
  <2>3. Rewrites(b, d)
    BY <2>1 DEF Rewrites, Rewriting
  <2>4. call[b].d = d
    OBVIOUS
  <2> HIDE DEF d
  <2>5. Step(b, d, Idle, NoDraft, {})
    BY <2>1, <2>2, <1>l, <1>t DEF Step
  <2>6. d \notin disturbed' => \A c \in Buyers : c # b => ~Rewrites(c, d)
    BY <2>1, <2>2, <2>3, <1>o
  <2> QED
    BY <2>1, <2>2, <2>4, <2>5, <2>6, <1>t, RewriteStep DEF Rewriting
<1>8. ASSUME NEW b \in Buyers, NEW d \in Drafts, NEW po \in Pos \union {NoPo}, NEW v \in Values,
             Submit(b, d, po, v) \/ SubmitUnheard(b, d, po, v)
      PROVE  Inv'
  <2> DEFINE o == OrderOf(po)  next == [does |-> "mark", d |-> d, order |-> o]
  <2>1. /\ call[b] = Idle /\ CreateSalesOrder(po, v) /\ answered' = answered \union {<<d, o>>}
        /\ UNCHANGED <<draft, lines, saves, disturbed>>
        /\ call' = [call EXCEPT ![b] = next] \/ call' = call
        /\ draftFaults' \in 0..MaxDraftFaults
    BY <1>8, <1>t DEF Submit, SubmitUnheard, Goes
  <2>2. BookTypeOK' /\ o \in 1..MaxOrders
    BY <2>1, <1>t, CreateTypes
  <2>3. next \in Call /\ next.does = "mark" /\ next.d = d /\ next.order = o
    BY <2>2 DEF Call
  <2> HIDE DEF next, o
  <2>4. PICK to \in {next, Idle} : call' = [call EXCEPT ![b] = to]
    BY <2>1, <1>t
  <2>5. call' \in [Buyers -> Call \union {Idle}] /\ call'[b] = to
        /\ \A c \in Buyers : c # b => call'[c] = call[c]
    BY <2>3, <2>4, <1>t
  <2>6. TypeOK'
    BY <2>1, <2>2, <2>5, <1>t DEF TypeOK
  <2>7. NameInv'
    BY <2>1, <2>3, <2>4, <2>5, <1>i, NameFrame DEF Idle
  <2>8. to \in Call \union {Idle} /\ to.does \notin Rewriting /\ call[b].does \notin Rewriting
    BY <2>1, <2>3, <2>4 DEF Idle, Rewriting
  <2>9. QuietInv'
    BY <2>1, <2>4, <2>8, <1>i, NothingRewritten
  <2> QED
    BY <2>6, <2>7, <2>9 DEF Inv
<1>9. ASSUME NEW b \in Buyers, MarkDraftSubmitted(b) PROVE Inv'
  <2> DEFINE d == call[b].d  o == call[b].order
             new == [draft[d] EXCEPT !.status = "Submitted", !.order = o]
  <2>1. /\ call[b].does = "mark" /\ call' = [call EXCEPT ![b] = Idle]
        /\ draft' = IF draft[d].status = "Draft" /\ \A other \in Drafts : draft[other].order # o
                    THEN [draft EXCEPT ![d] = new] ELSE draft
        /\ UNCHANGED <<bookVars, lines, saves, disturbed, answered, draftFaults>>
    BY <1>9 DEF MarkDraftSubmitted, Does, Goes, Open
  <2>2. d \in Drafts /\ o \in 1..MaxOrders /\ Idle.does = "nothing"
    BY <2>1, <1>t, CallFields DEF Idle
  <2>3. <<d, o>> \in answered
    BY <2>1, <1>i DEF NameInv, MarksAreAnswered
  <2>4. call' \in [Buyers -> Call \union {Idle}] /\ call'[b] = Idle
        /\ \A c \in Buyers : c # b => call'[c] = call[c]
    BY <2>1, <1>t
  <2>5. BookTypeOK'
    BY <2>1, <1>t DEF BookTypeOK, bookVars
  <2> HIDE DEF d, o
  <2>6. CASE draft[d].status = "Draft" /\ \A other \in Drafts : draft[other].order # o
    <3>1. draft[d] \in Draft
      BY <2>2, <2>6, <1>t, AbsentFields
    <3>2. /\ new \in Draft /\ new.status = "Submitted" /\ new.order = o
          /\ new.header = draft[d].header
      BY <2>2, <3>1, DraftMarked
    <3> HIDE DEF new
    <3>3. draft' = [draft EXCEPT ![d] = new]
      BY <2>1, <2>6
    <3>4. draft' \in [Drafts -> Draft \union {NoDraft}] /\ draft'[d] = new
          /\ \A x \in Drafts : x # d => draft'[x] = draft[x]
      BY <2>2, <3>2, <3>3, <1>t
    <3>5. TypeOK'
      BY <2>1, <2>4, <2>5, <3>4, <1>t DEF TypeOK
    <3>6. OrderMeansSubmitted'
      BY <3>2, <3>4, <1>i DEF OrderMeansSubmitted, NameInv
    <3>7. MarksAreAnswered'
      BY <2>1, <2>2, <2>4, <1>i DEF MarksAreAnswered, NameInv
    <3>8. SubmittedNamesItsOrder'
      <4> SUFFICES ASSUME NEW x \in Drafts, draft'[x].status = "Submitted"
                   PROVE  /\ <<x, draft'[x].order>> \in answered
                          /\ \A other \in Drafts \ {x} : draft'[other].order # draft'[x].order
        BY <2>1 DEF SubmittedNamesItsOrder
      <4>1. CASE x = d
        BY <4>1, <2>3, <2>6, <3>2, <3>4
      <4>2. CASE x # d
        BY <4>2, <2>6, <3>2, <3>4, <1>i DEF NameInv, SubmittedNamesItsOrder
      <4> QED
        BY <4>1, <4>2
    <3>9. \A x \in Drafts : /\ draft'[x] = NoDraft <=> draft[x] = NoDraft
                            /\ draft'[x].header = draft[x].header
      BY <3>1, <3>2, <3>4, DraftFields
    <3>10. QuietInv'
      BY <2>1, <2>2, <3>9, <1>i, NothingRewritten DEF Rewriting
    <3> QED
      BY <3>5, <3>6, <3>7, <3>8, <3>10 DEF Inv, NameInv
  <2>7. CASE ~(draft[d].status = "Draft" /\ \A other \in Drafts : draft[other].order # o)
    <3>1. draft' = draft
      BY <2>1, <2>7
    <3>2. TypeOK'
      BY <2>1, <2>4, <2>5, <3>1, <1>t DEF TypeOK
    <3>3. NameInv'
      BY <2>1, <2>2, <2>4, <3>1, <1>i, NameFrame
    <3>4. QuietInv'
      BY <2>1, <2>2, <3>1, <1>i, NothingRewritten DEF Rewriting
    <3> QED
      BY <3>2, <3>3, <3>4 DEF Inv
  <2> QED
    BY <2>6, <2>7
<1>10. ASSUME NEW b \in Buyers, RequestDies(b) PROVE Inv'
  <2>1. /\ call[b] # Idle /\ call' = [call EXCEPT ![b] = Idle]
        /\ draftFaults' \in 0..MaxDraftFaults
        /\ disturbed' = IF call[b].does = "mark" THEN disturbed
                        ELSE disturbed \union {call[b].d}
        /\ UNCHANGED <<bookVars, draft, lines, saves, answered>>
    BY <1>10, <1>t DEF RequestDies, Does, Goes
  <2>2. call[b].d \in Drafts /\ call[b].does \in Rewriting \union {"mark"} /\ Idle.does = "nothing"
    BY <2>1, <1>t, CallFields DEF Idle
  <2>3. CASE call[b].does = "mark"
    <3>1. call' \in [Buyers -> Call \union {Idle}] /\ call'[b] = Idle
          /\ \A c \in Buyers : c # b => call'[c] = call[c]
      BY <2>1, <1>t
    <3>2. BookTypeOK'
      BY <2>1, <1>t DEF BookTypeOK, bookVars
    <3>3. TypeOK'
      BY <2>1, <2>3, <3>1, <3>2, <1>t DEF TypeOK
    <3>4. NameInv'
      BY <2>1, <2>2, <3>1, <1>i, NameFrame
    <3>5. QuietInv'
      BY <2>1, <2>2, <2>3, <1>i, NothingRewritten DEF Rewriting
    <3> QED
      BY <3>3, <3>4, <3>5 DEF Inv
  <2>4. CASE call[b].does # "mark"
    <3> DEFINE d == call[b].d
    <3>1. Step(b, d, Idle, draft[d], LinesOf(d))
      BY <2>1, <2>2, <1>l, <1>t DEF Step
    <3>2. d \in disturbed' /\ disturbed' \in SUBSET Drafts /\ disturbed \subseteq disturbed'
      BY <2>1, <2>2, <2>4, <1>t
    <3>3. draft[d] \in Draft \union {NoDraft} /\ LinesOf(d) \in SUBSET ({d} \X (1..MaxSaves))
      BY <2>2, <1>l, <1>t
    <3> QED
      BY <2>1, <2>2, <3>1, <3>2, <3>3, <1>t, RewriteStep DEF Rewriting
  <2> QED
    BY <2>3, <2>4
<1>11. ASSUME NEW o \in Placed, CancelOrder(o) PROVE Inv'
  <2>1. BookTypeOK' /\ UNCHANGED draftVars
    BY <1>11, <1>t, CancelTypes DEF CancelOrder
  <2> QED
    BY <2>1, <1>i DEF Inv, TypeOK, draftVars, NameInv, OrderMeansSubmitted, MarksAreAnswered,
       SubmittedNamesItsOrder, QuietInv, InOneHand, Rewrites, Saves, Rewritten, LinesOf
<1> QED
  BY <1>1, <1>2, <1>3, <1>4, <1>5, <1>6, <1>7, <1>8, <1>9, <1>10, <1>11 DEF Next

----------------------------------------------------------------------------
(* Theorems                                                                *)

\* The invariant holds in every reachable state.
THEOREM DraftInvariance == Spec => []Inv
<1>1. Init => Inv
  <2> SUFFICES ASSUME Init PROVE Inv
    OBVIOUS
  <2> USE BookAssumption, DraftAssumption DEF BookAssumption, DraftAssumption, Init
  <2>1. BookTypeOK
    <3>1. /\ placed \in 0..MaxOrders /\ utilized \in Int /\ blocks \in 0..MaxBlocks
          /\ orders \in [1..MaxOrders -> Order \union {NoOrder}]
          /\ byPo \in [Pos -> 0..MaxOrders]
          /\ despatched \in SUBSET (1..MaxOrders)
      BY DEF BookInit
    <3>2. blocked \in BOOLEAN
      BY ONLY Init, Zenon DEF Init, BookInit
    <3> QED
      BY ONLY <3>1, <3>2 DEF BookTypeOK
  <2>2. TypeOK
    BY <2>1 DEF TypeOK
  <2>3. NameInv
    BY AbsentFields DEF NameInv, OrderMeansSubmitted, MarksAreAnswered, SubmittedNamesItsOrder, Idle
  <2>4. QuietInv
    BY DEF QuietInv, InOneHand, Rewrites, Saves, Rewriting, Idle
  <2> QED
    BY <2>2, <2>3, <2>4 DEF Inv
<1>2. Inv /\ [Next]_vars => Inv'
  <2>1. ASSUME Inv, UNCHANGED vars PROVE Inv'
    <3>1. BookTypeOK'
      BY <2>1 DEF Inv, TypeOK, BookTypeOK, vars, bookVars
    <3> QED
      BY <2>1, <3>1 DEF Inv, vars, TypeOK, draftVars, NameInv, OrderMeansSubmitted,
         MarksAreAnswered, SubmittedNamesItsOrder, QuietInv, InOneHand, Rewrites, Saves,
         Rewritten, LinesOf
  <2> QED
    BY <2>1, InvPreserved
<1> QED
  BY <1>1, <1>2, PTL DEF Spec

\* Every variable keeps its type.
THEOREM DraftTypeCorrect == Spec => []TypeOK
<1>1. Inv => TypeOK
  BY DEF Inv
<1> QED
  BY <1>1, DraftInvariance, PTL

\* The order a submitted draft names was SAP's answer to a submission of this
\* very draft, and no other row names it.
THEOREM SubmissionsAreNamed == Spec => []SubmittedNamesItsOrder
<1>1. Inv => SubmittedNamesItsOrder
  BY DEF Inv, NameInv
<1> QED
  BY <1>1, DraftInvariance, PTL

\* A draft that no dead or simultaneous request has disturbed has the lines of
\* its header, and no others.
THEOREM DraftsAreWhole == Spec => []QuietDraftIsWhole
<1>1. Inv => QuietDraftIsWhole
  BY DEF Inv, QuietInv, InOneHand, QuietDraftIsWhole
<1> QED
  BY <1>1, DraftInvariance, PTL

\* On a submitted row no save and no deletion begins; unless one is left from
\* before, the row and its lines stay as they are.
THEOREM SubmittedIsFixed == Spec => SubmissionStands
<1> DEFINE Stays(d) == /\ draft'[d] = draft[d] /\ LinesOf(d)' = LinesOf(d)
                       /\ ~Rewritten(d)'
           Stands == \A d \in Drafts :
             draft[d].status = "Submitted" =>
               /\ draft'[d] \in {draft[d], NoDraft}
               /\ ~Rewritten(d) => Stays(d)
<1>1. TypeOK /\ [Next]_vars => Stands
  <2> SUFFICES ASSUME TypeOK, [Next]_vars, NEW d \in Drafts, draft[d].status = "Submitted"
               PROVE  /\ draft'[d] \in {draft[d], NoDraft}
                      /\ ~Rewritten(d) => Stays(d)
    OBVIOUS
  <2> DEFINE Goal == draft'[d] \in {draft[d], NoDraft} /\ (~Rewritten(d) => Stays(d))
  <2> USE DEF TypeOK, Rewritten, LinesOf, Does, Goes, Rewriting
  <2>1. ASSUME NEW b \in Buyers, NEW x \in Drafts, CreateDraft(b, x) PROVE Goal
    BY <2>1, AbsentFields DEF CreateDraft
  <2>2. ASSUME NEW b \in Buyers, NEW x \in Drafts, UpdateHeader(b, x) PROVE Goal
    BY <2>2 DEF UpdateHeader, Open
  <2>3. ASSUME NEW b \in Buyers, NEW x \in Drafts, FindDraft(b, x) PROVE Goal
    BY <2>3 DEF FindDraft, Open
  <2>4. ASSUME NEW b \in Buyers, NEW x \in Drafts, NEW po, NEW v, Submit(b, x, po, v)
        PROVE  Goal
    BY <2>4 DEF Submit
  <2>5. ASSUME NEW b \in Buyers, DeleteLines(b) \/ DropLines(b) PROVE Goal
    <3>1. /\ UNCHANGED draft /\ call[b].does \in Rewriting
          /\ lines' = lines \ LinesOf(call[b].d)
      BY <2>5 DEF DeleteLines, DropLines
    <3>2. \E does : call' = [call EXCEPT ![b] = [@ EXCEPT !.does = does]]
      BY <2>5 DEF DeleteLines, DropLines
    <3>3. \A c \in Buyers : call'[c].d = call[c].d /\ (c # b => call'[c] = call[c])
      BY <3>2 DEF Call
    <3>4. ASSUME ~Rewritten(d) PROVE Stays(d)
      <4>1. call[b].d # d
        BY <3>1, <3>4
      <4>2. LinesOf(d)' = LinesOf(d)
        BY <3>1, <4>1
      <4>3. ~Rewritten(d)'
        BY <3>3, <3>4, <4>1
      <4> QED
        BY <3>1, <4>2, <4>3
    <3> QED
      BY <3>1, <3>4
  <2>6. ASSUME NEW b \in Buyers, CreateLines(b) PROVE Goal
    BY <2>6 DEF CreateLines, Idle
  <2>7. ASSUME NEW b \in Buyers, DropDraft(b) PROVE Goal
    BY <2>7 DEF DropDraft, Idle
  <2>8. ASSUME NEW b \in Buyers, MarkDraftSubmitted(b) PROVE Goal
    BY <2>8 DEF MarkDraftSubmitted, Open, Idle
  <2>9. ASSUME NEW b \in Buyers, RequestDies(b) PROVE Goal
    BY <2>9 DEF RequestDies, Idle
  <2>10. ASSUME UNCHANGED <<draft, lines, call>> PROVE Goal
    BY <2>10
  <2> QED
    BY <2>1, <2>2, <2>3, <2>4, <2>5, <2>6, <2>7, <2>8, <2>9, <2>10
       DEF Next, SubmitUnheard, CancelOrder, vars, draftVars
<1> QED
  BY <1>1, DraftTypeCorrect, PTL DEF Spec, SubmissionStands
=============================================================================
