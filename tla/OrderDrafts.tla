---------------------------- MODULE OrderDrafts ----------------------------
(***************************************************************************)
(* Order drafts and what becomes of them: saveDraft, deleteDraft and       *)
(* markDraftSubmitted (packages/services/order/src/draft-service.ts; the   *)
(* inquiry module's drafts have the same statements) and the submission    *)
(* of POST /api/orders, which creates the order in SAP and then keeps the  *)
(* books about it.  A save and a deletion are several statements outside   *)
(* a transaction.  Snapshot v is the form as the v-th save sends it.       *)
(***************************************************************************)
EXTENDS SalesOrders

CONSTANTS
  Drafts,
  Buyers,         \* requests of the account's users
  MaxSaves,       \* bound: saves
  MaxDraftFaults  \* bound: requests that die, statements that fail

ASSUME DraftAssumption == MaxSaves \in Nat /\ MaxDraftFaults \in Nat

VARIABLES
  draft,        \* draft[d]: the SalesOrder row
  lines,        \* SalesOrderLine rows: <<draft, snapshot>>
  saves,        \* saves so far
  call,         \* call[b]: the statement of b's request that comes next
  disturbed,    \* drafts with a save or deletion that died half-way or met
                \* another on its way (history)
  answered,     \* <<draft, order>>: SAP's answers to submissions (history)
  draftFaults

draftVars == <<draft, lines, saves, call, disturbed, answered, draftFaults>>
vars == <<bookVars, draftVars>>

NoDraft == [status |-> "absent", order |-> 0, header |-> 0]
Draft == [status : {"Draft", "Submitted"}, order : 0..MaxOrders, header : 1..MaxSaves]
Idle == [does |-> "nothing"]
Call == [does : {"deleteLines", "createLines"}, d : Drafts, v : 1..MaxSaves]
          \union [does : {"dropLines", "dropDraft"}, d : Drafts]
          \union [does : {"mark"}, d : Drafts, order : 1..MaxOrders]

TypeOK ==
  /\ BookTypeOK
  /\ draft \in [Drafts -> Draft \union {NoDraft}]
  /\ lines \in SUBSET (Drafts \X (1..MaxSaves))
  /\ saves \in 0..MaxSaves
  /\ call \in [Buyers -> Call \union {Idle}]
  /\ disturbed \in SUBSET Drafts
  /\ answered \in SUBSET (Drafts \X (1..MaxOrders))
  /\ draftFaults \in 0..MaxDraftFaults

Init ==
  /\ BookInit
  /\ draft = [d \in Drafts |-> NoDraft]
  /\ lines = {}
  /\ saves = 0
  /\ call = [b \in Buyers |-> Idle]
  /\ disturbed = {}
  /\ answered = {}
  /\ draftFaults = 0

Does(b, what) == call[b].does = what
Goes(b, next) == call' = [call EXCEPT ![b] = next]
Open(d) == draft[d].status = "Draft"
LinesOf(d) == {l \in lines : l[1] = d}
Rewriting == {"deleteLines", "createLines", "dropLines", "dropDraft"}
Rewritten(d) == \E b \in Buyers : call[b].does \in Rewriting /\ call[b].d = d
Disturb(d) == disturbed' = IF Rewritten(d) THEN disturbed \union {d} ELSE disturbed

----------------------------------------------------------------------------
(* saveDraft                                                               *)

CreateDraft(b, d) ==
  /\ call[b] = Idle /\ saves < MaxSaves
  /\ draft[d] = NoDraft /\ ~Rewritten(d)
  /\ draft' = [draft EXCEPT ![d] = [status |-> "Draft", order |-> 0, header |-> saves + 1]]
  /\ saves' = saves + 1
  /\ Goes(b, [does |-> "deleteLines", d |-> d, v |-> saves + 1])
  /\ UNCHANGED <<bookVars, lines, disturbed, answered, draftFaults>>

\* Seeded fault: the header is written by id alone.
UpdateHeaderById(b, d) ==
  /\ call[b] = Idle /\ saves < MaxSaves
  /\ draft[d] # NoDraft
  /\ draft' = [draft EXCEPT ![d] = [@ EXCEPT !.header = saves + 1]]
  /\ saves' = saves + 1
  /\ Goes(b, [does |-> "deleteLines", d |-> d, v |-> saves + 1])
  /\ Disturb(d)
  /\ UNCHANGED <<bookVars, lines, answered, draftFaults>>

\* The header, of what is still a draft.
UpdateHeader(b, d) ==
  /\ call[b] = Idle /\ saves < MaxSaves
  /\ Open(d)
  /\ draft' = [draft EXCEPT ![d] = [@ EXCEPT !.header = saves + 1]]
  /\ saves' = saves + 1
  /\ Goes(b, [does |-> "deleteLines", d |-> d, v |-> saves + 1])
  /\ Disturb(d)
  /\ UNCHANGED <<bookVars, lines, answered, draftFaults>>

\* Seeded fault: the old lines are left where they are.
KeepLines(b) ==
  /\ Does(b, "deleteLines")
  /\ Goes(b, [call[b] EXCEPT !.does = "createLines"])
  /\ UNCHANGED <<bookVars, draft, lines, saves, disturbed, answered, draftFaults>>

DeleteLines(b) ==
  /\ Does(b, "deleteLines")
  /\ lines' = lines \ LinesOf(call[b].d)
  /\ Goes(b, [call[b] EXCEPT !.does = "createLines"])
  /\ UNCHANGED <<bookVars, draft, saves, disturbed, answered, draftFaults>>

\* Refused by the foreign key when the draft is gone.
CreateLines(b) ==
  /\ Does(b, "createLines")
  /\ LET d == call[b].d
     IN lines' = IF draft[d] = NoDraft THEN lines ELSE lines \union {<<d, call[b].v>>}
  /\ Goes(b, Idle)
  /\ UNCHANGED <<bookVars, draft, saves, disturbed, answered, draftFaults>>

----------------------------------------------------------------------------
(* deleteDraft                                                             *)

FindDraft(b, d) ==
  /\ call[b] = Idle
  /\ Open(d)
  /\ Goes(b, [does |-> "dropLines", d |-> d])
  /\ Disturb(d)
  /\ UNCHANGED <<bookVars, draft, lines, saves, answered, draftFaults>>

DropLines(b) ==
  /\ Does(b, "dropLines")
  /\ lines' = lines \ LinesOf(call[b].d)
  /\ Goes(b, [call[b] EXCEPT !.does = "dropDraft"])
  /\ UNCHANGED <<bookVars, draft, saves, disturbed, answered, draftFaults>>

\* By id, whatever the row has become; its lines go with it.
DropDraft(b) ==
  /\ Does(b, "dropDraft")
  /\ draft' = [draft EXCEPT ![call[b].d] = NoDraft]
  /\ lines' = lines \ LinesOf(call[b].d)
  /\ Goes(b, Idle)
  /\ UNCHANGED <<bookVars, saves, disturbed, answered, draftFaults>>

----------------------------------------------------------------------------
(* POST /api/orders                                                        *)

\* The form of a draft goes to SAP with the request; the draft's row is not
\* read.  The page may be old: the draft may have been submitted before.
Submit(b, d, po, value) ==
  /\ call[b] = Idle /\ draft[d] # NoDraft
  /\ CreateSalesOrder(po, value)
  /\ answered' = answered \union {<<d, OrderOf(po)>>}
  /\ Goes(b, [does |-> "mark", d |-> d, order |-> OrderOf(po)])
  /\ UNCHANGED <<draft, lines, saves, disturbed, draftFaults>>

\* Seeded fault: soNumber is not unique.
MarkRegardless(b) ==
  /\ Does(b, "mark")
  /\ LET d == call[b].d
     IN draft' = IF Open(d)
                 THEN [draft EXCEPT ![d] =
                         [@ EXCEPT !.status = "Submitted", !.order = call[b].order]]
                 ELSE draft
  /\ Goes(b, Idle)
  /\ UNCHANGED <<bookVars, lines, saves, disturbed, answered, draftFaults>>

\* What is still a draft names the order, if no other row of the tenant does;
\* a failure of this is swallowed.
MarkDraftSubmitted(b) ==
  /\ Does(b, "mark")
  /\ LET d == call[b].d
     IN draft' = IF Open(d) /\ \A other \in Drafts : draft[other].order # call[b].order
                 THEN [draft EXCEPT ![d] =
                         [@ EXCEPT !.status = "Submitted", !.order = call[b].order]]
                 ELSE draft
  /\ Goes(b, Idle)
  /\ UNCHANGED <<bookVars, lines, saves, disturbed, answered, draftFaults>>

\* SAP took the order and its answer was lost.
SubmitUnheard(b, d, po, value) ==
  /\ call[b] = Idle /\ draft[d] # NoDraft
  /\ draftFaults < MaxDraftFaults /\ draftFaults' = draftFaults + 1
  /\ CreateSalesOrder(po, value)
  /\ answered' = answered \union {<<d, OrderOf(po)>>}
  /\ UNCHANGED <<draft, lines, saves, call, disturbed>>

----------------------------------------------------------------------------

CancelOrder(o) == CancelSalesOrder(o) /\ UNCHANGED draftVars

RequestDies(b) ==
  /\ call[b] # Idle
  /\ draftFaults < MaxDraftFaults /\ draftFaults' = draftFaults + 1
  /\ disturbed' = IF Does(b, "mark") THEN disturbed ELSE disturbed \union {call[b].d}
  /\ Goes(b, Idle)
  /\ UNCHANGED <<bookVars, draft, lines, saves, answered>>

Next ==
  \/ \E b \in Buyers, d \in Drafts :
       \/ CreateDraft(b, d) \/ UpdateHeader(b, d) \/ FindDraft(b, d)
       \/ \E po \in Pos \union {NoPo}, v \in Values :
            Submit(b, d, po, v) \/ SubmitUnheard(b, d, po, v)
  \/ \E b \in Buyers :
       \/ DeleteLines(b) \/ CreateLines(b) \/ DropLines(b) \/ DropDraft(b)
       \/ MarkDraftSubmitted(b) \/ RequestDies(b)
  \/ \E o \in Placed : CancelOrder(o)

Spec == Init /\ [][Next]_vars

----------------------------------------------------------------------------
(* Properties                                                              *)

\* "A draft marked submitted for an order that failed to reach SAP would be
\* lost work" (markDraftSubmitted): the order a row names is one that SAP
\* answered to a submission of this draft, and no other row names it.
SubmittedNamesItsOrder ==
  \A d \in Drafts :
    draft[d].status = "Submitted" =>
      /\ <<d, draft[d].order>> \in answered
      /\ \A other \in Drafts \ {d} : draft[other].order # draft[d].order

\* "A submitted order ... must not be editable through the draft endpoint"
\* (saveDraft): no save and no deletion begins on a submitted row, and with none
\* left from before, nothing changes it or its lines, nor removes it.  One that
\* passed its check earlier changes no more than the lines, or removes the row.
SubmissionStands ==
  [][\A d \in Drafts :
       draft[d].status = "Submitted" =>
         /\ draft'[d] \in {draft[d], NoDraft}
         /\ ~Rewritten(d) =>
              /\ draft'[d] = draft[d] /\ LinesOf(d)' = LinesOf(d)
              /\ ~Rewritten(d)']_vars

\* The same of the lines, whatever was under way (saveDraft deletes and creates
\* them by the id of the draft alone).
\* This does not hold (README, "What the code does not promise").
SubmittedLinesStand ==
  [][\A d \in Drafts :
       draft[d].status = "Submitted" /\ draft'[d] # NoDraft =>
         LinesOf(d)' = LinesOf(d)]_vars

\* "The row is kept rather than deleted" (draft-service.ts:220, of a row that was
\* submitted).  A deletion that had found the draft removes it by its id.
\* This does not hold (README, "What the code does not promise").
SubmittedIsKept ==
  [][\A d \in Drafts :
       draft[d].status = "Submitted" => draft'[d] # NoDraft]_vars

\* A draft is the snapshot of one form: unless a request died in the middle of
\* it or two rewrote it at once, its lines are those of its header, and one
\* submission of it among others changes nothing about that.
QuietDraftIsWhole ==
  \A d \in Drafts \ disturbed :
    draft[d] # NoDraft /\ ~Rewritten(d) => LinesOf(d) = {<<d, draft[d].header>>}

\* "Merging two snapshots of the same form is how a line the customer deleted
\* comes back" (draft-service.ts:106): the lines of a draft are of one snapshot.
\* This does not hold (README, "What the code does not promise").
LinesOfOneSnapshot ==
  \A l1, l2 \in lines : l1[1] = l2[1] => l1 = l2

\* "A double-clicked Submit therefore costs nothing, and neither does a retry
\* after a timeout" (order-service.ts:322): a draft becomes one order.
\* This does not hold (README, "What the code does not promise").
DraftOrderedOnce ==
  \A a1, a2 \in answered :
    a1[1] = a2[1] /\ Live(a1[2]) /\ Live(a2[2]) => a1 = a2
============================================================================
