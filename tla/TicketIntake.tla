---------------------------- MODULE TicketIntake ----------------------------
(***************************************************************************)
(* insertTicket (packages/services/support/src/ticket-service.ts), the one *)
(* place a ticket is created, for the customer's form and for the worker   *)
(* that raises a ticket from a discrepancy event: the number from a        *)
(* counter row that the first ticket creates, the source key that makes a  *)
(* redelivered event a no-op, and the second attempt after a unique        *)
(* violation, which may be either of the two.                              *)
(***************************************************************************)
EXTENDS Naturals, FiniteSets

CONSTANTS
  Sources,          \* source keys: one per delivery
  Form,             \* the source of a ticket raised on the form: none
  Forms,            \* requests of customers raising a ticket
  Jobs,             \* workers on the queue of discrepancy events
  MaxTickets,       \* bound: tickets
  MaxIntakeFaults   \* bound: calls that die

Callers == Forms \union Jobs

ASSUME IntakeAssumption ==
  /\ Form \notin Sources
  /\ Forms \intersect Jobs = {}
  /\ MaxTickets \in Nat /\ MaxIntakeFaults \in Nat

VARIABLES
  counter,       \* TicketCounter.value; 0: there is no row
  tickets,       \* rows: number and source
  raised,        \* numbers whose support.ticket.created is committed
  call,          \* call[p]: where insertTicket of p is
  settled,       \* sources whose job has completed
  intakeFaults

intakeVars == <<counter, tickets, raised, call, settled, intakeFaults>>

Ticket == [no : 1..MaxTickets, source : Sources \union {Form}]
NoCall == [at |-> "idle"]
\* first: the first attempt; creates: the upsert found no counter row.
Call == [at : {"number", "insert", "lookup"}, source : Sources \union {Form},
         first : BOOLEAN, creates : BOOLEAN]

IntakeTypeOK ==
  /\ counter \in 0..MaxTickets
  /\ tickets \in SUBSET Ticket
  /\ raised \in SUBSET (1..MaxTickets)
  /\ call \in [Callers -> Call \union {NoCall}]
  /\ settled \in SUBSET Sources
  /\ intakeFaults \in 0..MaxIntakeFaults

IntakeInit ==
  /\ counter = 0
  /\ tickets = {}
  /\ raised = {}
  /\ call = [p \in Callers |-> NoCall]
  /\ settled = {}
  /\ intakeFaults = 0

Taken(source) == \E t \in tickets : t.source = source /\ source # Form
Goes(p, step) == call' = [call EXCEPT ![p] = [@ EXCEPT !.at = step]]
Returns(p) == call' = [call EXCEPT ![p] = NoCall]

\* MaxTickets leaves room for one ticket of each source.
Room ==
  Cardinality({t \in tickets : t.source = Form})
    + Cardinality({p \in Forms : call[p] # NoCall}) + Cardinality(Sources) < MaxTickets

\* Seeded fault: a job is acknowledged when it is taken.
BeginAcknowledged(p, source) ==
  /\ call[p] = NoCall
  /\ p \in Forms <=> source = Form
  /\ source = Form => Room
  /\ source \notin settled
  /\ settled' = settled \union ({source} \ {Form})
  /\ call' = [call EXCEPT ![p] =
       [at |-> "number", source |-> source, first |-> TRUE, creates |-> FALSE]]
  /\ UNCHANGED <<counter, tickets, raised, intakeFaults>>

\* A caller of insertTicket: the form, or a worker taking the job of source.
Begin(p, source) ==
  /\ call[p] = NoCall
  /\ p \in Forms <=> source = Form
  /\ source = Form => Room
  /\ source \notin settled
  /\ call' = [call EXCEPT ![p] =
       [at |-> "number", source |-> source, first |-> TRUE, creates |-> FALSE]]
  /\ UNCHANGED <<counter, tickets, raised, settled, intakeFaults>>

\* nextTicketNo: the upsert looks for the counter row.
NextTicketNo(p) ==
  /\ call[p].at = "number"
  /\ call' = [call EXCEPT ![p] = [@ EXCEPT !.at = "insert", !.creates = (counter = 0)]]
  /\ UNCHANGED <<counter, tickets, raised, settled, intakeFaults>>

Collides(p) ==
  (call[p].creates /\ counter # 0) \/ Taken(call[p].source)

Completes(p) == settled' = settled \union ({call[p].source} \ {Form})

\* Seeded fault: source keys are not unique.
InsertRegardless(p) ==
  /\ call[p].at = "insert" /\ counter < MaxTickets
  /\ ~(call[p].creates /\ counter # 0)
  /\ counter' = counter + 1
  /\ tickets' = tickets \union {[no |-> counter + 1, source |-> call[p].source]}
  /\ raised' = raised \union {counter + 1}
  /\ Completes(p) /\ Returns(p)
  /\ UNCHANGED intakeFaults

\* One transaction: the counter, the ticket, its event.
Insert(p) ==
  /\ call[p].at = "insert" /\ counter < MaxTickets
  /\ ~Collides(p)
  /\ counter' = counter + 1
  /\ tickets' = tickets \union {[no |-> counter + 1, source |-> call[p].source]}
  /\ raised' = raised \union {counter + 1}
  /\ Completes(p) /\ Returns(p)
  /\ UNCHANGED intakeFaults

\* Seeded fault: the number is taken outside the transaction.
CollisionKeepsNumber(p) ==
  /\ call[p].at = "insert" /\ Collides(p) /\ counter < MaxTickets
  /\ counter' = counter + 1
  /\ IF call[p].first THEN Goes(p, "lookup") ELSE Returns(p)
  /\ UNCHANGED <<tickets, raised, settled, intakeFaults>>

\* A unique violation undoes the attempt; of a second attempt it is thrown,
\* and a job that threw is tried again.
Collision(p) ==
  /\ call[p].at = "insert" /\ Collides(p)
  /\ IF call[p].first THEN Goes(p, "lookup") ELSE Returns(p)
  /\ UNCHANGED <<counter, tickets, raised, settled, intakeFaults>>

\* Seeded fault: every unique violation is taken for a redelivery.
LookupAssumesRaised(p) ==
  /\ call[p].at = "lookup"
  /\ Completes(p) /\ Returns(p)
  /\ UNCHANGED <<counter, tickets, raised, intakeFaults>>

\* Which of the two it was: the ticket of this source, or the counter.
Lookup(p) ==
  /\ call[p].at = "lookup"
  /\ IF Taken(call[p].source)
     THEN Completes(p) /\ Returns(p)
     ELSE /\ call' = [call EXCEPT ![p] = [@ EXCEPT !.at = "number", !.first = FALSE]]
          /\ UNCHANGED settled
  /\ UNCHANGED <<counter, tickets, raised, intakeFaults>>

CallDies(p) ==
  /\ call[p] # NoCall /\ intakeFaults < MaxIntakeFaults
  /\ intakeFaults' = intakeFaults + 1
  /\ Returns(p)
  /\ UNCHANGED <<counter, tickets, raised, settled>>

Work(p) == NextTicketNo(p) \/ Insert(p) \/ Collision(p) \/ Lookup(p)
============================================================================
