---------------------------- MODULE SupportDesk ----------------------------
(***************************************************************************)
(* The life of a support ticket: what its customer, the tenant's agents    *)
(* and the SLA sweep do to one row (packages/services/support/src), under  *)
(* the transition table of packages/domain/src/entities/support.ts.        *)
(*                                                                         *)
(* A call reads the ticket, checks the move, and then writes by id; a      *)
(* sweep lists what is overdue and then claims ticket by ticket.  Between  *)
(* the two steps the row may have become anything.                         *)
(***************************************************************************)
EXTENDS Naturals

CONSTANTS
  Tickets,
  Customers,      \* calls of the account's users
  Agents,         \* calls of the back office
  Sweeps,         \* worker processes running the SLA sweep
  Stars,          \* ratings a customer may give
  MaxWindows,     \* bound: SLA windows of a ticket, one and its reopenings
  MaxResolutions, \* bound: resolutions of a ticket
  MaxFaults       \* bound: failed statements and crashes

Users == Customers \union Agents

ASSUME DeskAssumption ==
  /\ Customers \intersect Agents = {}
  /\ Stars \subseteq Nat \ {0}
  /\ MaxWindows \in Nat \ {0}
  /\ MaxResolutions \in Nat
  /\ MaxFaults \in Nat

VARIABLES
  row,       \* row[t]: the SupportTicket row
  outbox,    \* events written: <<name, ticket, resolution or window>>
  call,      \* call[u]: the checked move user u is about to write
  due,       \* due[s]: <<ticket, window>> sweep s listed and has yet to claim
  overdue,   \* windows whose deadline has passed (history)
  faults     \* faults so far

vars == <<row, outbox, call, due, overdue, faults>>

Statuses == {"open", "in_progress", "resolved", "closed"}

\* openedAt and resolvedAt are numbered: the window it opened, the resolution
\* it records (0: none).  late and lapsed are the clock against openedAt and
\* resolvedAt: past the SLA deadline, past the seven days for reopening.
Row == [status : Statuses, window : 1..MaxWindows, late : BOOLEAN,
        resolution : 0..MaxResolutions, lapsed : BOOLEAN, closedAt : BOOLEAN,
        breached : BOOLEAN, rating : Stars \union {0}]

Windows == Tickets \X (1..MaxWindows)
Events  == {"resolved"} \X Tickets \X (1..MaxResolutions)
             \union {"breached"} \X Tickets \X (1..MaxWindows)
Call    == [does : {"move"}, to : Statuses, t : Tickets]
             \union [does : {"rate"}, stars : Stars, t : Tickets]
Idle    == [does |-> "nothing"]

TypeOK ==
  /\ row \in [Tickets -> Row]
  /\ outbox \in SUBSET Events
  /\ call \in [Users -> Call \union {Idle}]
  /\ due \in [Sweeps -> SUBSET Windows]
  /\ overdue \in SUBSET Windows
  /\ faults \in 0..MaxFaults

Init ==
  /\ row = [t \in Tickets |->
       [status |-> "open", window |-> 1, late |-> FALSE, resolution |-> 0,
        lapsed |-> FALSE, closedAt |-> FALSE, breached |-> FALSE, rating |-> 0]]
  /\ outbox = {}
  /\ call = [u \in Users |-> Idle]
  /\ due = [s \in Sweeps |-> {}]
  /\ overdue = {}
  /\ faults = 0

----------------------------------------------------------------------------
(* The rules of the domain                                                 *)

\* TICKET_TRANSITIONS: <<from, to>>, for either actor and for agents only.
ByEither  == {"open", "in_progress", "resolved"} \X {"closed"}
               \union {<<"resolved", "open">>}
ByAgent   == {<<"open", "in_progress">>, <<"open", "resolved">>,
              <<"in_progress", "resolved">>}

CanTransition(from, to, u) ==
  <<from, to>> \in ByEither \/ (u \in Agents /\ <<from, to>> \in ByAgent)

CanReopen(t) == row[t].status = "resolved" /\ row[t].resolution # 0 /\ ~row[t].lapsed

\* Seeded fault: any ticket may be rated once.
CanRateUnsettled(t) == row[t].rating = 0

CanRate(t) == row[t].rating = 0 /\ row[t].status \in {"resolved", "closed"}

Outstanding(t) == row[t].status \in {"open", "in_progress"}

----------------------------------------------------------------------------
(* transitionTicketAsCustomer, transitionTicketAsAgent, resolveTicket      *)

\* Only a customer is held to the seven days.
CheckMove(u, t, to) ==
  /\ call[u] = Idle
  /\ CanTransition(row[t].status, to, u)
  /\ u \in Customers /\ to = "open" => CanReopen(t)
  /\ call' = [call EXCEPT ![u] = [does |-> "move", to |-> to, t |-> t]]
  /\ UNCHANGED <<row, outbox, due, overdue, faults>>

Holds(u, t, to) == call[u] = [does |-> "move", to |-> to, t |-> t]
Done(u) == call' = [call EXCEPT ![u] = Idle]

StartWork(u, t) ==
  /\ Holds(u, t, "in_progress")
  /\ row' = [row EXCEPT ![t] = [@ EXCEPT !.status = "in_progress"]]
  /\ Done(u)
  /\ UNCHANGED <<outbox, due, overdue, faults>>

Close(u, t) ==
  /\ Holds(u, t, "closed")
  /\ row' = [row EXCEPT ![t] = [@ EXCEPT !.status = "closed", !.closedAt = TRUE]]
  /\ Done(u)
  /\ UNCHANGED <<outbox, due, overdue, faults>>

\* The clock restarts: a new window, with no breach of its own.
Reopen(u, t) ==
  /\ Holds(u, t, "open")
  /\ row[t].window < MaxWindows
  /\ row' = [row EXCEPT ![t] = [@ EXCEPT !.status = "open", !.window = row[t].window + 1,
                                         !.late = FALSE, !.resolution = 0,
                                         !.lapsed = FALSE, !.breached = FALSE]]
  /\ Done(u)
  /\ UNCHANGED <<outbox, due, overdue, faults>>

\* Resolutions of t so far, each with its event.
Resolutions(t) == {n \in 1..MaxResolutions : <<"resolved", t, n>> \in outbox}

\* Seeded fault: a resolution tells the customer only the first time.
ResolveDedupedByTicket(u, t) ==
  \E n \in 1..MaxResolutions :
    /\ Holds(u, t, "resolved")
    /\ n \notin Resolutions(t) /\ row[t].resolution < n
    /\ row' = [row EXCEPT ![t] = [@ EXCEPT !.status = "resolved", !.resolution = n,
                                           !.lapsed = FALSE]]
    /\ outbox' = IF Resolutions(t) = {} THEN outbox \union {<<"resolved", t, n>>}
                 ELSE outbox
    /\ Done(u)
    /\ UNCHANGED <<due, overdue, faults>>

\* One transaction: the resolution and the event, keyed by its resolvedAt.
Resolve(u, t) ==
  \E n \in 1..MaxResolutions :
    /\ Holds(u, t, "resolved")
    /\ \A m \in Resolutions(t) : m < n
    /\ n = 1 \/ n - 1 \in Resolutions(t)
    /\ row' = [row EXCEPT ![t] = [@ EXCEPT !.status = "resolved", !.resolution = n,
                                           !.lapsed = FALSE]]
    /\ outbox' = outbox \union {<<"resolved", t, n>>}
    /\ Done(u)
    /\ UNCHANGED <<due, overdue, faults>>

----------------------------------------------------------------------------
(* rateTicket                                                              *)

CheckRating(u, t, stars) ==
  /\ call[u] = Idle
  /\ CanRate(t)
  /\ call' = [call EXCEPT ![u] = [does |-> "rate", stars |-> stars, t |-> t]]
  /\ UNCHANGED <<row, outbox, due, overdue, faults>>

Rate(u, t) ==
  /\ call[u].does = "rate" /\ call[u].t = t
  /\ row' = [row EXCEPT ![t] = [@ EXCEPT !.rating = call[u].stars]]
  /\ Done(u)
  /\ UNCHANGED <<outbox, due, overdue, faults>>

----------------------------------------------------------------------------
(* sweepSlaBreaches                                                        *)

\* Seeded fault: a ticket an agent has started is not listed.
ListOpenOnly(s) ==
  LET found == {t \in Tickets : row[t].status = "open" /\ row[t].late /\ ~row[t].breached}
  IN
  /\ due[s] = {} /\ found # {}
  /\ due' = [due EXCEPT ![s] = {<<t, row[t].window>> : t \in found}]
  /\ UNCHANGED <<row, outbox, call, overdue, faults>>

ListDue(s) ==
  LET found == {t \in Tickets : Outstanding(t) /\ row[t].late /\ ~row[t].breached}
  IN
  /\ due[s] = {} /\ found # {}
  /\ due' = [due EXCEPT ![s] = {<<t, row[t].window>> : t \in found}]
  /\ UNCHANGED <<row, outbox, call, overdue, faults>>

\* Seeded fault: the event names the window the ticket is in by now.
ClaimCurrentWindow(s, t) ==
  \E w \in 1..MaxWindows :
    /\ <<t, w>> \in due[s]
    /\ row' = [row EXCEPT ![t] = [@ EXCEPT !.breached = TRUE]]
    /\ outbox' = IF row[t].breached THEN outbox
                 ELSE outbox \union {<<"breached", t, row[t].window>>}
    /\ due' = [due EXCEPT ![s] = @ \ {<<t, w>>}]
    /\ UNCHANGED <<call, overdue, faults>>

\* One transaction: the flag, if it is not set, and the event of the window
\* that was listed.
Claim(s, t) ==
  \E w \in 1..MaxWindows :
    /\ <<t, w>> \in due[s]
    /\ row' = [row EXCEPT ![t] = [@ EXCEPT !.breached = TRUE]]
    /\ outbox' = IF row[t].breached THEN outbox
                 ELSE outbox \union {<<"breached", t, w>>}
    /\ due' = [due EXCEPT ![s] = @ \ {<<t, w>>}]
    /\ UNCHANGED <<call, overdue, faults>>

Sweep(s) == ListDue(s) \/ \E t \in Tickets : Claim(s, t)

----------------------------------------------------------------------------
(* The clock, and faults                                                   *)

DeadlinePasses(t) ==
  /\ ~row[t].late
  /\ row' = [row EXCEPT ![t] = [@ EXCEPT !.late = TRUE]]
  /\ overdue' = overdue \union {<<t, row[t].window>>}
  /\ UNCHANGED <<outbox, call, due, faults>>

ReopenWindowEnds(t) ==
  /\ row[t].resolution # 0 /\ ~row[t].lapsed
  /\ row' = [row EXCEPT ![t] = [@ EXCEPT !.lapsed = TRUE]]
  /\ UNCHANGED <<outbox, call, due, overdue, faults>>

\* A call or a sweep throws, or its process dies: its transaction is not made.
Fault == faults < MaxFaults /\ faults' = faults + 1

CallFails(u) ==
  /\ call[u] # Idle /\ Fault
  /\ Done(u)
  /\ UNCHANGED <<row, outbox, due, overdue>>

SweepFails(s) ==
  /\ due[s] # {} /\ Fault
  /\ due' = [due EXCEPT ![s] = {}]
  /\ UNCHANGED <<row, outbox, call, overdue>>

----------------------------------------------------------------------------

Write(u, t) ==
  StartWork(u, t) \/ Close(u, t) \/ Reopen(u, t) \/ Resolve(u, t) \/ Rate(u, t)

Next ==
  \/ \E u \in Users, t \in Tickets :
       Write(u, t) \/ \E to \in Statuses : CheckMove(u, t, to)
  \/ \E u \in Customers, t \in Tickets, stars \in Stars : CheckRating(u, t, stars)
  \/ \E s \in Sweeps : Sweep(s) \/ SweepFails(s)
  \/ \E t \in Tickets : DeadlinePasses(t) \/ ReopenWindowEnds(t)
  \/ \E u \in Users : CallFails(u)

Spec == Init /\ [][Next]_vars

\* The sweep runs on an interval for as long as a worker does.  Customers and
\* agents may do nothing.
Fairness == \A s \in Sweeps : WF_vars(Sweep(s))

FairSpec == Spec /\ Fairness

----------------------------------------------------------------------------
(* Properties                                                              *)

\* A breach is reported only for a window whose deadline has passed, whatever
\* was resolved and reopened while a sweep worked through its list
\* (sweepSlaBreaches): no tenant is charged with a breach of a fresh window.
BreachIsGenuine ==
  \A t \in Tickets, w \in 1..MaxWindows :
    <<"breached", t, w>> \in outbox => <<t, w>> \in overdue

\* "A resolution nobody was told about starts a 7-day reopen window the
\* customer doesn't know is running" (resolveTicket): a resolution that stands
\* on the row was announced, and so was every one a rival call replaced.
ResolutionIsAnnounced ==
  \A t \in Tickets :
    /\ row[t].status = "resolved" => row[t].resolution # 0
    /\ row[t].resolution # 0 =>
         \A n \in 1..row[t].resolution : <<"resolved", t, n>> \in outbox

\* "Rating an open ticket rates work that hasn't happened" (canRateTicket): a
\* ticket has a rating only if it was resolved or closed, even when the call
\* that checked it writes after a reopening.
RatingJudgesWork ==
  \A t \in Tickets :
    row[t].rating # 0 => row[t].closedAt \/ Resolutions(t) # {}

\* An outstanding ticket past its deadline is flagged, or stops being
\* outstanding, or has its clock restarted, although sweeps fail half-way.
OverdueIsFlagged ==
  \A t \in Tickets :
    Outstanding(t) /\ row[t].late ~> row[t].breached \/ ~Outstanding(t) \/ ~row[t].late

\* The flag is "set once support.sla.breached has been emitted for the current
\* openedAt window" (schema.prisma:750): a flagged ticket has the event of the
\* window it is in.
\* This does not hold (README, "What the code does not promise").
FlagMeansReported ==
  \A t \in Tickets :
    row[t].breached => <<"breached", t, row[t].window>> \in outbox

\* "Who may move a ticket where" (support.ts:272): every change of status is
\* one the table allows to somebody.
\* This does not hold (README, "What the code does not promise").
LegalTransitions ==
  [][\A t \in Tickets :
       row'[t].status # row[t].status =>
         \E u \in Users : CanTransition(row[t].status, row'[t].status, u)]_vars
============================================================================
