------------------------- MODULE SupportDesk_proofs -------------------------
(***************************************************************************)
(* Theorems about SupportDesk, for any tickets, users, sweeps and bounds:  *)
(* one inductive invariant, proved conjunct by conjunct.                   *)
(***************************************************************************)
EXTENDS SupportDesk, TLAPS

\* What is listed, and what is late now, has passed its deadline.
ListsAreOverdue ==
  /\ \A s \in Sweeps : due[s] \subseteq overdue
  /\ \A t \in Tickets : row[t].late = TRUE => <<t, row[t].window>> \in overdue

\* The resolutions of a ticket are announced in order, with no gap.
AnnouncedInOrder ==
  \A t \in Tickets : \A n \in Resolutions(t) : 1..n \subseteq Resolutions(t)

\* A ticket that is settled, or that a call found settled, was once resolved
\* or closed.
WasSettled(t) == row[t].closedAt = TRUE \/ Resolutions(t) # {}

SettledWasWorked ==
  /\ \A t \in Tickets :
       row[t].status \in {"resolved", "closed"} \/ row[t].rating # 0 => WasSettled(t)
  /\ \A u \in Users : call[u].does = "rate" => WasSettled(call[u].t)

BreachInv     == ListsAreOverdue /\ BreachIsGenuine
ResolutionInv == AnnouncedInOrder /\ ResolutionIsAnnounced
RatingInv     == SettledWasWorked /\ RatingJudgesWork

Inv == TypeOK /\ BreachInv /\ ResolutionInv /\ RatingInv

----------------------------------------------------------------------------
(* Types                                                                   *)

\* The initial state has its types.
LEMMA TypeInit == Init => TypeOK
<1> SUFFICES ASSUME Init PROVE TypeOK
  OBVIOUS
<1>1. [status |-> "open", window |-> 1, late |-> FALSE, resolution |-> 0,
       lapsed |-> FALSE, closedAt |-> FALSE, breached |-> FALSE, rating |-> 0] \in Row
  BY DeskAssumption DEF DeskAssumption, Row, Statuses
<1>2. row \in [Tickets -> Row]
  BY <1>1 DEF Init
<1> QED
  BY <1>2, DeskAssumption DEF DeskAssumption, Init, TypeOK

\* Every step keeps the types.
LEMMA TypePreserved == TypeOK /\ [Next]_vars => TypeOK'
<1> SUFFICES ASSUME TypeOK, [Next]_vars PROVE TypeOK'
  OBVIOUS
<1> USE DeskAssumption DEF TypeOK, DeskAssumption
<1>r. ASSUME NEW t \in Tickets, NEW r \in Row, row' = [row EXCEPT ![t] = r]
      PROVE  row' \in [Tickets -> Row]
  BY <1>r
<1>1. ASSUME NEW u \in Users, NEW t \in Tickets, Write(u, t) PROVE TypeOK'
  <2>r. row[t] \in Row /\ 0 \in 0..MaxResolutions
    OBVIOUS
  <2>1. CASE StartWork(u, t)
    <3>1. [row[t] EXCEPT !.status = "in_progress"] \in Row
      BY ONLY <2>r, Zenon DEF Row, Statuses
    <3> QED
      BY <2>1, <3>1, <1>r DEF StartWork, Done
  <2>2. CASE Close(u, t)
    <3>1. [row[t] EXCEPT !.status = "closed", !.closedAt = TRUE] \in Row
      BY ONLY <2>r, Zenon DEF Row, Statuses
    <3> QED
      BY <2>2, <3>1, <1>r DEF Close, Done
  <2>3. CASE Reopen(u, t)
    <3>1. row[t].window + 1 \in 1..MaxWindows
      BY <2>3, <2>r DEF Reopen, Row
    <3>2. [row[t] EXCEPT !.status = "open", !.window = row[t].window + 1, !.late = FALSE,
                         !.resolution = 0, !.lapsed = FALSE, !.breached = FALSE] \in Row
      BY ONLY <2>r, <3>1, Zenon DEF Row, Statuses
    <3> QED
      BY <2>3, <3>2, <1>r DEF Reopen, Done
  <2>4. CASE Resolve(u, t)
    <3>1. PICK n \in 1..MaxResolutions :
            /\ row' = [row EXCEPT ![t] = [@ EXCEPT !.status = "resolved",
                                           !.resolution = n, !.lapsed = FALSE]]
            /\ outbox' = outbox \union {<<"resolved", t, n>>}
      BY <2>4 DEF Resolve
    <3>2. n \in 0..MaxResolutions
      BY <3>1
    <3>3. [row[t] EXCEPT !.status = "resolved", !.resolution = n, !.lapsed = FALSE] \in Row
      BY ONLY <2>r, <3>2, Zenon DEF Row, Statuses
    <3>4. outbox' \in SUBSET Events
      BY <3>1 DEF Events
    <3> QED
      BY <2>4, <3>1, <3>3, <3>4, <1>r DEF Resolve, Done
  <2>5. CASE Rate(u, t)
    <3>1. call[u].stars \in Stars
      BY <2>5 DEF Rate, Call, Idle
    <3>2. [row[t] EXCEPT !.rating = call[u].stars] \in Row
      BY ONLY <2>r, <3>1, Zenon DEF Row
    <3> QED
      BY <2>5, <3>2, <1>r DEF Rate, Done
  <2> QED
    BY <1>1, <2>1, <2>2, <2>3, <2>4, <2>5 DEF Write
<1>2. ASSUME NEW u \in Users, NEW t \in Tickets, NEW to \in Statuses, CheckMove(u, t, to)
      PROVE  TypeOK'
  BY <1>2 DEF CheckMove, Call
<1>3. ASSUME NEW u \in Customers, NEW t \in Tickets, NEW stars \in Stars,
             CheckRating(u, t, stars)
      PROVE  TypeOK'
  BY <1>3 DEF CheckRating, Call, Users
<1>4. ASSUME NEW s \in Sweeps, ListDue(s) PROVE TypeOK'
  BY <1>4 DEF ListDue, Windows, Row
<1>5. ASSUME NEW s \in Sweeps, NEW t \in Tickets, Claim(s, t) PROVE TypeOK'
  <2>1. [row[t] EXCEPT !.breached = TRUE] \in Row
    BY Zenon DEF Row
  <2>2. outbox' \in SUBSET Events
    BY <1>5 DEF Claim, Events
  <2> QED
    BY <1>5, <2>1, <2>2, <1>r DEF Claim
<1>6. ASSUME NEW s \in Sweeps, SweepFails(s) PROVE TypeOK'
  BY <1>6 DEF SweepFails, Fault
<1>7. ASSUME NEW t \in Tickets, DeadlinePasses(t) PROVE TypeOK'
  <2>1. [row[t] EXCEPT !.late = TRUE] \in Row
    BY Zenon DEF Row
  <2>2. <<t, row[t].window>> \in Windows
    BY DEF Windows, Row
  <2> QED
    BY <1>7, <2>1, <2>2, <1>r DEF DeadlinePasses
<1>8. ASSUME NEW t \in Tickets, ReopenWindowEnds(t) PROVE TypeOK'
  <2>1. [row[t] EXCEPT !.lapsed = TRUE] \in Row
    BY Zenon DEF Row
  <2> QED
    BY <1>8, <2>1, <1>r DEF ReopenWindowEnds
<1>9. ASSUME NEW u \in Users, CallFails(u) PROVE TypeOK'
  BY <1>9 DEF CallFails, Fault, Done
<1>10. CASE UNCHANGED vars
  BY <1>10 DEF vars
<1> QED
  BY <1>1, <1>2, <1>3, <1>4, <1>5, <1>6, <1>7, <1>8, <1>9, <1>10 DEF Next, Sweep

----------------------------------------------------------------------------
(* Breaches                                                                *)

\* Nothing is listed or late at first.
LEMMA BreachInit == Init => BreachInv
<1> SUFFICES ASSUME Init PROVE BreachInv
  OBVIOUS
<1>1. \A t \in Tickets : row[t].late = FALSE
  BY Zenon DEF Init
<1> QED
  BY <1>1 DEF Init, BreachInv, ListsAreOverdue, BreachIsGenuine

\* Every step keeps the lists, and the breaches reported, among the overdue
\* windows.
LEMMA BreachPreserved == TypeOK /\ BreachInv /\ [Next]_vars => BreachInv'
<1> SUFFICES ASSUME TypeOK, BreachInv, [Next]_vars PROVE BreachInv'
  OBVIOUS
<1> USE DEF BreachInv, ListsAreOverdue, BreachIsGenuine
<1>t. row \in [Tickets -> Row] /\ due \in [Sweeps -> SUBSET Windows]
  BY DEF TypeOK
\* Steps that touch neither a list nor a breach.
<1>q. ASSUME UNCHANGED <<due, overdue>>,
             \A t \in Tickets, w \in 1..MaxWindows :
               <<"breached", t, w>> \in outbox' => <<"breached", t, w>> \in outbox,
             \A t \in Tickets :
               row'[t].late = TRUE => row[t].late = TRUE /\ row'[t].window = row[t].window
      PROVE  BreachInv'
  BY <1>q, Zenon
<1>1. ASSUME NEW u \in Users, NEW t \in Tickets, Write(u, t) PROVE BreachInv'
  <2>1. UNCHANGED <<due, overdue>>
    BY <1>1 DEF Write, StartWork, Close, Reopen, Resolve, Rate
  <2>2. \A v \in Tickets, w \in 1..MaxWindows :
          <<"breached", v, w>> \in outbox' => <<"breached", v, w>> \in outbox
    <3>1. \/ outbox' = outbox
          \/ \E n \in 1..MaxResolutions : outbox' = outbox \union {<<"resolved", t, n>>}
      BY <1>1, Zenon DEF Write, StartWork, Close, Reopen, Resolve, Rate
    <3> QED
      BY <3>1
  <2>3. \A v \in Tickets :
          row'[v].late = TRUE => row[v].late = TRUE /\ row'[v].window = row[v].window
    <3>1. CASE Reopen(u, t)
      <4>1. row'[t].late = FALSE
        BY <3>1, <1>t, Zenon DEF Reopen, Row
      <4>2. \A v \in Tickets : v # t => row'[v] = row[v]
        BY <3>1, <1>t DEF Reopen
      <4> QED
        BY <4>1, <4>2, Zenon
    <3>2. CASE StartWork(u, t)
      BY <3>2, <1>t DEF StartWork, Row
    <3>3. CASE Close(u, t)
      BY <3>3, <1>t DEF Close, Row
    <3>4. CASE Resolve(u, t)
      BY <3>4, <1>t DEF Resolve, Row
    <3>5. CASE Rate(u, t)
      BY <3>5, <1>t DEF Rate, Row
    <3> QED
      BY <1>1, <3>1, <3>2, <3>3, <3>4, <3>5 DEF Write
  <2> QED
    BY <2>1, <2>2, <2>3, <1>q
<1>2. ASSUME NEW u \in Users, NEW t \in Tickets, NEW to \in Statuses, CheckMove(u, t, to)
      PROVE  BreachInv'
  BY <1>2, <1>q DEF CheckMove
<1>3. ASSUME NEW u \in Customers, NEW t \in Tickets, NEW stars \in Stars,
             CheckRating(u, t, stars)
      PROVE  BreachInv'
  BY <1>3, <1>q DEF CheckRating
<1>4. ASSUME NEW s \in Sweeps, ListDue(s) PROVE BreachInv'
  BY <1>4, <1>t, Zenon DEF ListDue
<1>5. ASSUME NEW s \in Sweeps, NEW t \in Tickets, Claim(s, t) PROVE BreachInv'
  <2>1. PICK w \in 1..MaxWindows :
          /\ <<t, w>> \in due[s]
          /\ row' = [row EXCEPT ![t] = [@ EXCEPT !.breached = TRUE]]
          /\ \/ outbox' = outbox
             \/ outbox' = outbox \union {<<"breached", t, w>>}
          /\ due' = [due EXCEPT ![s] = @ \ {<<t, w>>}]
          /\ overdue' = overdue
    BY <1>5, Zenon DEF Claim
  <2>2. \A r \in Sweeps : due'[r] \subseteq overdue'
    BY <2>1, <1>t
  <2>3. \A v \in Tickets : row'[v].late = row[v].late /\ row'[v].window = row[v].window
    BY <2>1, <1>t DEF Row
  <2>4. BreachIsGenuine'
    BY <2>1
  <2> QED
    BY <2>1, <2>2, <2>3, <2>4
<1>6. ASSUME NEW s \in Sweeps, SweepFails(s) PROVE BreachInv'
  BY <1>6, <1>t DEF SweepFails
<1>7. ASSUME NEW t \in Tickets, DeadlinePasses(t) PROVE BreachInv'
  <2>1. \A v \in Tickets : v # t => row'[v] = row[v]
    BY <1>7, <1>t DEF DeadlinePasses
  <2>2. row'[t].window = row[t].window
    BY <1>7, <1>t DEF DeadlinePasses, Row
  <2>3. /\ overdue' = overdue \union {<<t, row[t].window>>}
        /\ UNCHANGED <<outbox, due>>
    BY <1>7 DEF DeadlinePasses
  <2> QED
    BY <2>1, <2>2, <2>3
<1>8. ASSUME NEW t \in Tickets, ReopenWindowEnds(t) PROVE BreachInv'
  <2>1. \A v \in Tickets : row'[v].late = row[v].late /\ row'[v].window = row[v].window
    BY <1>8, <1>t DEF ReopenWindowEnds, Row
  <2> QED
    BY <1>8, <2>1, <1>q DEF ReopenWindowEnds
<1>9. ASSUME NEW u \in Users, CallFails(u) PROVE BreachInv'
  BY <1>9, <1>q DEF CallFails
<1>10. CASE UNCHANGED vars
  BY <1>10, <1>q DEF vars
<1> QED
  BY <1>1, <1>2, <1>3, <1>4, <1>5, <1>6, <1>7, <1>8, <1>9, <1>10 DEF Next, Sweep

----------------------------------------------------------------------------
(* Resolutions                                                             *)

\* No ticket is resolved at first.
LEMMA ResolutionInit == Init => ResolutionInv
<1> SUFFICES ASSUME Init PROVE ResolutionInv
  OBVIOUS
<1>1. \A t \in Tickets : row[t].resolution = 0 /\ row[t].status = "open"
  BY DEF Init
<1>2. \A t \in Tickets : Resolutions(t) = {}
  BY DEF Init, Resolutions
<1> QED
  BY <1>1, <1>2 DEF ResolutionInv, AnnouncedInOrder, ResolutionIsAnnounced

\* Every step keeps the resolutions of a ticket in order and announced.
LEMMA ResolutionPreserved == TypeOK /\ ResolutionInv /\ [Next]_vars => ResolutionInv'
<1> SUFFICES ASSUME TypeOK, ResolutionInv, [Next]_vars PROVE ResolutionInv'
  OBVIOUS
<1> USE DEF ResolutionInv, AnnouncedInOrder, ResolutionIsAnnounced
<1>t. row \in [Tickets -> Row]
  BY DEF TypeOK
\* Steps that resolve nothing: a reopened ticket has no resolution.
<1>q. ASSUME \A t \in Tickets : Resolutions(t)' = Resolutions(t),
             \A t \in Tickets, n \in 1..MaxResolutions :
               <<"resolved", t, n>> \in outbox => <<"resolved", t, n>> \in outbox',
             \A t \in Tickets :
               /\ row'[t].resolution \in {0, row[t].resolution}
               /\ row'[t].status = "resolved" =>
                    /\ row[t].status = "resolved"
                    /\ row'[t].resolution = row[t].resolution
      PROVE  ResolutionInv'
  <2>1. AnnouncedInOrder'
    BY <1>q
  <2>2. ASSUME NEW t \in Tickets, row'[t].resolution # 0, NEW n \in 1..row'[t].resolution
        PROVE  <<"resolved", t, n>> \in outbox'
    BY <2>2, <1>q, <1>t, DeskAssumption DEF Row, DeskAssumption
  <2>3. ASSUME NEW t \in Tickets, row'[t].status = "resolved"
        PROVE  row'[t].resolution # 0
    BY <2>3, <1>q
  <2> QED
    BY <2>1, <2>2, <2>3
<1>1. ASSUME NEW u \in Users, NEW t \in Tickets, Write(u, t) PROVE ResolutionInv'
  <2>1. CASE StartWork(u, t) \/ Close(u, t) \/ Reopen(u, t) \/ Rate(u, t)
    <3>1. outbox' = outbox
      BY <2>1 DEF StartWork, Close, Reopen, Rate
    <3>2. \A v \in Tickets :
            /\ row'[v].resolution \in {0, row[v].resolution}
            /\ row'[v].status = "resolved" =>
                 /\ row[v].status = "resolved"
                 /\ row'[v].resolution = row[v].resolution
      <4>1. CASE StartWork(u, t)
        BY <4>1, <1>t DEF StartWork, Row
      <4>2. CASE Close(u, t)
        BY <4>2, <1>t DEF Close, Row
      <4>3. CASE Reopen(u, t)
        BY <4>3, <1>t DEF Reopen, Row
      <4>4. CASE Rate(u, t)
        BY <4>4, <1>t DEF Rate, Row
      <4> QED
        BY <2>1, <4>1, <4>2, <4>3, <4>4
    <3> QED
      BY <3>1, <3>2, <1>q DEF Resolutions
  <2>2. CASE Resolve(u, t)
    <3>1. PICK n \in 1..MaxResolutions :
            /\ n = 1 \/ n - 1 \in Resolutions(t)
            /\ row' = [row EXCEPT ![t] = [@ EXCEPT !.status = "resolved",
                                           !.resolution = n, !.lapsed = FALSE]]
            /\ outbox' = outbox \union {<<"resolved", t, n>>}
      BY <2>2 DEF Resolve
    <3>2. \A v \in Tickets : v # t => row'[v] = row[v]
      BY <3>1, <1>t
    <3>3. row'[t].status = "resolved" /\ row'[t].resolution = n
      BY <3>1, <1>t DEF Row
    <3>4. /\ \A v \in Tickets : v # t => Resolutions(v)' = Resolutions(v)
          /\ Resolutions(t)' = Resolutions(t) \union {n}
      BY <3>1 DEF Resolutions
    <3>5. 1..n \subseteq Resolutions(t)'
      BY <3>1, <3>4, DeskAssumption DEF DeskAssumption
    <3>6. AnnouncedInOrder'
      BY <3>4, <3>5, Zenon
    <3>7. \A m \in 1..n : <<"resolved", t, m>> \in outbox'
      BY <3>5 DEF Resolutions
    <3>8. ResolutionIsAnnounced'
      BY <3>1, <3>2, <3>3, <3>7
    <3> QED
      BY <3>6, <3>8
  <2> QED
    BY <1>1, <2>1, <2>2 DEF Write
<1>2. ASSUME NEW u \in Users, NEW t \in Tickets, NEW to \in Statuses, CheckMove(u, t, to)
      PROVE  ResolutionInv'
  BY <1>2, <1>q DEF CheckMove, Resolutions
<1>3. ASSUME NEW u \in Customers, NEW t \in Tickets, NEW stars \in Stars,
             CheckRating(u, t, stars)
      PROVE  ResolutionInv'
  BY <1>3, <1>q DEF CheckRating, Resolutions
<1>4. ASSUME NEW s \in Sweeps, ListDue(s) PROVE ResolutionInv'
  BY <1>4, <1>q DEF ListDue, Resolutions
<1>5. ASSUME NEW s \in Sweeps, NEW t \in Tickets, Claim(s, t) PROVE ResolutionInv'
  <2>1. PICK w \in 1..MaxWindows :
          /\ row' = [row EXCEPT ![t] = [@ EXCEPT !.breached = TRUE]]
          /\ \/ outbox' = outbox
             \/ outbox' = outbox \union {<<"breached", t, w>>}
    BY <1>5, Zenon DEF Claim
  <2>2. \A v \in Tickets :
          row'[v].resolution = row[v].resolution /\ row'[v].status = row[v].status
    BY <2>1, <1>t DEF Row
  <2>3. \A v \in Tickets, n \in 1..MaxResolutions :
          <<"resolved", v, n>> \in outbox' <=> <<"resolved", v, n>> \in outbox
    <3>1. CASE outbox' = outbox
      BY <3>1
    <3>2. CASE outbox' = outbox \union {<<"breached", t, w>>}
      BY <3>2, \A v, n : <<"resolved", v, n>> # <<"breached", t, w>>
    <3> QED
      BY <2>1, <3>1, <3>2
  <2> QED
    BY <2>2, <2>3, <1>q DEF Resolutions
<1>6. ASSUME NEW s \in Sweeps, SweepFails(s) PROVE ResolutionInv'
  BY <1>6, <1>q DEF SweepFails, Resolutions
<1>7. ASSUME NEW t \in Tickets, DeadlinePasses(t) \/ ReopenWindowEnds(t) PROVE ResolutionInv'
  <2>1. \A v \in Tickets :
          row'[v].resolution = row[v].resolution /\ row'[v].status = row[v].status
    BY <1>7, <1>t DEF DeadlinePasses, ReopenWindowEnds, Row
  <2>2. outbox' = outbox
    BY <1>7 DEF DeadlinePasses, ReopenWindowEnds
  <2> QED
    BY <2>1, <2>2, <1>q DEF Resolutions
<1>8. ASSUME NEW u \in Users, CallFails(u) PROVE ResolutionInv'
  BY <1>8, <1>q DEF CallFails, Resolutions
<1>9. CASE UNCHANGED vars
  BY <1>9, <1>q DEF vars, Resolutions
<1> QED
  BY <1>1, <1>2, <1>3, <1>4, <1>5, <1>6, <1>7, <1>8, <1>9 DEF Next, Sweep

----------------------------------------------------------------------------
(* Ratings                                                                 *)

\* No ticket is settled or rated at first.
LEMMA RatingInit == Init => RatingInv
<1> SUFFICES ASSUME Init PROVE RatingInv
  OBVIOUS
<1>1. \A t \in Tickets : row[t].status = "open" /\ row[t].rating = 0
  BY DEF Init
<1>2. \A u \in Users : call[u].does = "nothing"
  BY DEF Init, Idle
<1> QED
  BY <1>1, <1>2 DEF RatingInv, SettledWasWorked, RatingJudgesWork

\* What was settled once stays so: closedAt is never cleared, and no event is
\* taken back.
LEMMA SettledStays ==
  ASSUME TypeOK, [Next]_vars, NEW t \in Tickets, WasSettled(t)
  PROVE  WasSettled(t)'
<1>t. row \in [Tickets -> Row]
  BY DEF TypeOK
<1>1. outbox \subseteq outbox'
  BY Zenon DEF Next, Write, StartWork, Close, Reopen, Resolve, Rate, CheckMove, CheckRating,
       Sweep, ListDue, Claim, SweepFails, DeadlinePasses, ReopenWindowEnds, CallFails, vars
<1>2. ASSUME row[t].closedAt = TRUE PROVE row'[t].closedAt = TRUE
  <2>1. ASSUME NEW u \in Users, NEW v \in Tickets, Write(u, v) PROVE row'[t].closedAt = TRUE
    <3>1. CASE StartWork(u, v)
      BY <3>1, <1>2, <1>t DEF StartWork, Row
    <3>2. CASE Close(u, v)
      <4>1. CASE v = t
        BY <3>2, <4>1, <1>t, Zenon DEF Close, Row
      <4>2. CASE v # t
        BY <3>2, <4>2, <1>2, <1>t DEF Close
      <4> QED
        BY <4>1, <4>2
    <3>3. CASE Reopen(u, v)
      BY <3>3, <1>2, <1>t DEF Reopen, Row
    <3>4. CASE Resolve(u, v)
      BY <3>4, <1>2, <1>t DEF Resolve, Row
    <3>5. CASE Rate(u, v)
      BY <3>5, <1>2, <1>t DEF Rate, Row
    <3> QED
      BY <2>1, <3>1, <3>2, <3>3, <3>4, <3>5 DEF Write
  <2>2. ASSUME NEW s \in Sweeps, NEW v \in Tickets, Claim(s, v) PROVE row'[t].closedAt = TRUE
    BY <2>2, <1>2, <1>t DEF Claim, Row
  <2>3. ASSUME NEW v \in Tickets, DeadlinePasses(v) PROVE row'[t].closedAt = TRUE
    BY <2>3, <1>2, <1>t DEF DeadlinePasses, Row
  <2>4. ASSUME NEW v \in Tickets, ReopenWindowEnds(v) PROVE row'[t].closedAt = TRUE
    BY <2>4, <1>2, <1>t DEF ReopenWindowEnds, Row
  <2>5. CASE row' = row
    BY <2>5, <1>2
  <2> QED
    BY <2>1, <2>2, <2>3, <2>4, <2>5
    DEF Next, CheckMove, CheckRating, Sweep, ListDue, SweepFails, CallFails, vars
<1> QED
  BY <1>1, <1>2 DEF WasSettled, Resolutions

\* Every step keeps ratings, and the calls about to give one, to tickets that
\* were resolved or closed.
LEMMA RatingPreserved == TypeOK /\ RatingInv /\ [Next]_vars => RatingInv'
<1> SUFFICES ASSUME TypeOK, RatingInv, [Next]_vars PROVE RatingInv'
  OBVIOUS
<1> USE DEF RatingInv, SettledWasWorked
<1>t. row \in [Tickets -> Row] /\ call \in [Users -> Call \union {Idle}]
  BY DEF TypeOK
<1>s. \A t \in Tickets : WasSettled(t) => WasSettled(t)'
  BY SettledStays
<1>c. \A u \in Users : call[u].does = "rate" => call[u].t \in Tickets
  BY <1>t DEF Call, Idle
\* A rating and a settled status are new only when the ticket was settled.
<1>q. ASSUME \A t \in Tickets :
               row'[t].status \in {"resolved", "closed"} \/ row'[t].rating # 0 =>
                 \/ row[t].status \in {"resolved", "closed"} \/ row[t].rating # 0
                 \/ WasSettled(t)',
             \A u \in Users : call'[u].does = "rate" =>
               \/ call'[u] = call[u]
               \/ call'[u].t \in Tickets /\ WasSettled(call'[u].t)
      PROVE  RatingInv'
  <2>1. \A t \in Tickets :
          row'[t].status \in {"resolved", "closed"} \/ row'[t].rating # 0 => WasSettled(t)'
    BY <1>q, <1>s
  <2>2. ASSUME NEW u \in Users, call'[u].does = "rate" PROVE WasSettled(call[u].t)'
    <3>1. call'[u].t \in Tickets /\ WasSettled(call'[u].t)
      BY <2>2, <1>q, <1>c
    <3>2. PICK t \in Tickets : t = call'[u].t
      BY <3>1
    <3>3. WasSettled(t)'
      BY <3>1, <3>2, <1>s
    <3> QED
      BY <3>2, <3>3 DEF WasSettled, Resolutions
  <2>3. \A t \in Tickets : WasSettled(t)' => row'[t].closedAt \/ Resolutions(t)' # {}
    BY Zenon DEF WasSettled
  <2>4. RatingJudgesWork'
    BY <2>1, <2>3, Zenon DEF RatingJudgesWork
  <2> QED
    BY <2>1, <2>2, <2>4
<1>1. ASSUME NEW u \in Users, NEW t \in Tickets, Write(u, t) PROVE RatingInv'
  <2>1. \A v \in Users : call'[v].does = "rate" => call'[v] = call[v]
    <3>1. call' = [call EXCEPT ![u] = Idle]
      BY <1>1, Zenon DEF Write, StartWork, Close, Reopen, Resolve, Rate, Done
    <3> QED
      BY <3>1, <1>t DEF Idle
  <2>2. \A v \in Tickets : v # t => row'[v] = row[v]
    BY <1>1, <1>t DEF Write, StartWork, Close, Reopen, Resolve, Rate
  <2>3. ASSUME row'[t].status \in {"resolved", "closed"} \/ row'[t].rating # 0
        PROVE  \/ row[t].status \in {"resolved", "closed"} \/ row[t].rating # 0
               \/ WasSettled(t)'
    <3>1. CASE StartWork(u, t)
      BY <2>3, <3>1, <1>t DEF StartWork, Row
    <3>2. CASE Close(u, t)
      <4>1. row'[t].closedAt = TRUE
        BY <3>2, <1>t, Zenon DEF Close, Row
      <4> QED
        BY <4>1 DEF WasSettled
    <3>3. CASE Reopen(u, t)
      BY <2>3, <3>3, <1>t DEF Reopen, Row
    <3>4. CASE Resolve(u, t)
      <4>1. Resolutions(t)' # {}
        BY <3>4 DEF Resolve, Resolutions
      <4> QED
        BY <4>1 DEF WasSettled
    <3>5. CASE Rate(u, t)
      BY <3>5, <1>s DEF Rate
    <3> QED
      BY <1>1, <3>1, <3>2, <3>3, <3>4, <3>5 DEF Write
  <2> QED
    BY <2>1, <2>2, <2>3, <1>q
<1>2. ASSUME NEW u \in Users, NEW t \in Tickets, NEW to \in Statuses, CheckMove(u, t, to)
      PROVE  RatingInv'
  BY <1>2, <1>q, <1>t DEF CheckMove
<1>3. ASSUME NEW u \in Customers, NEW t \in Tickets, NEW stars \in Stars,
             CheckRating(u, t, stars)
      PROVE  RatingInv'
  <2>1. WasSettled(t)
    BY <1>3 DEF CheckRating, CanRate
  <2>2. \A v \in Users : call'[v] = call[v] \/ call'[v].t = t
    BY <1>3, <1>t DEF CheckRating
  <2>3. row' = row
    BY <1>3 DEF CheckRating
  <2> QED
    BY <2>1, <2>2, <2>3, <1>q
<1>4. ASSUME NEW s \in Sweeps, ListDue(s) \/ SweepFails(s) PROVE RatingInv'
  BY <1>4, <1>q DEF ListDue, SweepFails
<1>5. ASSUME NEW s \in Sweeps, NEW t \in Tickets, Claim(s, t) PROVE RatingInv'
  <2>1. \A v \in Tickets : row'[v].status = row[v].status /\ row'[v].rating = row[v].rating
    BY <1>5, <1>t DEF Claim, Row
  <2>2. call' = call
    BY <1>5 DEF Claim
  <2> QED
    BY <2>1, <2>2, <1>q
<1>6. ASSUME NEW t \in Tickets, DeadlinePasses(t) \/ ReopenWindowEnds(t) PROVE RatingInv'
  <2>1. \A v \in Tickets : row'[v].status = row[v].status /\ row'[v].rating = row[v].rating
    BY <1>6, <1>t DEF DeadlinePasses, ReopenWindowEnds, Row
  <2>2. call' = call
    BY <1>6 DEF DeadlinePasses, ReopenWindowEnds
  <2> QED
    BY <2>1, <2>2, <1>q
<1>7. ASSUME NEW u \in Users, CallFails(u) PROVE RatingInv'
  BY <1>7, <1>q, <1>t DEF CallFails, Done, Idle
<1>8. CASE UNCHANGED vars
  BY <1>8, <1>q DEF vars
<1> QED
  BY <1>1, <1>2, <1>3, <1>4, <1>5, <1>6, <1>7, <1>8 DEF Next, Sweep

----------------------------------------------------------------------------
(* Theorems                                                                *)

\* The invariant holds in every state the desk can reach.
THEOREM DeskInvariance == Spec => []Inv
<1>1. Init => Inv
  BY TypeInit, BreachInit, ResolutionInit, RatingInit DEF Inv
<1>2. Inv /\ [Next]_vars => Inv'
  BY TypePreserved, BreachPreserved, ResolutionPreserved, RatingPreserved DEF Inv
<1> QED
  BY <1>1, <1>2, PTL DEF Spec

\* Every variable of the desk keeps its type.
THEOREM DeskTypeCorrect == Spec => []TypeOK
<1>1. Inv => TypeOK
  BY DEF Inv
<1> QED
  BY <1>1, DeskInvariance, PTL

\* Only windows whose deadline has passed are reported as breached.
THEOREM BreachesAreGenuine == Spec => []BreachIsGenuine
<1>1. Inv => BreachIsGenuine
  BY DEF Inv, BreachInv
<1> QED
  BY <1>1, DeskInvariance, PTL

\* Every resolution is announced, the ones a rival call replaced included.
THEOREM ResolutionsAreAnnounced == Spec => []ResolutionIsAnnounced
<1>1. Inv => ResolutionIsAnnounced
  BY DEF Inv, ResolutionInv
<1> QED
  BY <1>1, DeskInvariance, PTL

\* Only a ticket that was once resolved or closed is rated.
THEOREM RatingsJudgeWork == Spec => []RatingJudgesWork
<1>1. Inv => RatingJudgesWork
  BY DEF Inv, RatingInv
<1> QED
  BY <1>1, DeskInvariance, PTL
============================================================================
