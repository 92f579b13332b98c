----------------------- MODULE CreditDecision_proofs -----------------------
(***************************************************************************)
(* Theorems about CreditDecision, for any requests, users, clerks, workers *)
(* and bounds.  The desk and the fan-out share no variable, so each has    *)
(* its own inductive invariant.                                            *)
(***************************************************************************)
EXTENDS CreditDecision, FiniteSetTheorems, TLAPS

\* A request that is open, or not yet there, has not been decided.
OpenIsUndecided ==
  \A r \in Requests : request[r].state \in {"absent", "pending"} => decided[r] = Undecided

\* What a call is about to write was right when it was read: the ask exceeds
\* the limit read with it, and the row to be written is there.
CallsAreChecked ==
  \A c \in Buyers \union Clerks :
    /\ calls[c].does = "ask" => calls[c].requested > calls[c].current
    /\ calls[c].does \in {"withdraw", "decide"} => request[calls[c].r].state # "absent"

AbsentIsAbsent == \A r \in Requests : request[r].state = "absent" => request[r] = Absent

DeskInv == OpenIsUndecided /\ AgreedIsAnnounced /\ CallsAreChecked /\ AbsentIsAbsent
             /\ AskIsAnIncrease

\* A recipient has the row of a template, and the row has what it asks for.
IsTold(e, t, u) ==
  /\ <<e, t, u>> \in inbox
  /\ t \in Mailing => <<e, t, u>> \in sent \union bounced

\* How far a worker has come with its event: all templates before its own are
\* done with, and of its own template nobody is forgotten.
TellsInOrder(m) ==
  mailer[m] # NoTry =>
    /\ \A u \in eligible, t \in 1..Templates :
         t < mailer[m].t => IsTold(mailer[m].e, t, u)
    /\ mailer[m].at = "write" => eligible \subseteq mailer[m].to
    /\ mailer[m].at \notin {"resolve", "write"} =>
         /\ mailer[m].t \in Mailing
         /\ \A u \in eligible :
              /\ Row(m, u) \in inbox
              /\ \/ u \in mailer[m].to
                 \/ mailer[m].at # "mirror" /\ mailer[m].u = u
                 \/ Row(m, u) \in sent \union bounced

TellInv == CompletedMeansTold /\ \A m \in Mailers : TellsInOrder(m)

\* A worker has sent a mail of row n and not recorded it yet; it is about to
\* send one.
HasMailed(m, n) == At(m, "went") /\ Row(m, mailer[m].u) = n
WillMail(m, n) == At(m, "send") /\ Row(m, mailer[m].u) = n

\* The workers that may yet send a mail of row n: once one is on record, only
\* those that looked at the row before that; until then, all that have the
\* job, but for those that have sent theirs.
MayMail(n) ==
  {m \in Mailers : /\ Runs(m, n[1])
                   /\ IF n \in sent THEN WillMail(m, n) ELSE ~HasMailed(m, n)}

\* The mails that went out and those that may yet go out are explained; and a
\* job that nobody holds, with no mail on record, leaves room for the next run,
\* whoever still runs it without the lock.
MailsAreBounded(n) ==
  /\ mails[n] + Cardinality(MayMail(n)) <= 1 + doubts[n[1]]
  /\ n \notin sent /\ holder[n[1]] = Nobody
       => mails[n] + Cardinality(MayMail(n)) <= doubts[n[1]]

\* Who has the lock of a job runs it.
LocksAreHeld == \A e \in Facts : holder[e] # Nobody => Runs(holder[e], e)

Running == {m \in Mailers : mailer[m] # NoTry}

MailInv ==
  IsFiniteSet(Running) /\ LocksAreHeld /\ \A n \in Notes : MailsAreBounded(n)

Inv == TypeOK /\ DeskInv /\ TellInv /\ MailInv

----------------------------------------------------------------------------
(* Types                                                                   *)

\* A step of the desk keeps the types of the desk.
LEMMA CreditTypePreserved == CreditTypeOK /\ CreditNext => CreditTypeOK'
<1> SUFFICES ASSUME CreditTypeOK, CreditNext PROVE CreditTypeOK'
  OBVIOUS
<1> USE CreditAssumption DEF CreditAssumption, CreditTypeOK
<1>e. ASSUME NEW c \in Buyers \union Clerks, Ends(c)
      PROVE  calls' \in [Buyers \union Clerks -> Call \union {NoCall}]
  BY <1>e DEF Ends
<1>o. ASSUME NEW c \in Buyers \union Clerks, NEW what \in Call, Opens(c, what)
      PROVE  calls' \in [Buyers \union Clerks -> Call \union {NoCall}]
  BY <1>o DEF Opens
<1>r. ASSUME NEW r \in Requests, NEW new \in RequestRow, request' = [request EXCEPT ![r] = new]
      PROVE  request' \in [Requests -> RequestRow]
  BY <1>r
<1>1. ASSUME NEW b \in Buyers, NEW l \in Limits, CheckOpenAsk(b, l) PROVE CreditTypeOK'
  <2>1. [does |-> "check", requested |-> l, current |-> 1] \in Call
    BY DEF Call, Limits
  <2> QED
    BY <1>1, <2>1, <1>o DEF CheckOpenAsk
<1>2. ASSUME NEW b \in Buyers, ReadPosition(b) PROVE CreditTypeOK'
  <2>1. calls[b] \in Call /\ calls[b].requested \in Limits
    BY <1>2 DEF ReadPosition, Call, NoCall
  <2>2. [does |-> "ask", requested |-> calls[b].requested, current |-> limit] \in Call
    BY <2>1 DEF Call
  <2> QED
    BY <1>2, <2>2 DEF ReadPosition
<1>3. ASSUME NEW b \in Buyers, NEW r \in Requests, CreateRequest(b, r) PROVE CreditTypeOK'
  <2>1. calls[b].requested \in Limits /\ calls[b].current \in Limits
    BY <1>3 DEF CreateRequest, Call, NoCall
  <2>2. [state |-> "pending", requested |-> calls[b].requested,
         current |-> calls[b].current, agreed |-> 0] \in RequestRow
    BY <2>1 DEF RequestRow, States
  <2> QED
    BY <1>3, <2>2, <1>e, <1>r DEF CreateRequest
<1>4. ASSUME NEW b \in Buyers, NEW r \in Requests, CheckWithdrawal(b, r) PROVE CreditTypeOK'
  <2>1. [does |-> "withdraw", r |-> r] \in Call
    BY DEF Call
  <2> QED
    BY <1>4, <2>1, <1>o DEF CheckWithdrawal
<1>5. ASSUME NEW b \in Buyers, Withdraw(b) PROVE CreditTypeOK'
  <2>1. calls[b].r \in Requests
    BY <1>5 DEF Withdraw, Call, NoCall
  <2>2. [request[calls[b].r] EXCEPT !.state = "withdrawn"] \in RequestRow
    BY <2>1, ZenonT(30) DEF RequestRow, States
  <2> QED
    BY <1>5, <2>1, <2>2, <1>e, <1>r DEF Withdraw
<1>6. ASSUME NEW c \in Clerks, NEW r \in Requests, NEW d \in Decision, CheckDecision(c, r, d)
      PROVE  CreditTypeOK'
  <2>1. [does |-> "decide", r |-> r, decision |-> d] \in Call
    BY DEF Call
  <2> QED
    BY <1>6, <2>1, <1>o DEF CheckDecision
<1>7. ASSUME NEW c \in Clerks, Decide(c) PROVE CreditTypeOK'
  <2> DEFINE r == calls[c].r  d == calls[c].decision
  <2>1. r \in Requests /\ d \in Decision
    BY <1>7 DEF Decide, Holds, Call, NoCall
  <2>2. d.state \in States /\ d.agreed \in 0..MaxLimit
    BY <2>1 DEF Decision, States, Limits
  <2>3. [request[r] EXCEPT !.state = d.state, !.agreed = d.agreed] \in RequestRow
    <3>1. request[r] \in RequestRow /\ d.state \in States \union {"absent"}
      BY <2>1, <2>2
    <3> HIDE DEF r, d
    <3> QED
      BY ONLY <2>2, <3>1, Zenon DEF RequestRow
  <2> QED
    BY <1>7, <2>1, <2>3, <1>e, <1>r DEF Decide
<1>8. ASSUME NEW c \in Clerks, DecideTooLate(c) PROVE CreditTypeOK'
  BY <1>8, <1>e DEF DecideTooLate
<1>9. ASSUME NEW l \in Limits, MaintainLimit(l) PROVE CreditTypeOK'
  BY <1>9 DEF MaintainLimit
<1>10. ASSUME NEW c \in Buyers \union Clerks, CallDies(c) PROVE CreditTypeOK'
  BY <1>10, <1>e DEF CallDies
<1> QED
  BY <1>1, <1>2, <1>3, <1>4, <1>5, <1>6, <1>7, <1>8, <1>9, <1>10 DEF CreditNext

\* What a try that has begun looks like.
LEMMA TryBegun ==
  ASSUME FanOutTypeOK, NEW m \in Mailers, mailer[m].at # "idle"
  PROVE  mailer[m] \in Try
<1>1. mailer[m] \in Try \union {NoTry}
  BY DEF FanOutTypeOK
<1> QED
  BY <1>1 DEF NoTry

\* Moving on to the next template keeps the types.
LEMMA NextTemplateType ==
  ASSUME FanOutTypeOK, NEW m \in Mailers, mailer[m] \in Try, NextTemplate(m)
  PROVE  /\ mailer' \in [Mailers -> Try \union {NoTry}]
         /\ told' \in SUBSET Facts
         /\ holder' \in [Facts -> Mailers \union {Nobody}]
<1>1. mailer[m].e \in Facts /\ mailer[m].t \in 1..Templates
  BY DEF Try
<1>2. CASE mailer[m].t < Templates
  <2>1. mailer[m].t + 1 \in 1..Templates
    BY <1>1, <1>2, FanOutAssumption DEF FanOutAssumption
  <2>2. [mailer[m] EXCEPT !.at = "resolve", !.t = mailer[m].t + 1, !.to = {}, !.u = Nobody]
          \in Try
    <3>1. {} \in SUBSET Users
      OBVIOUS
    <3> QED
      BY <2>1, <3>1 DEF Try
  <2> QED
    BY <1>2, <2>2 DEF NextTemplate, FanOutTypeOK, jobVars
<1>3. CASE ~(mailer[m].t < Templates)
  BY <1>1, <1>3 DEF NextTemplate, FanOutTypeOK, jobVars
<1> QED
  BY <1>2, <1>3

\* Every step of a worker, and of the people, keeps the types of the fan-out.
LEMMA FanOutTypePreserved ==
  ASSUME FanOutTypeOK,
         \/ \E m \in Mailers : FanOut(m) \/ OvertakenEnds(m)
         \/ \E m \in Mailers, e \in Facts :
              Take(m, e) \/ MailerDies(m, e) \/ HandlerThrows(m, e)
         \/ \E e \in Facts : Stall(e)
         \/ \E u \in Users : MarkNotificationsRead(u) \/ Leave(u)
  PROVE  FanOutTypeOK'
<1> USE FanOutAssumption
    DEF FanOutAssumption, FanOutTypeOK, rowVars, jobVars, faultVars, runVars, peopleVars
<1>m. ASSUME NEW m \in Mailers, NEW new \in Try \union {NoTry},
             mailer' = [mailer EXCEPT ![m] = new]
      PROVE  mailer' \in [Mailers -> Try \union {NoTry}]
  BY <1>m
<1>s. ASSUME NEW m \in Mailers, NEW e \in Facts, Starts(m, e)
      PROVE  mailer' \in [Mailers -> Try \union {NoTry}]
  <2>1. [at |-> "resolve", e |-> e, t |-> 1, to |-> {}, u |-> Nobody] \in Try
    BY DEF Try
  <2> QED
    BY <2>1, <1>s, <1>m DEF Starts
<1>c. ASSUME NEW e \in Facts, NEW f \in [Facts -> 0..MaxFanOutFaults], FaultLeft(e),
             f = stalls \/ f = tries
      PROVE  Plus(f, e) \in [Facts -> 0..MaxFanOutFaults]
  <2>1. stalls[e] + 1 \in 0..MaxFanOutFaults /\ tries[e] + 1 \in 0..MaxFanOutFaults
    BY <1>c DEF FaultLeft
  <2>2. f[e] + 1 \in 0..MaxFanOutFaults
    BY <1>c, <2>1
  <2> QED
    BY <1>c, <2>2 DEF Plus
<1>d. ASSUME NEW e \in Facts PROVE Plus(doubts, e) \in [Facts -> Nat]
  BY <1>d DEF Plus
<1>n. ASSUME NEW m \in Mailers, mailer[m] \in Try, NEW u \in Users
      PROVE  Row(m, u) \in Notes
  BY <1>n DEF Row, Notes, Try
<1>1. ASSUME NEW m \in Mailers, NEW e \in Facts, Take(m, e) PROVE FanOutTypeOK'
  BY <1>1, <1>s DEF Take
<1>2. ASSUME NEW e \in Facts, Stall(e) PROVE FanOutTypeOK'
  <2>1. stalls' \in [Facts -> 0..MaxFanOutFaults] /\ doubts' \in [Facts -> Nat]
    BY <1>2, <1>c, <1>d DEF Stall
  <2> QED
    BY <1>2, <2>1 DEF Stall
<1>b. ASSUME NEW m \in Mailers, NEW e \in Facts, BreaksOff(m, e),
             \/ stalls' = Plus(stalls, e) /\ UNCHANGED tries
             \/ tries' = Plus(tries, e) /\ UNCHANGED stalls
      PROVE  FanOutTypeOK'
  <2>1. /\ stalls' \in [Facts -> 0..MaxFanOutFaults]
        /\ tries' \in [Facts -> 0..MaxFanOutFaults]
    BY <1>b, <1>c DEF BreaksOff
  <2>2. doubts' \in [Facts -> Nat]
    BY <1>b, <1>d DEF BreaksOff
  <2>3. mailer' \in [Mailers -> Try \union {NoTry}]
    BY <1>b, <1>m DEF BreaksOff
  <2> QED
    BY <1>b, <2>1, <2>2, <2>3 DEF BreaksOff
<1>3. ASSUME NEW m \in Mailers, NEW e \in Facts, MailerDies(m, e) \/ HandlerThrows(m, e)
      PROVE  FanOutTypeOK'
  BY <1>3, <1>b DEF MailerDies, HandlerThrows
<1>12. ASSUME NEW m \in Mailers, OvertakenEnds(m) PROVE FanOutTypeOK'
  BY <1>12, <1>m DEF OvertakenEnds
<1>4. ASSUME NEW m \in Mailers, ResolveRecipients(m) PROVE FanOutTypeOK'
  <2>1. mailer[m] \in Try
    BY <1>4, TryBegun DEF ResolveRecipients, At
  <2>2. [mailer[m] EXCEPT !.at = "write", !.to = eligible] \in Try
    BY <1>4, <2>1 DEF Try, ResolveRecipients, At
  <2> QED
    BY <1>4, <2>2, <1>m DEF ResolveRecipients
<1>5. ASSUME NEW m \in Mailers, WriteInboxRows(m) PROVE FanOutTypeOK'
  <2>1. mailer[m] \in Try
    BY <1>5, TryBegun DEF WriteInboxRows, At
  <2>2. inbox' \in SUBSET Notes
    <3>1. mailer[m].to \subseteq Users
      BY <2>1 DEF Try
    <3> QED
      BY <1>5, <2>1, <3>1, <1>n DEF WriteInboxRows
  <2>3. [mailer[m] EXCEPT !.at = "mirror"] \in Try
    BY <1>5, <2>1 DEF Try, WriteInboxRows, At
  <2>4. /\ mailer' \in [Mailers -> Try \union {NoTry}] /\ told' \in SUBSET Facts
        /\ holder' \in [Facts -> Mailers \union {Nobody}]
    BY <1>5, <2>1, <2>3, <1>m, NextTemplateType DEF WriteInboxRows
  <2> QED
    BY <1>5, <2>2, <2>4 DEF WriteInboxRows
<1>6. ASSUME NEW m \in Mailers, NEW u \in Users, MirrorByEmail(m, u) PROVE FanOutTypeOK'
  <2>1. mailer[m] \in Try
    BY <1>6, TryBegun DEF MirrorByEmail, At
  <2>2. mailer[m].to \ {u} \in SUBSET Users
    BY <2>1 DEF Try
  <2>3. [mailer[m] EXCEPT !.to = mailer[m].to \ {u}] \in Try
    BY <1>6, <2>1, <2>2 DEF Try, MirrorByEmail, At
  <2>4. [mailer[m] EXCEPT !.to = mailer[m].to \ {u}, !.at = "send", !.u = u] \in Try
    BY <1>6, <2>1, <2>2 DEF Try, MirrorByEmail, At
  <2> QED
    BY <1>6, <2>3, <2>4, <1>m DEF MirrorByEmail
<1>7. ASSUME NEW m \in Mailers, Send(m) PROVE FanOutTypeOK'
  <2>1. mailer[m] \in Try
    BY <1>7, TryBegun DEF Send, At
  <2>2. [mailer[m] EXCEPT !.at = "went"] \in Try /\ [mailer[m] EXCEPT !.at = "failed"] \in Try
    BY <1>7, <2>1 DEF Try, Send, At
  <2>3. mailer' \in [Mailers -> Try \union {NoTry}]
    BY <1>7, <2>2, <1>m DEF Send
  <2>4. mails' \in [Notes -> Nat]
    BY <1>7, <2>1, <1>n DEF Send, Try, At
  <2> QED
    BY <1>7, <2>3, <2>4 DEF Send
<1>8. ASSUME NEW m \in Mailers, RecordMail(m) PROVE FanOutTypeOK'
  <2>1. mailer[m] \in Try
    BY <1>8, TryBegun DEF RecordMail, At
  <2>2. [mailer[m] EXCEPT !.at = "mirror", !.u = Nobody] \in Try
    BY <2>1 DEF Try
  <2>3. mailer' \in [Mailers -> Try \union {NoTry}]
    BY <1>8, <2>2, <1>m DEF RecordMail
  <2>4. Row(m, mailer[m].u) \in Notes
    BY <1>8, <2>1, <1>n DEF RecordMail, Try, At
  <2> QED
    BY <1>8, <2>3, <2>4 DEF RecordMail
<1>9. ASSUME NEW m \in Mailers, EndMirror(m) PROVE FanOutTypeOK'
  <2>1. mailer[m] \in Try
    BY <1>9, TryBegun DEF EndMirror, At
  <2> QED
    BY <1>9, <2>1, NextTemplateType DEF EndMirror
<1>10. ASSUME NEW u \in Users, MarkNotificationsRead(u) PROVE FanOutTypeOK'
  BY <1>10 DEF MarkNotificationsRead
<1>11. ASSUME NEW u \in Users, Leave(u) PROVE FanOutTypeOK'
  BY <1>11 DEF Leave
<1> QED
  BY <1>1, <1>2, <1>3, <1>4, <1>5, <1>6, <1>7, <1>8, <1>9, <1>10, <1>11, <1>12 DEF FanOut

\* The initial state has its types.
LEMMA TypeInit == Init => TypeOK
<1> SUFFICES ASSUME Init PROVE TypeOK
  OBVIOUS
<1>1. CreditTypeOK
  <2>1. Absent \in RequestRow /\ 1 \in Limits
    BY CreditAssumption DEF CreditAssumption, Absent, RequestRow, Limits
  <2> QED
    BY <2>1, CreditAssumption DEF CreditAssumption, Init, CreditInit, CreditTypeOK
<1>2. FanOutTypeOK
  BY FanOutAssumption DEF FanOutAssumption, Init, FanOutInit, FanOutTypeOK
<1> QED
  BY <1>1, <1>2 DEF TypeOK

\* Every step keeps the types.
LEMMA TypePreserved == TypeOK /\ [Next]_vars => TypeOK'
<1> SUFFICES ASSUME TypeOK, [Next]_vars PROVE TypeOK'
  OBVIOUS
<1>a. Announced \subseteq Facts
  BY DecisionAssumption DEF DecisionAssumption, Announced
<1>c. ASSUME UNCHANGED creditVars PROVE CreditTypeOK'
  BY <1>c DEF TypeOK, CreditTypeOK, creditVars
<1>f. ASSUME UNCHANGED fanOutVars PROVE FanOutTypeOK'
  BY <1>f DEF TypeOK, FanOutTypeOK, fanOutVars, rowVars, jobVars, faultVars, runVars, peopleVars
<1>1. CASE CreditNext /\ UNCHANGED fanOutVars
  BY <1>1, <1>f, CreditTypePreserved DEF TypeOK
<1>2. ASSUME NEW m \in Mailers, Tell(m) PROVE TypeOK'
  BY <1>2, <1>a, <1>c, FanOutTypePreserved DEF TypeOK, Tell
<1>3. ASSUME \/ \E m \in Mailers : OvertakenEnds(m)
             \/ \E m \in Mailers, e \in Announced : MailerDies(m, e) \/ HandlerThrows(m, e)
             \/ \E e \in Announced : Stall(e)
             \/ \E u \in Users : MarkNotificationsRead(u) \/ Leave(u),
             UNCHANGED creditVars
      PROVE  TypeOK'
  BY <1>3, <1>a, <1>c, FanOutTypePreserved DEF TypeOK
<1>4. CASE UNCHANGED vars
  BY <1>4, <1>c, <1>f DEF TypeOK, vars
<1> QED
  BY <1>1, <1>2, <1>3, <1>4 DEF Next

----------------------------------------------------------------------------
(* The desk                                                                *)

\* A step of the desk: an open row is undecided, a decision is written with
\* its event, and nothing else touches the agreed limit.
LEMMA DeskPreserved == CreditTypeOK /\ DeskInv /\ CreditNext => DeskInv'
<1> SUFFICES ASSUME CreditTypeOK, DeskInv, CreditNext PROVE DeskInv'
  OBVIOUS
<1> USE DEF DeskInv, OpenIsUndecided, AgreedIsAnnounced, CallsAreChecked, AbsentIsAbsent,
            AskIsAnIncrease
<1> DEFINE C == Buyers \union Clerks
<1>t. /\ request \in [Requests -> RequestRow]
      /\ calls \in [C -> Call \union {NoCall}]
      /\ decided \in [Requests -> Decision \union {Undecided}]
  BY DEF CreditTypeOK
<1>k. ASSUME NEW c \in C, NEW new,
             calls' = [calls EXCEPT ![c] = new],
             new.does = "ask" => new.requested > new.current,
             new.does \in {"withdraw", "decide"} => request[new.r].state # "absent",
             UNCHANGED <<request, decided>>
      PROVE  DeskInv'
  BY <1>k, <1>t
<1>e. ASSUME NEW c \in C, Ends(c), UNCHANGED <<request, decided>> PROVE DeskInv'
  BY <1>e, <1>k DEF Ends, NoCall
<1>w. ASSUME NEW c \in C, NEW r \in Requests, NEW new \in RequestRow, Ends(c),
             request' = [request EXCEPT ![r] = new],
             new.state # "absent", new.requested > new.current,
             \A other \in Requests : other # r => decided'[other] = decided[other],
             new.agreed = decided'[r].agreed,
             new.state \in {"approved", "rejected"} => new.state = decided'[r].state,
             new.state = "pending" => decided'[r] = Undecided
      PROVE  DeskInv'
  <2>1. request'[r] = new /\ \A other \in Requests : other # r => request'[other] = request[other]
    BY <1>w, <1>t
  <2>2. CallsAreChecked'
    <3> SUFFICES ASSUME NEW x \in C
                 PROVE  /\ calls'[x].does = "ask" => calls'[x].requested > calls'[x].current
                        /\ calls'[x].does \in {"withdraw", "decide"} =>
                             request'[calls'[x].r].state # "absent"
      OBVIOUS
    <3>1. CASE x = c
      BY <3>1, <1>w, <1>t DEF Ends, NoCall
    <3>2. CASE x # c
      <4>1. calls'[x] = calls[x]
        BY <3>2, <1>w, <1>t DEF Ends
      <4>2. calls[x].does \in {"withdraw", "decide"} => calls[x].r \in Requests
        BY <1>t DEF Call, NoCall
      <4> QED
        BY <4>1, <4>2, <2>1, <1>w
    <3> QED
      BY <3>1, <3>2
  <2> QED
    BY <2>1, <2>2, <1>w DEF Absent
<1>1. ASSUME NEW b \in Buyers, NEW l \in Limits, CheckOpenAsk(b, l) PROVE DeskInv'
  BY <1>1, <1>k DEF CheckOpenAsk, Opens
<1>2. ASSUME NEW b \in Buyers, ReadPosition(b) PROVE DeskInv'
  BY <1>2, <1>k DEF ReadPosition, NoCall
<1>3. ASSUME NEW b \in Buyers, NEW r \in Requests, CreateRequest(b, r) PROVE DeskInv'
  <2> DEFINE new == [state |-> "pending", requested |-> calls[b].requested,
                     current |-> calls[b].current, agreed |-> 0]
  <2>1. calls[b].requested \in Limits /\ calls[b].current \in Limits
    BY <1>3, <1>t DEF CreateRequest, Call, NoCall
  <2>2. new \in RequestRow
    BY <2>1, CreditAssumption DEF RequestRow, States, CreditAssumption
  <2>3. new.requested > new.current
    BY <1>3 DEF CreateRequest
  <2>4. decided[r] = Undecided
    BY <1>3 DEF CreateRequest, Absent
  <2>5. new.state = "pending" /\ new.agreed = 0
    OBVIOUS
  <2>6. request' = [request EXCEPT ![r] = new] /\ Ends(b) /\ decided' = decided
    BY <1>3 DEF CreateRequest
  <2>7. new.agreed = decided'[r].agreed /\ decided'[r] = Undecided
    BY <2>4, <2>5, <2>6 DEF Undecided
  <2>8. \A other \in Requests : other # r => decided'[other] = decided[other]
    BY <2>6
  <2>9. b \in C
    OBVIOUS
  <2> HIDE DEF new, DeskInv, C
  <2> QED
    BY <2>2, <2>3, <2>5, <2>6, <2>7, <2>8, <2>9, <1>w
<1>4. ASSUME NEW b \in Buyers, NEW r \in Requests, CheckWithdrawal(b, r) PROVE DeskInv'
  BY <1>4, <1>k DEF CheckWithdrawal, Opens, Pending
<1>5. ASSUME NEW b \in Buyers, Withdraw(b) PROVE DeskInv'
  <2> DEFINE r == calls[b].r  new == [request[r] EXCEPT !.state = "withdrawn"]
  <2>1. r \in Requests /\ request[r].state # "absent"
    BY <1>5, <1>t DEF Withdraw, Call, NoCall
  <2>2. new \in RequestRow /\ new.state = "withdrawn" /\ new.agreed = request[r].agreed
        /\ new.requested = request[r].requested /\ new.current = request[r].current
    BY <2>1, <1>t DEF RequestRow, States
  <2>3. request[r].requested > request[r].current
    BY <2>1 DEF Absent
  <2>4. request' = [request EXCEPT ![r] = new] /\ Ends(b) /\ decided' = decided
    BY <1>5 DEF Withdraw
  <2>5. new.agreed = decided'[r].agreed
    BY <2>1, <2>2, <2>4
  <2>6. \A other \in Requests : other # r => decided'[other] = decided[other]
    BY <2>4
  <2>7. b \in C
    OBVIOUS
  <2> HIDE DEF new, r, DeskInv, C
  <2> QED
    BY <2>1, <2>2, <2>3, <2>4, <2>5, <2>6, <2>7, <1>w
<1>6. ASSUME NEW c \in Clerks, NEW r \in Requests, NEW d \in Decision, CheckDecision(c, r, d)
      PROVE  DeskInv'
  BY <1>6, <1>k DEF CheckDecision, Opens, Pending
<1>7. ASSUME NEW c \in Clerks, Decide(c) PROVE DeskInv'
  <2> DEFINE r == calls[c].r  d == calls[c].decision
             new == [request[r] EXCEPT !.state = d.state, !.agreed = d.agreed]
  <2>1. r \in Requests /\ d \in Decision /\ request[r].state # "absent"
    BY <1>7, <1>t DEF Decide, Holds, Call, NoCall
  <2>2. d.state \in {"approved", "rejected"} /\ d.agreed \in 0..MaxLimit
    BY <2>1, CreditAssumption DEF Decision, Limits, CreditAssumption
  <2>3. new \in RequestRow /\ new.state = d.state /\ new.agreed = d.agreed
        /\ new.requested = request[r].requested /\ new.current = request[r].current
    <3>1. request[r] \in RequestRow /\ d.state \in States
      BY <2>1, <2>2, <1>t DEF States
    <3>2. PICK old \in RequestRow, s \in States, a \in 0..MaxLimit :
            old = request[r] /\ s = d.state /\ a = d.agreed
      BY <2>2, <3>1
    <3>3. new = [old EXCEPT !.state = s, !.agreed = a]
      BY <3>2
    <3>4. /\ new \in RequestRow /\ new.state = s /\ new.agreed = a
          /\ new.requested = old.requested /\ new.current = old.current
      <4> HIDE DEF new, r, d, DeskInv, C
      <4> QED
        BY <3>3 DEF RequestRow
    <3> HIDE DEF new, r, d, DeskInv
    <3> QED
      BY <3>2, <3>4
  <2>4. request[r].requested > request[r].current
    BY <2>1 DEF Absent
  <2>5. request' = [request EXCEPT ![r] = new] /\ Ends(c)
        /\ decided' = [decided EXCEPT ![r] = d]
    BY <1>7 DEF Decide
  <2>6. decided'[r] = d /\ \A other \in Requests : other # r => decided'[other] = decided[other]
    BY <2>1, <2>5, <1>t
  <2>7. new.agreed = decided'[r].agreed /\ new.state = decided'[r].state
        /\ new.state # "pending" /\ new.state # "absent" /\ new.requested > new.current
    BY <2>2, <2>3, <2>4, <2>6
  <2>8. c \in C
    OBVIOUS
  <2> HIDE DEF new, r, d, DeskInv, C
  <2> QED
    BY <2>1, <2>3, <2>5, <2>6, <2>7, <2>8, <1>w
<1>8. ASSUME NEW c \in Clerks, DecideTooLate(c) PROVE DeskInv'
  BY <1>8, <1>e DEF DecideTooLate
<1>9. ASSUME NEW l \in Limits, MaintainLimit(l) PROVE DeskInv'
  BY <1>9 DEF MaintainLimit
<1>10. ASSUME NEW c \in C, CallDies(c) PROVE DeskInv'
  BY <1>10, <1>e DEF CallDies
<1> QED
  BY <1>1, <1>2, <1>3, <1>4, <1>5, <1>6, <1>7, <1>8, <1>9, <1>10 DEF CreditNext

----------------------------------------------------------------------------
(* The fan-out                                                             *)

\* What a worker has done stays done when rows are only added and users only
\* leave, and it has not moved itself.
LEMMA TellsFrame ==
  ASSUME NEW m \in Mailers, TellsInOrder(m),
         mailer'[m] = mailer[m], inbox \subseteq inbox',
         sent \union bounced \subseteq sent' \union bounced', eligible' \subseteq eligible
  PROVE  TellsInOrder(m)'
<1>1. CASE mailer[m] = NoTry
  BY <1>1 DEF TellsInOrder
<1>2. CASE mailer[m] # NoTry
  <2>1. ASSUME NEW u \in eligible', NEW t \in 1..Templates, t < mailer'[m].t
        PROVE  IsTold(mailer[m].e, t, u)'
    <3>1. IsTold(mailer[m].e, t, u)
      BY <1>2, <2>1 DEF TellsInOrder
    <3> QED
      BY <3>1 DEF IsTold
  <2>2. mailer'[m].at = "write" => eligible' \subseteq mailer'[m].to
    BY <1>2 DEF TellsInOrder
  <2>3. ASSUME mailer'[m].at \notin {"resolve", "write"}
        PROVE  /\ mailer'[m].t \in Mailing
               /\ \A u \in eligible' :
                    /\ Row(m, u)' \in inbox'
                    /\ \/ u \in mailer'[m].to
                       \/ mailer'[m].at # "mirror" /\ mailer'[m].u = u
                       \/ Row(m, u)' \in sent' \union bounced'
    <3>1. /\ mailer[m].t \in Mailing
          /\ \A u \in eligible :
               /\ Row(m, u) \in inbox
               /\ \/ u \in mailer[m].to
                  \/ mailer[m].at # "mirror" /\ mailer[m].u = u
                  \/ Row(m, u) \in sent \union bounced
      BY <1>2, <2>3 DEF TellsInOrder
    <3> QED
      BY <3>1 DEF Row
  <2> QED
    BY <2>1, <2>2, <2>3 DEF TellsInOrder
<1> QED
  BY <1>1, <1>2

\* The next template begins when the present one is done with; after the last
\* everyone has been told.
LEMMA TellsNext ==
  ASSUME FanOutTypeOK, CompletedMeansTold, NEW m \in Mailers, TellsInOrder(m),
         mailer[m] \in Try, NextTemplate(m),
         inbox \subseteq inbox', UNCHANGED <<sent, bounced, eligible>>,
         NEW e \in Facts, NEW n \in 1..Templates, mailer[m].e = e, mailer[m].t = n,
         \A u \in eligible : IsTold(e, n, u)'
  PROVE  TellsInOrder(m)' /\ CompletedMeansTold'
<1>1. mailer[m] # NoTry
  BY DEF Try, NoTry
<1>2. ASSUME NEW f, NEW t, NEW u, IsTold(f, t, u) PROVE IsTold(f, t, u)'
  BY <1>2 DEF IsTold
<1>3. ASSUME NEW u \in eligible, NEW t \in 1..Templates, t <= n PROVE IsTold(e, t, u)'
  <2>1. CASE t = n
    BY <2>1
  <2>2. CASE t # n
    <3>1. t < n
      BY <1>3, <2>2, FanOutAssumption DEF FanOutAssumption
    <3>2. IsTold(e, t, u)
      BY <1>1, <3>1 DEF TellsInOrder
    <3> QED
      BY <3>2, <1>2
  <2> QED
    BY <2>1, <2>2
<1>4. \A f \in told, u \in eligible, t \in 1..Templates : IsTold(f, t, u)'
  BY DEF CompletedMeansTold, IsTold
<1>5. CASE mailer[m].t < Templates
  <2> DEFINE new == [mailer[m] EXCEPT !.at = "resolve", !.t = mailer[m].t + 1, !.to = {},
                                      !.u = Nobody]
  <2>1. mailer'[m] = new /\ told' = told
    BY <1>5 DEF NextTemplate, FanOutTypeOK, jobVars
  <2>2. new.at = "resolve" /\ new.e = e /\ new.t = n + 1
    BY DEF Try
  <2> HIDE DEF new
  <2>3. ASSUME NEW u \in eligible', NEW t \in 1..Templates, t < mailer'[m].t
        PROVE  IsTold(mailer[m].e, t, u)'
    <3>1. t <= n
      BY <2>1, <2>2, <2>3
    <3>2. IsTold(e, t, u)'
      BY <1>3, <3>1
    <3> QED
      BY <2>1, <2>2, <3>2 DEF IsTold
  <2>4. TellsInOrder(m)'
    BY <2>1, <2>2, <2>3 DEF TellsInOrder
  <2>5. CompletedMeansTold'
    BY <1>4, <2>1 DEF CompletedMeansTold, IsTold
  <2> QED
    BY <2>4, <2>5
<1>6. CASE ~(mailer[m].t < Templates)
  <2>1. mailer'[m] = NoTry /\ told' \subseteq told \union {e}
    BY <1>6 DEF NextTemplate, FanOutTypeOK, jobVars
  <2>2. \A t \in 1..Templates : t <= n
    BY <1>6, FanOutAssumption DEF FanOutAssumption
  <2>3. TellsInOrder(m)'
    BY <2>1 DEF TellsInOrder
  <2>4. \A f \in told', u \in eligible', t \in 1..Templates : IsTold(f, t, u)'
    BY <1>3, <1>4, <2>1, <2>2
  <2>5. CompletedMeansTold'
    BY <2>4 DEF CompletedMeansTold, IsTold
  <2> QED
    BY <2>3, <2>5
<1> QED
  BY <1>5, <1>6

\* A step of the fan-out forgets nobody.
LEMMA TellPreserved ==
  ASSUME FanOutTypeOK, TellInv,
         \/ \E m \in Mailers : FanOut(m) \/ OvertakenEnds(m)
         \/ \E m \in Mailers, e \in Facts :
              Take(m, e) \/ MailerDies(m, e) \/ HandlerThrows(m, e)
         \/ \E e \in Facts : Stall(e)
         \/ \E u \in Users : MarkNotificationsRead(u) \/ Leave(u)
  PROVE  TellInv'
<1> USE DEF rowVars, jobVars, faultVars, runVars, peopleVars
<1>t. mailer \in [Mailers -> Try \union {NoTry}] /\ eligible \in SUBSET Users
  BY DEF FanOutTypeOK
<1>i. CompletedMeansTold /\ \A m \in Mailers : TellsInOrder(m)
  BY DEF TellInv
<1>c. ASSUME told' = told, inbox \subseteq inbox',
             sent \union bounced \subseteq sent' \union bounced', eligible' \subseteq eligible
      PROVE  CompletedMeansTold'
  BY <1>c, <1>i DEF CompletedMeansTold
<1>m. ASSUME NEW m \in Mailers, NEW new, mailer' = [mailer EXCEPT ![m] = new],
             inbox \subseteq inbox',
             sent \union bounced \subseteq sent' \union bounced', eligible' \subseteq eligible,
             TellsInOrder(m)', CompletedMeansTold'
      PROVE  TellInv'
  <2>1. ASSUME NEW x \in Mailers, x # m PROVE TellsInOrder(x)'
    <3>1. mailer'[x] = mailer[x]
      BY <1>m, <1>t, <2>1
    <3> QED
      BY <1>m, <1>i, <3>1, TellsFrame
  <2> QED
    BY <1>m, <2>1 DEF TellInv
<1>q. ASSUME UNCHANGED <<mailer, told, inbox, sent, bounced>>, eligible' \subseteq eligible
      PROVE  TellInv'
  BY <1>q, <1>i, <1>c, TellsFrame DEF TellInv
<1>s. ASSUME NEW m \in Mailers, NEW e \in Facts, Starts(m, e),
             UNCHANGED <<told, inbox, sent, bounced, eligible>>
      PROVE  TellInv'
  <2> DEFINE new == [at |-> "resolve", e |-> e, t |-> 1, to |-> {}, u |-> Nobody]
  <2>1. mailer' = [mailer EXCEPT ![m] = new] /\ mailer'[m] = new
    BY <1>s, <1>t DEF Starts
  <2>2. TellsInOrder(m)'
    BY <2>1, FanOutAssumption DEF TellsInOrder, FanOutAssumption
  <2> HIDE DEF new
  <2> QED
    BY <1>s, <1>c, <1>m, <2>1, <2>2
<1>1. ASSUME NEW m \in Mailers, NEW e \in Facts, Take(m, e) PROVE TellInv'
  BY <1>1, <1>s DEF Take
<1>2. ASSUME NEW m \in Mailers, mailer' = [mailer EXCEPT ![m] = NoTry],
             UNCHANGED <<told, inbox, sent, bounced, eligible>>
      PROVE  TellInv'
  <2>1. mailer'[m] = NoTry
    BY <1>2, <1>t
  <2>2. TellsInOrder(m)'
    BY <2>1 DEF TellsInOrder
  <2> QED
    BY <1>2, <1>c, <1>m, <2>1, <2>2
<1>10. ASSUME NEW m \in Mailers, NEW e \in Facts, MailerDies(m, e) \/ HandlerThrows(m, e)
       PROVE  TellInv'
  BY <1>10, <1>2 DEF MailerDies, HandlerThrows, BreaksOff
<1>11. ASSUME NEW m \in Mailers, OvertakenEnds(m) PROVE TellInv'
  BY <1>11, <1>2 DEF OvertakenEnds
<1>12. ASSUME NEW e \in Facts, Stall(e) PROVE TellInv'
  BY <1>12, <1>q DEF Stall
<1>3. ASSUME NEW m \in Mailers, ResolveRecipients(m) PROVE TellInv'
  <2> DEFINE new == [mailer[m] EXCEPT !.at = "write", !.to = eligible]
  <2>1. mailer[m] \in Try /\ mailer[m] # NoTry
    BY <1>3, TryBegun DEF ResolveRecipients, At, Try, NoTry
  <2>2. mailer' = [mailer EXCEPT ![m] = new] /\ mailer'[m] = new
    BY <1>3, <1>t DEF ResolveRecipients
  <2>3. new.at = "write" /\ new.to = eligible /\ new.e = mailer[m].e /\ new.t = mailer[m].t
    BY <2>1 DEF Try
  <2> HIDE DEF new
  <2>4. UNCHANGED <<told, inbox, sent, bounced, eligible>>
    BY <1>3 DEF ResolveRecipients
  <2>5. TellsInOrder(m)'
    BY <1>i, <2>1, <2>2, <2>3, <2>4 DEF TellsInOrder, IsTold
  <2> QED
    BY <1>c, <1>m, <2>2, <2>4, <2>5
<1>4. ASSUME NEW m \in Mailers, WriteInboxRows(m) PROVE TellInv'
  <2>1. mailer[m] \in Try /\ mailer[m] # NoTry /\ mailer[m].at = "write"
    BY <1>4, TryBegun DEF WriteInboxRows, At, Try, NoTry
  <2>2. /\ inbox' = inbox \union {Row(m, u) : u \in mailer[m].to}
        /\ UNCHANGED <<sent, bounced, eligible>>
    BY <1>4 DEF WriteInboxRows
  <2>3. \A u \in eligible : u \in mailer[m].to /\ Row(m, u) \in inbox'
    BY <1>i, <2>1, <2>2 DEF TellsInOrder
  <2>4. CASE mailer[m].t \in Mailing
    <3> DEFINE new == [mailer[m] EXCEPT !.at = "mirror"]
    <3>1. mailer' = [mailer EXCEPT ![m] = new] /\ mailer'[m] = new /\ told' = told
      BY <1>4, <1>t, <2>4 DEF WriteInboxRows
    <3>2. /\ new.at = "mirror" /\ new.to = mailer[m].to
          /\ new.e = mailer[m].e /\ new.t = mailer[m].t
      BY <2>1 DEF Try
    <3> HIDE DEF new
    <3>3. TellsInOrder(m)'
      BY <1>i, <2>1, <2>2, <2>3, <2>4, <3>1, <3>2 DEF TellsInOrder, IsTold, Row
    <3> QED
      BY <1>c, <1>m, <2>2, <3>1, <3>3
  <2>5. CASE mailer[m].t \notin Mailing
    <3>1. NextTemplate(m)
      BY <1>4, <2>5 DEF WriteInboxRows
    <3>p. PICK e \in Facts, n \in 1..Templates : mailer[m].e = e /\ mailer[m].t = n
      BY <2>1 DEF Try
    <3>2. \A u \in eligible : IsTold(e, n, u)'
      BY <2>3, <2>5, <3>p DEF IsTold, Row
    <3>3. TellsInOrder(m)' /\ CompletedMeansTold'
      BY <1>i, <2>1, <2>2, <3>1, <3>2, <3>p, TellsNext
    <3>4. PICK new : mailer' = [mailer EXCEPT ![m] = new]
      BY <3>1 DEF NextTemplate
    <3> QED
      BY <1>m, <2>2, <3>3, <3>4
  <2> QED
    BY <2>4, <2>5
<1>5. ASSUME NEW m \in Mailers, NEW u \in Users, MirrorByEmail(m, u) PROVE TellInv'
  <2>1. mailer[m] \in Try /\ mailer[m] # NoTry /\ mailer[m].at = "mirror"
    BY <1>5, TryBegun DEF MirrorByEmail, At, Try, NoTry
  <2>2. UNCHANGED <<told, inbox, sent, bounced, eligible>>
    BY <1>5 DEF MirrorByEmail
  <2>3. CASE Row(m, u) \in inbox \ sent
    <3> DEFINE new == [mailer[m] EXCEPT !.to = mailer[m].to \ {u}, !.at = "send", !.u = u]
    <3>1. mailer' = [mailer EXCEPT ![m] = new] /\ mailer'[m] = new
      BY <1>5, <1>t, <2>3 DEF MirrorByEmail
    <3>2. /\ new.at = "send" /\ new.to = mailer[m].to \ {u} /\ new.u = u
          /\ new.e = mailer[m].e /\ new.t = mailer[m].t
      BY <2>1 DEF Try
    <3> HIDE DEF new
    <3>3. TellsInOrder(m)'
      BY <1>i, <2>1, <2>2, <3>1, <3>2 DEF TellsInOrder, IsTold, Row
    <3> QED
      BY <1>c, <1>m, <2>2, <3>1, <3>3
  <2>4. CASE Row(m, u) \notin inbox \ sent
    <3> DEFINE new == [mailer[m] EXCEPT !.to = mailer[m].to \ {u}]
    <3>1. mailer' = [mailer EXCEPT ![m] = new] /\ mailer'[m] = new
      BY <1>5, <1>t, <2>4 DEF MirrorByEmail
    <3>2. /\ new.at = "mirror" /\ new.to = mailer[m].to \ {u}
          /\ new.e = mailer[m].e /\ new.t = mailer[m].t
      BY <2>1 DEF Try
    <3> HIDE DEF new
    <3>3. \A x \in eligible : Row(m, x) \in inbox /\ (x \in mailer[m].to \/ Row(m, x) \in sent \union bounced)
      BY <1>i, <2>1 DEF TellsInOrder
    <3>4. TellsInOrder(m)'
      BY <1>i, <2>1, <2>2, <2>4, <3>1, <3>2, <3>3 DEF TellsInOrder, IsTold, Row
    <3> QED
      BY <1>c, <1>m, <2>2, <3>1, <3>4
  <2> QED
    BY <2>3, <2>4
<1>6. ASSUME NEW m \in Mailers, Send(m) PROVE TellInv'
  <2>1. mailer[m] \in Try /\ mailer[m] # NoTry /\ mailer[m].at = "send"
    BY <1>6, TryBegun DEF Send, At, Try, NoTry
  <2>2. UNCHANGED <<told, inbox, sent, bounced, eligible>>
    BY <1>6 DEF Send
  <2>3. PICK at \in {"went", "failed"} : mailer' = [mailer EXCEPT ![m] = [mailer[m] EXCEPT !.at = at]]
    BY <1>6 DEF Send
  <2> DEFINE new == [mailer[m] EXCEPT !.at = at]
  <2>4. mailer' = [mailer EXCEPT ![m] = new] /\ mailer'[m] = new
    BY <1>t, <2>3
  <2>5. /\ new.at \in {"went", "failed"} /\ new.to = mailer[m].to /\ new.u = mailer[m].u
        /\ new.e = mailer[m].e /\ new.t = mailer[m].t
    BY <2>1 DEF Try
  <2> HIDE DEF new
  <2>6. TellsInOrder(m)'
    BY <1>i, <2>1, <2>2, <2>4, <2>5 DEF TellsInOrder, IsTold, Row
  <2> QED
    BY <1>c, <1>m, <2>2, <2>4, <2>6
<1>7. ASSUME NEW m \in Mailers, RecordMail(m) PROVE TellInv'
  <2> DEFINE new == [mailer[m] EXCEPT !.at = "mirror", !.u = Nobody]
  <2>1. mailer[m] \in Try /\ mailer[m] # NoTry /\ mailer[m].at \in {"went", "failed"}
    BY <1>7, TryBegun DEF RecordMail, At, Try, NoTry
  <2>2. UNCHANGED <<told, inbox, eligible>>
    BY <1>7 DEF RecordMail
  <2>3. sent' \union bounced' = sent \union bounced \union {Row(m, mailer[m].u)}
    BY <1>7 DEF RecordMail
  <2>4. mailer' = [mailer EXCEPT ![m] = new] /\ mailer'[m] = new
    BY <1>7, <1>t DEF RecordMail
  <2>5. /\ new.at = "mirror" /\ new.to = mailer[m].to
        /\ new.e = mailer[m].e /\ new.t = mailer[m].t
    BY <2>1 DEF Try
  <2> HIDE DEF new
  <2>6. TellsInOrder(m)'
    BY <1>i, <2>1, <2>2, <2>3, <2>4, <2>5 DEF TellsInOrder, IsTold, Row
  <2> QED
    BY <1>c, <1>m, <2>2, <2>3, <2>4, <2>6
<1>8. ASSUME NEW m \in Mailers, EndMirror(m) PROVE TellInv'
  <2>1. /\ mailer[m] \in Try /\ mailer[m] # NoTry
        /\ mailer[m].at = "mirror" /\ mailer[m].to = {}
    BY <1>8, TryBegun DEF EndMirror, At, Try, NoTry
  <2>2. NextTemplate(m) /\ UNCHANGED <<inbox, sent, bounced, eligible>>
    BY <1>8 DEF EndMirror
  <2>p. PICK e \in Facts, n \in 1..Templates : mailer[m].e = e /\ mailer[m].t = n
    BY <2>1 DEF Try
  <2>3. \A u \in eligible : IsTold(e, n, u)'
    BY <1>i, <2>1, <2>2, <2>p DEF TellsInOrder, IsTold, Row
  <2>4. TellsInOrder(m)' /\ CompletedMeansTold'
    BY <1>i, <2>1, <2>2, <2>3, <2>p, TellsNext
  <2>5. PICK new : mailer' = [mailer EXCEPT ![m] = new]
    BY <2>2 DEF NextTemplate
  <2> QED
    BY <1>m, <2>2, <2>4, <2>5
<1>9. ASSUME NEW u \in Users, MarkNotificationsRead(u) \/ Leave(u) PROVE TellInv'
  BY <1>9, <1>q DEF MarkNotificationsRead, Leave
<1> QED
  BY <1>1, <1>10, <1>11, <1>12, <1>3, <1>4, <1>5, <1>6, <1>7, <1>8, <1>9 DEF FanOut

----------------------------------------------------------------------------
(* The mails                                                               *)

\* Whoever may mail runs the job; so there are finitely many.
LEMMA MayMailFinite ==
  ASSUME IsFiniteSet(Running), NEW n
  PROVE  IsFiniteSet(MayMail(n)) /\ Cardinality(MayMail(n)) \in Nat
<1>1. MayMail(n) \subseteq Running
  BY DEF MayMail, Running, Runs
<1> QED
  BY <1>1, FS_Subset, FS_CardinalityType

\* A step of one worker starts or ends one run at most.
LEMMA RunningStep ==
  ASSUME FanOutTypeOK, IsFiniteSet(Running), NEW m \in Mailers, NEW new,
         mailer' = [mailer EXCEPT ![m] = new]
  PROVE  IsFiniteSet(Running)'
<1>1. Running' \subseteq Running \union {m}
  BY DEF Running, FanOutTypeOK
<1>2. IsFiniteSet(Running \union {m})
  BY FS_AddElement
<1>3. IsFiniteSet(Running')
  BY <1>1, <1>2, FS_Subset
<1> QED
  BY <1>3

\* A worker that does not move can only lose its reason to mail.
LEMMA OthersMayMail ==
  ASSUME FanOutTypeOK, NEW m \in Mailers, NEW new, mailer' = [mailer EXCEPT ![m] = new],
         sent \subseteq sent', NEW n
  PROVE  MayMail(n)' \subseteq MayMail(n) \union {m}
<1>1. ASSUME NEW x \in Mailers, x # m, x \in MayMail(n)'
      PROVE  x \in MayMail(n)
  <2>1. mailer'[x] = mailer[x]
    BY <1>1 DEF FanOutTypeOK
  <2> QED
    BY <1>1, <2>1 DEF MayMail, Runs, WillMail, HasMailed, At, Row
<1> QED
  BY <1>1 DEF MayMail

\* The mails and the doubts of a row are counted.
LEMMA Counted ==
  ASSUME FanOutTypeOK, NEW n \in Notes
  PROVE  n[1] \in Facts /\ mails[n] \in Nat /\ doubts[n[1]] \in Nat
<1>1. n[1] \in Facts
  BY DEF Notes
<1> QED
  BY <1>1 DEF FanOutTypeOK

\* A run that goes on, records the mail it sent and looks at the record before
\* it sends one, leaves the mails of every row explained.
LEMMA CarefulStep ==
  ASSUME FanOutTypeOK, MailInv, NEW m \in Mailers, NEW new,
         mailer' = [mailer EXCEPT ![m] = new], mailer[m] # NoTry,
         sent \subseteq sent', UNCHANGED <<mails, doubts, holder>>,
         new # NoTry, new.e = mailer[m].e,
         At(m, "went") => Row(m, mailer[m].u) \in sent',
         new.at = "send" => <<new.e, new.t, new.u>> \notin sent'
  PROVE  MailInv'
<1>1. IsFiniteSet(Running)'
  BY RunningStep DEF MailInv
<1>m. mailer'[m] = new
  BY DEF FanOutTypeOK
<1>l. LocksAreHeld'
  BY <1>m DEF MailInv, LocksAreHeld, Runs, FanOutTypeOK
<1>2. ASSUME NEW n \in Notes PROVE MailsAreBounded(n)'
  <2>1. mails[n] \in Nat /\ doubts[n[1]] \in Nat
    BY Counted
  <2>2. MailsAreBounded(n) /\ IsFiniteSet(MayMail(n)) /\ Cardinality(MayMail(n)) \in Nat
    BY MayMailFinite DEF MailInv
  <2>3. m \in MayMail(n)' => m \in MayMail(n)
    <3>1. CASE n \in sent'
      BY <1>m, <3>1 DEF MayMail, WillMail, At, Row
    <3>2. CASE n \notin sent'
      BY <1>m, <3>2 DEF MayMail, Runs, HasMailed
    <3> QED
      BY <3>1, <3>2
  <2>4. MayMail(n)' \subseteq MayMail(n)
    BY <2>3, OthersMayMail
  <2>5. Cardinality(MayMail(n)') <= Cardinality(MayMail(n)) /\ Cardinality(MayMail(n)') \in Nat
    BY <2>2, <2>4, FS_Subset, FS_CardinalityType
  <2> QED
    BY <2>1, <2>2, <2>5 DEF MailsAreBounded
<1> QED
  BY <1>1, <1>l, <1>2 DEF MailInv

\* A mail that goes out is one of those that might.
LEMMA MailGoes ==
  ASSUME FanOutTypeOK, MailInv, NEW m \in Mailers, mailer[m] \in Try, At(m, "send"),
         mailer' = [mailer EXCEPT ![m] = [@ EXCEPT !.at = "went"]],
         mails' = [mails EXCEPT ![Row(m, mailer[m].u)] = @ + 1],
         UNCHANGED <<sent, doubts, holder>>
  PROVE  MailInv'
<1> DEFINE row == Row(m, mailer[m].u)
<1>0. /\ mailer'[m].at = "went" /\ mailer'[m].e = mailer[m].e
      /\ mailer'[m].t = mailer[m].t /\ mailer'[m].u = mailer[m].u
      /\ mailer[m] # NoTry /\ mailer'[m] # NoTry
  BY DEF FanOutTypeOK, Try, At, NoTry
<1>1. IsFiniteSet(Running)'
  BY RunningStep DEF MailInv
<1>l. LocksAreHeld'
  BY <1>0 DEF MailInv, LocksAreHeld, Runs, FanOutTypeOK
<1>2. ASSUME NEW n \in Notes PROVE MailsAreBounded(n)'
  <2>1. mails[n] \in Nat /\ doubts[n[1]] \in Nat
    BY Counted
  <2>2. MailsAreBounded(n) /\ IsFiniteSet(MayMail(n)) /\ Cardinality(MayMail(n)) \in Nat
    BY MayMailFinite DEF MailInv
  <2>3. MayMail(n)' \subseteq MayMail(n) \union {m}
    BY OthersMayMail
  <2>4. \A x \in Mailers : Runs(x, n[1])' <=> Runs(x, n[1])
    BY <1>0 DEF Runs, FanOutTypeOK
  <2>5. CASE n = row
    <3>1. m \in MayMail(n) /\ m \notin MayMail(n)' /\ Runs(m, n[1])
      BY <1>0, <2>5 DEF MayMail, Runs, WillMail, HasMailed, At, Row
    <3>2. MayMail(n)' \subseteq MayMail(n) \ {m}
      BY <2>3, <3>1
    <3>3. /\ IsFiniteSet(MayMail(n) \ {m})
          /\ Cardinality(MayMail(n) \ {m}) = Cardinality(MayMail(n)) - 1
      BY <2>2, <3>1, FS_RemoveElement
    <3>4. /\ Cardinality(MayMail(n)') <= Cardinality(MayMail(n)) - 1
          /\ Cardinality(MayMail(n)') \in Nat
      BY <3>2, <3>3, FS_Subset, FS_CardinalityType
    <3>5. mails'[n] = mails[n] + 1
      BY <2>5 DEF FanOutTypeOK
    <3> QED
      BY <2>1, <2>2, <2>4, <3>1, <3>4, <3>5 DEF MailsAreBounded
  <2>6. CASE n # row
    <3>1. m \in MayMail(n)' => m \in MayMail(n)
      BY <1>0, <2>4, <2>6 DEF MayMail, WillMail, HasMailed, At, Row
    <3>2. MayMail(n)' \subseteq MayMail(n)
      BY <2>3, <3>1
    <3>3. Cardinality(MayMail(n)') <= Cardinality(MayMail(n)) /\ Cardinality(MayMail(n)') \in Nat
      BY <2>2, <3>2, FS_Subset, FS_CardinalityType
    <3>4. mails'[n] = mails[n]
      BY <2>6 DEF FanOutTypeOK
    <3> QED
      BY <2>1, <2>2, <2>4, <3>3, <3>4 DEF MailsAreBounded
  <2> QED
    BY <2>5, <2>6
<1> QED
  BY <1>1, <1>l, <1>2 DEF MailInv

\* A worker that begins finds the lock free.
LEMMA RunBegins ==
  ASSUME FanOutTypeOK, MailInv, NEW m \in Mailers, NEW e \in Facts, Take(m, e)
  PROVE  MailInv'
<1> USE DEF rowVars, faultVars
<1> DEFINE new == [at |-> "resolve", e |-> e, t |-> 1, to |-> {}, u |-> Nobody]
<1>0. mailer' = [mailer EXCEPT ![m] = new] /\ mailer'[m] = new /\ mailer[m] = NoTry
  BY DEF Take, Starts, FanOutTypeOK
<1>s. sent' = sent /\ mails' = mails /\ doubts' = doubts
  BY DEF Take
<1>h. /\ holder' = [holder EXCEPT ![e] = m] /\ holder'[e] = m /\ m # Nobody
      /\ holder[e] = Nobody
  BY FanOutAssumption DEF FanOutAssumption, Take, Waits, FanOutTypeOK
<1>1. IsFiniteSet(Running)'
  BY <1>0, RunningStep DEF MailInv
<1>l. LocksAreHeld'
  <2> SUFFICES ASSUME NEW f \in Facts, holder'[f] # Nobody PROVE (Runs(holder[f], f))'
    BY DEF LocksAreHeld
  <2>1. CASE f = e
    <3>1. new # NoTry /\ new.e = e
      BY DEF NoTry
    <3> HIDE DEF new
    <3> QED
      BY <1>0, <1>h, <2>1, <3>1 DEF Runs
  <2>2. CASE f # e
    <3>1. holder'[f] = holder[f] /\ Runs(holder[f], f)
      BY <1>h, <2>2 DEF MailInv, LocksAreHeld, FanOutTypeOK
    <3>2. holder[f] # m
      BY <1>0, <3>1 DEF Runs
    <3>3. holder[f] \in Mailers
      BY <3>1 DEF FanOutTypeOK
    <3>4. mailer'[holder[f]] = mailer[holder[f]]
      BY <1>0, <3>2, <3>3 DEF FanOutTypeOK
    <3> HIDE DEF new
    <3> QED
      BY <3>1, <3>4 DEF Runs
  <2> QED
    BY <2>1, <2>2
<1>2. ASSUME NEW n \in Notes PROVE MailsAreBounded(n)'
  <2>1. mails[n] \in Nat /\ doubts[n[1]] \in Nat /\ n[1] \in Facts
    BY Counted
  <2>2. MailsAreBounded(n) /\ IsFiniteSet(MayMail(n)) /\ Cardinality(MayMail(n)) \in Nat
    BY MayMailFinite DEF MailInv
  <2>3. MayMail(n)' \subseteq MayMail(n) \union {m}
    BY <1>0, <1>s, OthersMayMail
  <2>4. m \in MayMail(n)' => n[1] = e /\ n \notin sent
    BY <1>0, <1>s DEF MayMail, Runs, WillMail, At
  <2>5. CASE m \notin MayMail(n)'
    <3>1. MayMail(n)' \subseteq MayMail(n)
      BY <2>3, <2>5
    <3>2. Cardinality(MayMail(n)') <= Cardinality(MayMail(n)) /\ Cardinality(MayMail(n)') \in Nat
      BY <2>2, <3>1, FS_Subset, FS_CardinalityType
    <3>3. holder'[n[1]] = Nobody => holder[n[1]] = Nobody
      BY <1>h, <2>1 DEF FanOutTypeOK
    <3> QED
      BY <1>s, <2>1, <2>2, <3>2, <3>3 DEF MailsAreBounded
  <2>6. CASE m \in MayMail(n)'
    <3>1. mails[n] + Cardinality(MayMail(n)) <= doubts[n[1]]
      BY <1>h, <2>2, <2>4, <2>6 DEF MailsAreBounded
    <3>2. /\ IsFiniteSet(MayMail(n) \union {m})
          /\ Cardinality(MayMail(n) \union {m}) \in {Cardinality(MayMail(n)), Cardinality(MayMail(n)) + 1}
      BY <2>2, FS_AddElement
    <3>3. /\ Cardinality(MayMail(n)') <= Cardinality(MayMail(n)) + 1
          /\ Cardinality(MayMail(n)') \in Nat
      BY <2>2, <2>3, <3>2, FS_Subset, FS_CardinalityType
    <3>4. holder'[n[1]] # Nobody
      BY <1>h, <2>4, <2>6
    <3> QED
      BY <1>s, <2>1, <2>2, <3>1, <3>3, <3>4 DEF MailsAreBounded
  <2> QED
    BY <2>5, <2>6
<1> QED
  BY <1>1, <1>l, <1>2 DEF MailInv

\* A run that ends with the lock frees it, and leaves a doubt when it has a mail
\* that is not recorded; one that ends without changes nothing.
LEMMA RunEnds ==
  ASSUME FanOutTypeOK, MailInv, NEW m \in Mailers, mailer[m] # NoTry,
         mailer' = [mailer EXCEPT ![m] = NoTry], UNCHANGED <<sent, mails>>,
         NEW e \in Facts, mailer[m].e = e,
         \/ holder[e] # m /\ UNCHANGED <<holder, doubts>>
         \/ /\ holder[e] = m /\ holder' = [holder EXCEPT ![e] = Nobody]
            /\ \/ ~At(m, "went") /\ UNCHANGED doubts
               \/ doubts' = Plus(doubts, e)
  PROVE  MailInv'
<1>0. mailer'[m] = NoTry
  BY DEF FanOutTypeOK
<1>1. IsFiniteSet(Running)'
  BY RunningStep DEF MailInv
<1>l. LocksAreHeld'
  <2> SUFFICES ASSUME NEW f \in Facts, holder'[f] # Nobody PROVE (Runs(holder[f], f))'
    BY DEF LocksAreHeld
  <2>1. holder'[f] = holder[f] /\ Runs(holder[f], f)
    BY DEF MailInv, LocksAreHeld, FanOutTypeOK
  <2>2. holder[f] # m
    <3>1. ASSUME holder[f] = m PROVE FALSE
      <4>1. f = e
        BY <2>1, <3>1 DEF Runs
      <4> QED
        BY <2>1, <3>1, <4>1 DEF FanOutTypeOK
    <3> QED
      BY <3>1
  <2>3. holder[f] \in Mailers
    BY <2>1 DEF FanOutTypeOK
  <2>4. mailer'[holder[f]] = mailer[holder[f]]
    BY <2>2, <2>3 DEF FanOutTypeOK
  <2> QED
    BY <2>1, <2>4 DEF Runs
<1>2. ASSUME NEW n \in Notes PROVE MailsAreBounded(n)'
  <2>1. mails[n] \in Nat /\ doubts[n[1]] \in Nat /\ n[1] \in Facts
    BY Counted
  <2>2. MailsAreBounded(n) /\ IsFiniteSet(MayMail(n)) /\ Cardinality(MayMail(n)) \in Nat
    BY MayMailFinite DEF MailInv
  <2>3. MayMail(n)' \subseteq MayMail(n) \ {m}
    BY <1>0, OthersMayMail, ZenonT(40) DEF MayMail, Runs
  <2>4. Cardinality(MayMail(n)') <= Cardinality(MayMail(n)) /\ Cardinality(MayMail(n)') \in Nat
    <3>1. MayMail(n)' \subseteq MayMail(n)
      BY <2>3
    <3> QED
      BY <2>2, <3>1, FS_Subset, FS_CardinalityType
  <2>5. doubts'[n[1]] \in Nat /\ doubts[n[1]] <= doubts'[n[1]]
    BY <2>1 DEF Plus, FanOutTypeOK
  <2>6. ASSUME n \notin sent', holder'[n[1]] = Nobody
        PROVE  mails'[n] + Cardinality(MayMail(n)') <= doubts'[n[1]]
    <3>1. CASE holder[n[1]] = Nobody
      BY <2>1, <2>2, <2>4, <2>5, <2>6, <3>1 DEF MailsAreBounded
    <3>2. CASE holder[n[1]] # Nobody
      <4>1. n[1] = e /\ holder[e] = m
        BY <2>1, <2>6, <3>2 DEF FanOutTypeOK
      <4>2. CASE doubts' = Plus(doubts, e)
        <5>1. doubts'[n[1]] = doubts[n[1]] + 1
          BY <2>1, <4>1, <4>2 DEF Plus, FanOutTypeOK
        <5> QED
          BY <2>1, <2>2, <2>4, <5>1 DEF MailsAreBounded
      <4>3. CASE ~At(m, "went") /\ UNCHANGED doubts
        <5>1. m \in MayMail(n)
          BY <2>6, <4>1, <4>3 DEF MayMail, Runs, HasMailed
        <5>2. /\ IsFiniteSet(MayMail(n) \ {m})
              /\ Cardinality(MayMail(n) \ {m}) = Cardinality(MayMail(n)) - 1
          BY <2>2, <5>1, FS_RemoveElement
        <5>3. Cardinality(MayMail(n)') <= Cardinality(MayMail(n)) - 1
          BY <2>3, <5>2, FS_Subset
        <5> QED
          BY <2>1, <2>2, <2>4, <4>3, <5>3 DEF MailsAreBounded
      <4> QED
        BY <4>1, <4>2, <4>3
    <3> QED
      BY <3>1, <3>2
  <2> QED
    BY <2>1, <2>2, <2>4, <2>5, <2>6 DEF MailsAreBounded
<1> QED
  BY <1>1, <1>l, <1>2 DEF MailInv

\* A job that stalls leaves a doubt: its run may go on beside the next.
LEMMA LockLost ==
  ASSUME FanOutTypeOK, MailInv, NEW e \in Facts, Stall(e)
  PROVE  MailInv'
<1> USE DEF rowVars
<1>s. UNCHANGED <<mailer, sent, mails>>
  BY DEF Stall
<1>h. holder' = [holder EXCEPT ![e] = Nobody] /\ doubts' = Plus(doubts, e)
  BY DEF Stall
<1>1. IsFiniteSet(Running)'
  BY <1>s DEF MailInv, Running
<1>l. LocksAreHeld'
  BY <1>s, <1>h DEF MailInv, LocksAreHeld, Runs, FanOutTypeOK
<1>2. ASSUME NEW n \in Notes PROVE MailsAreBounded(n)'
  <2>1. mails[n] \in Nat /\ doubts[n[1]] \in Nat /\ n[1] \in Facts
    BY Counted
  <2>2. MailsAreBounded(n) /\ Cardinality(MayMail(n)) \in Nat
    BY MayMailFinite DEF MailInv
  <2>3. MayMail(n)' = MayMail(n)
    BY <1>s DEF MayMail, Runs, WillMail, HasMailed, At, Row
  <2>4. doubts'[n[1]] = doubts[n[1]] + (IF n[1] = e THEN 1 ELSE 0)
    BY <1>h, <2>1 DEF Plus, FanOutTypeOK
  <2>5. n[1] # e => holder'[n[1]] = holder[n[1]]
    BY <1>h, <2>1 DEF FanOutTypeOK
  <2> QED
    BY <1>s, <2>1, <2>2, <2>3, <2>4, <2>5 DEF MailsAreBounded
<1> QED
  BY <1>1, <1>l, <1>2 DEF MailInv

\* Every step of the fan-out leaves every mail explained.
LEMMA MailPreserved ==
  ASSUME FanOutTypeOK, MailInv,
         \/ \E m \in Mailers : FanOut(m) \/ OvertakenEnds(m)
         \/ \E m \in Mailers, e \in Facts :
              Take(m, e) \/ MailerDies(m, e) \/ HandlerThrows(m, e)
         \/ \E e \in Facts : Stall(e)
         \/ \E u \in Users : MarkNotificationsRead(u) \/ Leave(u)
  PROVE  MailInv'
<1> USE DEF rowVars, jobVars, faultVars, runVars, peopleVars
<1>t. mailer \in [Mailers -> Try \union {NoTry}]
  BY DEF FanOutTypeOK
<1>n. ASSUME NEW m \in Mailers, mailer[m] \in Try, NextTemplate(m),
             ~At(m, "went"), UNCHANGED <<sent, mails, doubts>>
      PROVE  MailInv'
  <2>0. mailer[m] # NoTry /\ mailer[m].e \in Facts
    BY <1>n DEF Try, NoTry
  <2>1. CASE mailer[m].t < Templates
    <3> DEFINE new == [mailer[m] EXCEPT !.at = "resolve", !.t = mailer[m].t + 1, !.to = {},
                                        !.u = Nobody]
    <3>1. mailer' = [mailer EXCEPT ![m] = new] /\ UNCHANGED holder
      BY <2>1, <1>n DEF NextTemplate
    <3>2. new.at = "resolve" /\ new.e = mailer[m].e /\ new # NoTry
      BY <1>n DEF Try, NoTry
    <3> HIDE DEF new
    <3> QED
      BY <1>n, <2>0, <3>1, <3>2, CarefulStep
  <2>2. CASE ~(mailer[m].t < Templates)
    <3>1. mailer' = [mailer EXCEPT ![m] = NoTry]
      BY <2>2, <1>n DEF NextTemplate
    <3>2. \/ holder[mailer[m].e] # m /\ UNCHANGED holder
          \/ holder[mailer[m].e] = m /\ holder' = [holder EXCEPT ![mailer[m].e] = Nobody]
      BY <2>2, <1>n DEF NextTemplate, HasLock
    <3> QED
      BY <1>n, <2>0, <3>1, <3>2, RunEnds
  <2> QED
    BY <2>1, <2>2
<1>b. ASSUME NEW m \in Mailers, NEW e \in Facts, MailerDies(m, e) \/ HandlerThrows(m, e)
      PROVE  MailInv'
  <2>1. /\ holder[e] = m /\ holder' = [holder EXCEPT ![e] = Nobody]
        /\ mailer' = [mailer EXCEPT ![m] = NoTry] /\ UNCHANGED <<sent, mails>>
        /\ doubts' = IF mailer[m].at = "went" THEN Plus(doubts, e) ELSE doubts
    BY <1>b DEF MailerDies, HandlerThrows, BreaksOff
  <2>2. m # Nobody
    BY FanOutAssumption DEF FanOutAssumption
  <2>3. mailer[m] # NoTry /\ mailer[m].e = e
    BY <2>1, <2>2 DEF MailInv, LocksAreHeld, Runs
  <2> QED
    BY <2>1, <2>3, RunEnds DEF At
<1>o. ASSUME NEW m \in Mailers, OvertakenEnds(m) PROVE MailInv'
  <2>1. /\ mailer[m] # NoTry /\ holder[mailer[m].e] # m
        /\ mailer' = [mailer EXCEPT ![m] = NoTry] /\ UNCHANGED <<sent, mails, holder, doubts>>
    BY <1>o DEF OvertakenEnds, HasLock
  <2>2. mailer[m].e \in Facts
    BY <1>t, <2>1 DEF Try
  <2> QED
    BY <2>1, <2>2, RunEnds
<1>1. ASSUME NEW m \in Mailers, ResolveRecipients(m) PROVE MailInv'
  <2> DEFINE new == [mailer[m] EXCEPT !.at = "write", !.to = eligible]
  <2>1. mailer[m] \in Try /\ mailer[m] # NoTry /\ mailer[m].at = "resolve"
    BY <1>1, TryBegun DEF ResolveRecipients, At, Try, NoTry
  <2>2. mailer' = [mailer EXCEPT ![m] = new] /\ UNCHANGED <<sent, mails, doubts, holder>>
    BY <1>1 DEF ResolveRecipients
  <2>3. new.at = "write" /\ new.e = mailer[m].e /\ new # NoTry
    BY <2>1 DEF Try, NoTry
  <2> HIDE DEF new
  <2> QED
    BY <2>1, <2>2, <2>3, CarefulStep DEF At
<1>2. ASSUME NEW m \in Mailers, WriteInboxRows(m) PROVE MailInv'
  <2>1. mailer[m] \in Try /\ mailer[m] # NoTry /\ mailer[m].at = "write"
    BY <1>2, TryBegun DEF WriteInboxRows, At, Try, NoTry
  <2>2. UNCHANGED <<sent, mails, doubts>>
    BY <1>2 DEF WriteInboxRows
  <2>3. CASE mailer[m].t \in Mailing
    <3> DEFINE new == [mailer[m] EXCEPT !.at = "mirror"]
    <3>1. mailer' = [mailer EXCEPT ![m] = new] /\ UNCHANGED holder
      BY <1>2, <2>3 DEF WriteInboxRows
    <3>2. new.at = "mirror" /\ new.e = mailer[m].e /\ new # NoTry
      BY <2>1 DEF Try, NoTry
    <3> HIDE DEF new
    <3> QED
      BY <2>1, <2>2, <3>1, <3>2, CarefulStep DEF At
  <2>4. CASE mailer[m].t \notin Mailing
    BY <1>2, <1>n, <2>1, <2>2, <2>4 DEF WriteInboxRows, At
  <2> QED
    BY <2>3, <2>4
<1>3. ASSUME NEW m \in Mailers, NEW u \in Users, MirrorByEmail(m, u) PROVE MailInv'
  <2>1. mailer[m] \in Try /\ mailer[m] # NoTry /\ mailer[m].at = "mirror"
    BY <1>3, TryBegun DEF MirrorByEmail, At, Try, NoTry
  <2>2. UNCHANGED <<sent, mails, doubts, holder>>
    BY <1>3 DEF MirrorByEmail
  <2>3. CASE Row(m, u) \in inbox \ sent
    <3> DEFINE new == [mailer[m] EXCEPT !.to = mailer[m].to \ {u}, !.at = "send", !.u = u]
    <3>1. mailer' = [mailer EXCEPT ![m] = new]
      BY <1>3, <2>3 DEF MirrorByEmail
    <3>2. new.at = "send" /\ <<new.e, new.t, new.u>> = Row(m, u) /\ new.e = mailer[m].e
      BY <2>1 DEF Try, Row
    <3> HIDE DEF new
    <3>3. <<new.e, new.t, new.u>> \notin sent' /\ new # NoTry
      BY <2>2, <2>3, <3>2 DEF NoTry
    <3> QED
      BY <2>1, <2>2, <3>1, <3>2, <3>3, CarefulStep DEF At
  <2>4. CASE Row(m, u) \notin inbox \ sent
    <3> DEFINE new == [mailer[m] EXCEPT !.to = mailer[m].to \ {u}]
    <3>1. mailer' = [mailer EXCEPT ![m] = new]
      BY <1>3, <2>4 DEF MirrorByEmail
    <3>2. new.at = "mirror" /\ new.e = mailer[m].e /\ new # NoTry
      BY <2>1 DEF Try, NoTry
    <3> HIDE DEF new
    <3> QED
      BY <2>1, <2>2, <3>1, <3>2, CarefulStep DEF At
  <2> QED
    BY <2>3, <2>4
<1>4. ASSUME NEW m \in Mailers, Send(m) PROVE MailInv'
  <2>1. mailer[m] \in Try /\ mailer[m] # NoTry /\ At(m, "send") /\ mailer[m].at = "send"
    BY <1>4, TryBegun DEF Send, At, Try, NoTry
  <2>2. UNCHANGED <<sent, doubts, holder>>
    BY <1>4 DEF Send
  <2>3. CASE /\ mails' = [mails EXCEPT ![Row(m, mailer[m].u)] = @ + 1]
             /\ mailer' = [mailer EXCEPT ![m] = [@ EXCEPT !.at = "went"]]
    BY <2>1, <2>2, <2>3, MailGoes
  <2>4. CASE mailer' = [mailer EXCEPT ![m] = [@ EXCEPT !.at = "failed"]] /\ UNCHANGED mails
    <3> DEFINE new == [mailer[m] EXCEPT !.at = "failed"]
    <3>1. mailer' = [mailer EXCEPT ![m] = new]
      BY <2>4
    <3>2. new.at = "failed" /\ new.e = mailer[m].e /\ new # NoTry
      BY <2>1 DEF Try, NoTry
    <3> HIDE DEF new
    <3> QED
      BY <2>1, <2>2, <2>4, <3>1, <3>2, CarefulStep DEF At
  <2> QED
    BY <1>4, <2>3, <2>4 DEF Send
<1>5. ASSUME NEW m \in Mailers, RecordMail(m) PROVE MailInv'
  <2> DEFINE new == [mailer[m] EXCEPT !.at = "mirror", !.u = Nobody]
  <2>1. mailer[m] \in Try /\ mailer[m] # NoTry /\ mailer[m].at \in {"went", "failed"}
    BY <1>5, TryBegun DEF RecordMail, At, Try, NoTry
  <2>2. /\ mailer' = [mailer EXCEPT ![m] = new] /\ UNCHANGED <<mails, doubts, holder>>
        /\ sent \subseteq sent' /\ (At(m, "went") => Row(m, mailer[m].u) \in sent')
    BY <1>5 DEF RecordMail, At
  <2>3. new.at = "mirror" /\ new.e = mailer[m].e /\ new # NoTry
    BY <2>1 DEF Try, NoTry
  <2> HIDE DEF new
  <2> QED
    BY <2>1, <2>2, <2>3, CarefulStep
<1>6. ASSUME NEW m \in Mailers, EndMirror(m) PROVE MailInv'
  <2>1. mailer[m] \in Try /\ mailer[m].at = "mirror"
    BY <1>6, TryBegun DEF EndMirror, At, Try, NoTry
  <2> QED
    BY <1>6, <1>n, <2>1 DEF EndMirror, At
<1>7. ASSUME NEW u \in Users, MarkNotificationsRead(u) \/ Leave(u) PROVE MailInv'
  <2>1. UNCHANGED <<mailer, sent, mails, doubts, holder>>
    BY <1>7 DEF MarkNotificationsRead, Leave
  <2> QED
    BY <2>1 DEF MailInv, LocksAreHeld, MailsAreBounded, MayMail, Running, Runs, WillMail, HasMailed, At, Row
<1> QED
  BY <1>1, <1>2, <1>3, <1>4, <1>5, <1>6, <1>7, <1>b, <1>o, RunBegins, LockLost DEF FanOut

----------------------------------------------------------------------------
(* Theorems                                                                *)

\* The invariant holds in every reachable state.
THEOREM DecisionInvariance == Spec => []Inv
<1>1. Init => Inv
  <2> SUFFICES ASSUME Init PROVE Inv
    OBVIOUS
  <2>1. TypeOK
    BY TypeInit
  <2>2. DeskInv
    BY DEF Init, CreditInit, DeskInv, OpenIsUndecided, AgreedIsAnnounced, CallsAreChecked,
           AbsentIsAbsent, AskIsAnIncrease, Absent, Undecided, NoCall
  <2>3. TellInv
    BY DEF Init, FanOutInit, TellInv, CompletedMeansTold, TellsInOrder
  <2>4. MailInv
    <3>1. Running = {} /\ \A n \in Notes : MayMail(n) = {}
      BY DEF Init, FanOutInit, Running, MayMail, Runs
    <3>2. \A n \in Notes : mails[n] = 0 /\ doubts[n[1]] = 0
      BY DEF Init, FanOutInit, Notes
    <3>3. LocksAreHeld
      BY DEF Init, FanOutInit, LocksAreHeld
    <3> QED
      BY <3>1, <3>2, <3>3, FS_EmptySet DEF MailInv, MailsAreBounded
  <2> QED
    BY <2>1, <2>2, <2>3, <2>4 DEF Inv
<1>2. Inv /\ [Next]_vars => Inv'
  <2> SUFFICES ASSUME Inv, [Next]_vars PROVE DeskInv' /\ TellInv' /\ MailInv'
    BY TypePreserved DEF Inv
  <2> USE DEF Inv, TypeOK
  <2>a. Announced \subseteq Facts
    BY DecisionAssumption DEF DecisionAssumption, Announced
  <2>c. ASSUME UNCHANGED creditVars PROVE DeskInv'
    BY <2>c DEF DeskInv, creditVars, OpenIsUndecided, AgreedIsAnnounced, CallsAreChecked,
                AbsentIsAbsent, AskIsAnIncrease
  <2>f. ASSUME UNCHANGED fanOutVars PROVE TellInv' /\ MailInv'
    <3>1. TellInv'
      BY <2>f, TellsFrame DEF TellInv, CompletedMeansTold, fanOutVars, rowVars, jobVars,
                              faultVars, runVars, peopleVars
    <3>2. MailInv'
      BY <2>f DEF MailInv, LocksAreHeld, MailsAreBounded, MayMail, Running, Runs, WillMail,
                  HasMailed, At, Row, fanOutVars, rowVars, jobVars, faultVars, runVars
    <3> QED
      BY <3>1, <3>2
  <2>1. CASE CreditNext /\ UNCHANGED fanOutVars
    BY <2>1, <2>f, DeskPreserved
  <2>2. CASE \E m \in Mailers : Tell(m)
    BY <2>2, <2>a, <2>c, TellPreserved, MailPreserved DEF Tell
  <2>3. CASE /\ \/ \E m \in Mailers : OvertakenEnds(m)
                \/ \E m \in Mailers, e \in Announced : MailerDies(m, e) \/ HandlerThrows(m, e)
                \/ \E e \in Announced : Stall(e)
                \/ \E u \in Users : MarkNotificationsRead(u) \/ Leave(u)
             /\ UNCHANGED creditVars
    BY <2>3, <2>a, <2>c, TellPreserved, MailPreserved
  <2>4. CASE UNCHANGED vars
    BY <2>4, <2>c, <2>f DEF vars
  <2> QED
    BY <2>1, <2>2, <2>3, <2>4 DEF Next
<1> QED
  BY <1>1, <1>2, PTL DEF Spec

\* Every variable keeps its type.
THEOREM DecisionTypeCorrect == Spec => []TypeOK
<1>1. Inv => TypeOK
  BY DEF Inv
<1> QED
  BY <1>1, DecisionInvariance, PTL

\* The limit on a row is the one that was announced, whatever clerks and
\* customers did at the same time.
THEOREM AgreementIsAnnounced == Spec => []AgreedIsAnnounced
<1>1. Inv => AgreedIsAnnounced
  BY DEF Inv, DeskInv
<1> QED
  BY <1>1, DecisionInvariance, PTL

\* The row keeps the limit that the ask was compared with, however the limit
\* in SAP has moved since.
THEOREM AskExceedsItsLimit == Spec => []AskIsAnIncrease
<1>1. Inv => AskIsAnIncrease
  BY DEF Inv, DeskInv
<1> QED
  BY <1>1, DecisionInvariance, PTL

\* A completed job has told everyone who could hear all along.
THEOREM CompletedHasTold == Spec => []CompletedMeansTold
<1>1. Inv => CompletedMeansTold
  BY DEF Inv, TellInv
<1> QED
  BY <1>1, DecisionInvariance, PTL

\* A recipient gets one mail of an event, and one more at most for each run of its
\* job that ended between a mail and its record, or lost the lock and went on.
THEOREM MailsHaveReasons == Spec => []MailsAreExplained
<1>1. Inv => MailsAreExplained
  <2> SUFFICES ASSUME Inv, NEW n \in Notes PROVE mails[n] <= 1 + doubts[n[1]]
    BY DEF MailsAreExplained
  <2>1. MailsAreBounded(n) /\ Cardinality(MayMail(n)) \in Nat
    BY MayMailFinite DEF Inv, MailInv
  <2>2. mails[n] \in Nat /\ doubts[n[1]] \in Nat
    BY Counted DEF Inv, TypeOK
  <2> QED
    BY <2>1, <2>2 DEF MailsAreBounded
<1> QED
  BY <1>1, DecisionInvariance, PTL

\* What was read or sent stays so, whatever is delivered again.
THEOREM ReadRowsStayRead == Spec => ReadStaysRead
<1>1. [Next]_vars => [read \subseteq read' /\ sent \subseteq sent']_fanOutVars
  <2> SUFFICES ASSUME [Next]_vars PROVE (read \subseteq read' /\ sent \subseteq sent') \/ UNCHANGED fanOutVars
    OBVIOUS
  <2> USE DEF rowVars, jobVars, faultVars, runVars, peopleVars
  <2>1. ASSUME NEW m \in Mailers, FanOut(m) PROVE read \subseteq read' /\ sent \subseteq sent'
    BY <2>1 DEF FanOut, ResolveRecipients, WriteInboxRows, MirrorByEmail, Send, RecordMail, EndMirror
  <2>2. ASSUME NEW m \in Mailers, NEW e,
               \/ Take(m, e) \/ MailerDies(m, e) \/ HandlerThrows(m, e)
               \/ OvertakenEnds(m)
        PROVE  read \subseteq read' /\ sent \subseteq sent'
    BY <2>2 DEF Take, MailerDies, HandlerThrows, BreaksOff, OvertakenEnds
  <2>3. ASSUME NEW u \in Users, MarkNotificationsRead(u) \/ Leave(u)
        PROVE  read \subseteq read' /\ sent \subseteq sent'
    BY <2>3 DEF MarkNotificationsRead, Leave
  <2>4. ASSUME NEW e, Stall(e) PROVE read \subseteq read' /\ sent \subseteq sent'
    BY <2>4 DEF Stall
  <2>5. CASE CreditNext /\ UNCHANGED fanOutVars
    BY <2>5
  <2>6. CASE \E m \in Mailers : Tell(m)
    BY <2>1, <2>2, <2>6 DEF Tell
  <2> QED
    BY <2>2, <2>3, <2>4, <2>5, <2>6 DEF Next, vars
<1> QED
  BY <1>1, PTL DEF Spec, ReadStaysRead
============================================================================
