------------------------- MODULE NotificationFanOut -------------------------
(***************************************************************************)
(* Turning an event into notifications (packages/services/notification):   *)
(* for each template of the event, who may hear of it now, an inbox row    *)
(* each, and then one mail after another, recorded on the row.  The job of *)
(* an event is held by one worker at a time, under a lock: a worker may    *)
(* die or throw at any point and the job be taken again, or stall, lose    *)
(* its lock and run on beside the worker that takes the job next.  A job   *)
(* that stalls too often, or throws too often, is given up (see JobQueue). *)
(***************************************************************************)
EXTENDS Naturals

CONSTANTS
  Facts,             \* notifiable events, by outbox row id
  Templates,         \* how many templates an event has
  Mailing,           \* those with the email channel
  Users, Nobody,
  Mailers,           \* workers on the queue of these events
  MaxTries,          \* defaultJobOptions.attempts
  MaxStalledCount,   \* the worker's maxStalledCount
  MaxFanOutFaults,   \* bound: stalls and throws of one job
  MaxLeavers         \* bound: users who lose their eligibility

ASSUME FanOutAssumption ==
  /\ Templates \in Nat \ {0} /\ Mailing \subseteq 1..Templates
  /\ Nobody \notin Users \union Mailers
  /\ MaxTries \in Nat \ {0} /\ MaxStalledCount \in Nat
  /\ MaxFanOutFaults \in Nat /\ MaxLeavers \in Nat

VARIABLES
  eligible,       \* users that resolveRecipients finds
  inbox,          \* Notification rows: <<event, template, user>>
  read,           \* rows with readAt
  sent, bounced,  \* rows with emailSentAt, with emailError
  mails,          \* mails[n]: mails of row n that went out
  told,           \* events whose job has completed
  holder,         \* holder[e]: the worker with the lock of the job of e
  stalls, tries,  \* stalls[e], tries[e]: times the job stalled, and threw
  doubts,         \* doubts[e]: runs of e that ended with a mail unrecorded,
                  \* or lost the lock while they went on (history)
  mailer,         \* mailer[m]: where deliverEventNotifications is
  leavers

rowVars == <<inbox, read, sent, bounced, mails>>
jobVars == <<told, holder>>
faultVars == <<stalls, tries, doubts>>
runVars == <<jobVars, faultVars>>
peopleVars == <<eligible, leavers>>
fanOutVars == <<rowVars, runVars, peopleVars, mailer>>

Notes == Facts \X (1..Templates) \X Users
NoTry == [at |-> "idle"]
\* to: recipients resolved and not yet mirrored; u: the one being mirrored.
Try == [at : {"resolve", "write", "mirror"}, e : Facts, t : 1..Templates,
        to : SUBSET Users, u : {Nobody}]
         \union [at : {"send", "went", "failed"}, e : Facts, t : 1..Templates,
                 to : SUBSET Users, u : Users]

FanOutTypeOK ==
  /\ eligible \in SUBSET Users
  /\ inbox \in SUBSET Notes
  /\ read \in SUBSET Notes
  /\ sent \in SUBSET Notes
  /\ bounced \in SUBSET Notes
  /\ mails \in [Notes -> Nat]
  /\ told \in SUBSET Facts
  /\ holder \in [Facts -> Mailers \union {Nobody}]
  /\ stalls \in [Facts -> 0..MaxFanOutFaults]
  /\ tries \in [Facts -> 0..MaxFanOutFaults]
  /\ doubts \in [Facts -> Nat]
  /\ mailer \in [Mailers -> Try \union {NoTry}]
  /\ leavers \in 0..MaxLeavers

FanOutInit ==
  /\ eligible = Users
  /\ inbox = {} /\ read = {} /\ sent = {} /\ bounced = {}
  /\ mails = [n \in Notes |-> 0]
  /\ told = {}
  /\ holder = [e \in Facts |-> Nobody]
  /\ stalls = [e \in Facts |-> 0]
  /\ tries = [e \in Facts |-> 0]
  /\ doubts = [e \in Facts |-> 0]
  /\ mailer = [m \in Mailers |-> NoTry]
  /\ leavers = 0

----------------------------------------------------------------------------
(* The job                                                                 *)

Runs(m, e) == mailer[m] # NoTry /\ mailer[m].e = e
HasLock(m) == holder[mailer[m].e] = m
Plus(f, e) == [f EXCEPT ![e] = @ + 1]
Starts(m, e) ==
  mailer' = [mailer EXCEPT ![m] = [at |-> "resolve", e |-> e, t |-> 1, to |-> {},
                                   u |-> Nobody]]
FaultLeft(e) == stalls[e] + tries[e] < MaxFanOutFaults

\* The job is in `failed`.
GivenUp(e) == stalls[e] > MaxStalledCount \/ tries[e] >= MaxTries
Waits(e) == e \notin told /\ holder[e] = Nobody /\ ~GivenUp(e)

\* Seeded fault: the job is acknowledged when it is taken.
TakeAcknowledged(m, e) ==
  /\ mailer[m] = NoTry /\ Waits(e)
  /\ Starts(m, e)
  /\ told' = told \union {e}
  /\ holder' = [holder EXCEPT ![e] = m]
  /\ UNCHANGED <<rowVars, faultVars, peopleVars>>

Take(m, e) ==
  /\ mailer[m] = NoTry /\ Waits(e)
  /\ Starts(m, e)
  /\ holder' = [holder EXCEPT ![e] = m]
  /\ UNCHANGED <<rowVars, told, faultVars, peopleVars>>

\* The lock of a worker that still runs expires: the job has stalled.
Stall(e) ==
  /\ holder[e] # Nobody /\ FaultLeft(e)
  /\ holder' = [holder EXCEPT ![e] = Nobody]
  /\ stalls' = Plus(stalls, e)
  /\ doubts' = Plus(doubts, e)
  /\ UNCHANGED <<rowVars, told, tries, mailer, peopleVars>>

\* A run ends early: its job is free again, a fault of it counted, and the mail
\* that just went out may not be on record.
BreaksOff(m, e) ==
  /\ holder[e] = m /\ FaultLeft(e)
  /\ holder' = [holder EXCEPT ![e] = Nobody]
  /\ mailer' = [mailer EXCEPT ![m] = NoTry]
  /\ doubts' = IF mailer[m].at = "went" THEN Plus(doubts, e) ELSE doubts
  /\ UNCHANGED <<rowVars, told, peopleVars>>

MailerDies(m, e) ==
  /\ BreaksOff(m, e)
  /\ stalls' = Plus(stalls, e)
  /\ UNCHANGED tries

\* A statement of the handler fails; the driver's errors are caught.
HandlerThrows(m, e) ==
  /\ mailer[m].at # "send"
  /\ BreaksOff(m, e)
  /\ tries' = Plus(tries, e)
  /\ UNCHANGED stalls

\* A worker that has lost the lock dies or throws: the job is not its any more.
OvertakenEnds(m) ==
  /\ mailer[m] # NoTry /\ ~HasLock(m)
  /\ mailer' = [mailer EXCEPT ![m] = NoTry]
  /\ UNCHANGED <<rowVars, runVars, peopleVars>>

----------------------------------------------------------------------------
(* deliverEventNotifications                                               *)

At(m, step) == mailer[m].at = step
Row(m, u) == <<mailer[m].e, mailer[m].t, u>>

ResolveRecipients(m) ==
  /\ At(m, "resolve")
  /\ mailer' = [mailer EXCEPT ![m] = [@ EXCEPT !.at = "write", !.to = eligible]]
  /\ UNCHANGED <<rowVars, runVars, peopleVars>>

\* After the last template the job completes, but not for a worker that has
\* lost its lock.
NextTemplate(m) ==
  IF mailer[m].t < Templates
  THEN /\ mailer' = [mailer EXCEPT ![m] =
            [@ EXCEPT !.at = "resolve", !.t = mailer[m].t + 1, !.to = {}, !.u = Nobody]]
       /\ UNCHANGED jobVars
  ELSE /\ mailer' = [mailer EXCEPT ![m] = NoTry]
       /\ IF HasLock(m)
          THEN /\ told' = told \union {mailer[m].e}
               /\ holder' = [holder EXCEPT ![mailer[m].e] = Nobody]
          ELSE UNCHANGED jobVars

\* Seeded fault: a try that writes no new row has nothing left to send.
WriteRowsOnce(m) ==
  LET rows == {Row(m, u) : u \in mailer[m].to}
  IN
  /\ At(m, "write")
  /\ inbox' = inbox \union rows
  /\ IF mailer[m].t \in Mailing /\ ~(rows \subseteq inbox)
     THEN /\ mailer' = [mailer EXCEPT ![m] = [@ EXCEPT !.at = "mirror"]]
          /\ UNCHANGED jobVars
     ELSE NextTemplate(m)
  /\ UNCHANGED <<read, sent, bounced, mails, faultVars, peopleVars>>

\* createMany with skipDuplicates.
WriteInboxRows(m) ==
  /\ At(m, "write")
  /\ inbox' = inbox \union {Row(m, u) : u \in mailer[m].to}
  /\ IF mailer[m].t \in Mailing
     THEN /\ mailer' = [mailer EXCEPT ![m] = [@ EXCEPT !.at = "mirror"]]
          /\ UNCHANGED jobVars
     ELSE NextTemplate(m)
  /\ UNCHANGED <<read, sent, bounced, mails, faultVars, peopleVars>>

\* Seeded fault: the row of a redelivery is not asked whether its mail went.
MirrorAgain(m, u) ==
  /\ At(m, "mirror") /\ u \in mailer[m].to
  /\ mailer' = [mailer EXCEPT ![m] =
       [@ EXCEPT !.to = mailer[m].to \ {u}, !.at = "send", !.u = u]]
  /\ UNCHANGED <<rowVars, runVars, peopleVars>>

\* mirrorByEmail reads the row; one that carries a send time is skipped.
MirrorByEmail(m, u) ==
  /\ At(m, "mirror") /\ u \in mailer[m].to
  /\ mailer' = [mailer EXCEPT ![m] =
       IF Row(m, u) \in inbox \ sent
       THEN [@ EXCEPT !.to = mailer[m].to \ {u}, !.at = "send", !.u = u]
       ELSE [@ EXCEPT !.to = mailer[m].to \ {u}]]
  /\ UNCHANGED <<rowVars, runVars, peopleVars>>

\* The driver is external: the mail goes out, or it does not.
Send(m) ==
  /\ At(m, "send")
  /\ \/ /\ mails' = [mails EXCEPT ![Row(m, mailer[m].u)] = @ + 1]
        /\ mailer' = [mailer EXCEPT ![m] = [@ EXCEPT !.at = "went"]]
     \/ /\ mailer' = [mailer EXCEPT ![m] = [@ EXCEPT !.at = "failed"]]
        /\ UNCHANGED mails
  /\ UNCHANGED <<inbox, read, sent, bounced, runVars, peopleVars>>

\* The outcome is recorded on the row, a failure too; the next one is tried.
RecordMail(m) ==
  LET row == Row(m, mailer[m].u)
  IN
  /\ \/ At(m, "went") /\ sent' = sent \union {row} /\ bounced' = bounced \ {row}
     \/ At(m, "failed") /\ bounced' = bounced \union {row} /\ UNCHANGED sent
  /\ mailer' = [mailer EXCEPT ![m] = [@ EXCEPT !.at = "mirror", !.u = Nobody]]
  /\ UNCHANGED <<inbox, read, mails, runVars, peopleVars>>

EndMirror(m) ==
  /\ At(m, "mirror") /\ mailer[m].to = {}
  /\ NextTemplate(m)
  /\ UNCHANGED <<rowVars, faultVars, peopleVars>>

FanOut(m) ==
  \/ ResolveRecipients(m) \/ WriteInboxRows(m) \/ Send(m) \/ RecordMail(m)
  \/ \E u \in Users : MirrorByEmail(m, u)
  \/ EndMirror(m)

----------------------------------------------------------------------------
(* The people                                                              *)

\* markNotificationsRead; the set of ids is one row or all of a user's.
MarkNotificationsRead(u) ==
  \E ids \in {{n} : n \in inbox} \union {inbox} :
    LET mine == {n \in ids : n[3] = u} \ read
    IN
    /\ mine # {}
    /\ read' = read \union mine
    /\ UNCHANGED <<inbox, sent, bounced, mails, runVars, peopleVars, mailer>>

\* A user is deactivated, or loses the role or the account.
Leave(u) ==
  /\ u \in eligible /\ leavers < MaxLeavers
  /\ eligible' = eligible \ {u}
  /\ leavers' = leavers + 1
  /\ UNCHANGED <<rowVars, runVars, mailer>>

----------------------------------------------------------------------------
(* Properties                                                              *)

\* "A row that already carries a send time is a redelivery whose mail went out
\* the first time" (mirrorByEmail): a recipient gets one mail of an event, and
\* one more at most for each run of its job that ended between a mail and its
\* record, or lost the lock and went on beside the next one.
MailsAreExplained ==
  \A n \in Notes : mails[n] <= 1 + doubts[n[1]]

\* A job completes only when everyone who could hear of the event all along
\* has the row of each template, and every row that asks for a mail has its
\* outcome, whatever mails failed and wherever earlier tries stopped.
CompletedMeansTold ==
  \A e \in told, u \in eligible, t \in 1..Templates :
    /\ <<e, t, u>> \in inbox
    /\ t \in Mailing => <<e, t, u>> \in sent \union bounced

\* "When did you first see this" (markNotificationsRead): a redelivery never
\* makes a row unread again, nor forgets that its mail was sent.
ReadStaysRead == [][read \subseteq read' /\ sent \subseteq sent']_fanOutVars
============================================================================
