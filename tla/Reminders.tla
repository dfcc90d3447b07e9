----------------------------- MODULE Reminders -----------------------------
(***************************************************************************)
(* The reminder job (reminder-job.controller.ts, reminder-job.service.ts,  *)
(* reminder-schedule.ts, reminder-auto-whatsapp.ts, internal-job-auth.ts). *)
(* A job reads an organization's settings, reminders and invoices once,    *)
(* then sends a message for each reminder that is due and saves the        *)
(* reminder, one after the other.  The clock, the studio's edits, a second *)
(* job, failures of a send or a save, and a restart of the server all fall *)
(* between its steps.                                                      *)
(***************************************************************************)
EXTENDS Calendar, Functions, TLC

CONSTANTS
  Jobs,        \* calls of the job that can be under way at once
  Cron,        \* the one that the schedule makes, for every organization
  Orgs,
  Rems,        \* the reminders
  OrgOf,       \* organization of each
  Plans,       \* [kind, freq, due] of each, as they may have been created
  NoPhone,     \* those without a phone number
  BadPhones,   \* those whose number is always refused
  Lead,        \* reminderLeadDays
  Clock,       \* the days the clock stops at
  MaxFailures, \* bound on failed sends and saves, and restarts
  None

\* The days of the job, and what a reminder comes due next, lie within the calendar.
ASSUME ReminderAssumption ==
  /\ Clock # {} /\ Lead \in Nat
  /\ \A d \in Clock : d \in Nat /\ d + Lead < YearStart(2029)
  /\ \A plan \in Plans, r \in Rems : plan[r].due \in Nat
  /\ None \notin Rems /\ IsFiniteSet(Jobs)

VARIABLES
  day,       \* the day it is
  reminders, \* serviceReminders: [kind, freq, due, status, sent]
  owed,      \* per reminder: what is outstanding on the invoice it names
  enabled,   \* organizations with whatsappReminderEnabled
  job,       \* per call: organizations left, reminders left as they were read, the one sent
  failures,
  overlap,   \* ghost: two jobs have been under way at once
  tally      \* ghost: messages of <<reminder, period>>, but for those whose save was lost

reminderVars == <<day, reminders, owed, enabled, job, failures, overlap, tally>>

Earliest(S) == CHOOSE d \in S : \A e \in S : d <= e

Idle == [left |-> {}, todo |-> <<>>, sending |-> None]

ReminderInit ==
  /\ day = Earliest(Clock)
  /\ \E plan \in Plans :
       reminders = [r \in Rems |-> [kind |-> plan[r].kind, freq |-> plan[r].freq,
                                    due |-> plan[r].due, status |-> "OPEN", sent |-> FALSE]]
  /\ owed = [r \in Rems |-> 1]
  /\ enabled \in SUBSET Orgs
  /\ job = [j \in Jobs |-> Idle]
  /\ failures = 0
  /\ overlap = FALSE
  /\ tally = <<>>

-----------------------------------------------------------------------------
(* Schedule                                                                 *)

\* Mutant: a month without that day carries into the one after.
AddMonths_Carries(d, n) ==
  DayNo(YearOf(d), MonthOf(d) + n, 1) + (d - DayNo(YearOf(d), MonthOf(d), 1))

\* addCalendarMonths: at most the last day of the month
AddMonths(d, n) ==
  LET first == DayNo(YearOf(d), MonthOf(d) + n, 1)
      last  == DayNo(YearOf(d), MonthOf(d) + n + 1, 0)
      same  == first + (d - DayNo(YearOf(d), MonthOf(d), 1)) IN
  IF same <= last THEN same ELSE last

MonthsOfFrequency(freq) ==
  CASE freq = "QUARTERLY" -> 3 [] freq = "BIANNUAL" -> 6 [] freq = "YEARLY" -> 12 [] OTHER -> 1

NextDueDate(d, freq) == IF freq = "WEEKLY" THEN d + 7 ELSE AddMonths(d, MonthsOfFrequency(freq))

\* periodKey; a week belongs to the year of its Thursday.
PeriodKey(d, freq) ==
  LET thursday == d + 4 - IF WeekDay(d) = 0 THEN 7 ELSE WeekDay(d)
      ofYear   == thursday - YearStart(YearOf(thursday)) IN
  IF freq = "WEEKLY" THEN <<YearOf(thursday), (ofYear + 7) \div 7>>
  ELSE <<YearOf(d), MonthOf(d) \div MonthsOfFrequency(freq)>>

\* A payment reminder on a schedule of its own goes on by the month.
Frequency(rem) == IF rem.freq = "CUSTOM" THEN "MONTHLY" ELSE rem.freq

\* Mutant: the reminder is opened again for the day it was due.
Advanced_SameDay(rem) == [rem EXCEPT !.sent = FALSE]

\* advancePaymentReminderAfterSend
Advanced(rem) == [[rem EXCEPT !.due = NextDueDate(@, Frequency(rem))] EXCEPT !.sent = FALSE]

\* selectRemindersForAutoWhatsApp: DUE or OVERDUE, not closed, not sent
Selected(r, rem, amount, today) ==
  /\ rem.status = "OPEN" /\ rem.due - today <= Lead
  /\ r \notin NoPhone
  /\ ~rem.sent
  /\ rem.kind = "PAYMENT" => amount > 0

-----------------------------------------------------------------------------
(* The job                                                                  *)

\* requireInternalJobAuth: a call has the key of the schedule, or comes from an
\* employee who may, for the employee's organization.
Targets(j, staff) == IF j = Cron THEN Orgs ELSE {staff}

StartJob(j) ==
  /\ job[j] = Idle
  /\ \E o \in Orgs : job' = [job EXCEPT ![j].left = Targets(j, o)]
  /\ overlap' = (overlap \/ \E i \in Jobs \ {j} : job[i] # Idle)
  /\ UNCHANGED <<day, reminders, owed, enabled, failures, tally>>

\* processOneOrg, up to the first send: what is read is used until it is done.
ReadOrg(j) ==
  /\ DOMAIN job[j].todo = {}
  /\ \E o \in job[j].left :
       LET due == {r \in Rems : /\ OrgOf[r] = o /\ o \in enabled
                                /\ Selected(r, reminders[r], owed[r], day)} IN
       job' = [job EXCEPT ![j] = [left |-> @.left \ {o}, todo |-> [r \in due |-> reminders[r]],
                                  sending |-> None]]
  /\ UNCHANGED <<day, reminders, owed, enabled, failures, overlap, tally>>

Fail == failures < MaxFailures /\ failures' = failures + 1

\* The read fails, and the whole job with it.
ReadFails(j) ==
  /\ DOMAIN job[j].todo = {} /\ job[j].left # {}
  /\ Fail
  /\ job' = [job EXCEPT ![j] = Idle]
  /\ UNCHANGED <<day, reminders, owed, enabled, overlap, tally>>

Mark(j, r) == LET read == job[j].todo[r] IN <<r, PeriodKey(read.due, Frequency(read))>>
Messages(m) == IF m \in DOMAIN tally THEN tally[m] ELSE 0

\* Any reminder that is left may be the next.
Send(j, r) ==
  /\ r \in DOMAIN job[j].todo /\ job[j].sending = None
  /\ r \notin BadPhones
  /\ job' = [job EXCEPT ![j].sending = r]
  /\ tally' = [m \in DOMAIN tally \cup {Mark(j, r)} |->
                 IF m = Mark(j, r) THEN Messages(m) + 1 ELSE tally[m]]
  /\ UNCHANGED <<day, reminders, owed, enabled, failures, overlap>>

\* Mutant: a failure ends the organization's turn.
Rest_Ended(todo, r) == <<>>

\* The next reminder's turn comes, after a failure (catch) as after a save.
Rest(todo, r) == Restrict(todo, DOMAIN todo \ {r})

SendFails(j, r) ==
  /\ r \in DOMAIN job[j].todo /\ job[j].sending = None
  /\ IF r \in BadPhones THEN UNCHANGED failures ELSE Fail
  /\ job' = [job EXCEPT ![j].todo = Rest(@, r)]
  /\ UNCHANGED <<day, reminders, owed, enabled, overlap, tally>>

\* The reminder is written as it was read, marked, and, for a payment, advanced.
Save(j, r) ==
  LET read == job[j].todo[r] IN
  /\ job[j].sending = r
  /\ reminders' = [reminders EXCEPT ![r] =
       IF read.kind = "PAYMENT" THEN Advanced(read) ELSE [read EXCEPT !.sent = TRUE]]
  /\ job' = [job EXCEPT ![j] = [left |-> @.left, todo |-> Restrict(@.todo, DOMAIN @.todo \ {r}),
                                sending |-> None]]
  /\ UNCHANGED <<day, owed, enabled, failures, overlap, tally>>

SaveFails(j, r) ==
  /\ job[j].sending = r
  /\ Fail
  /\ job' = [job EXCEPT ![j] = [left |-> @.left, todo |-> Rest(@.todo, r), sending |-> None]]
  /\ tally' = [tally EXCEPT ![Mark(j, r)] = @ - 1]
  /\ UNCHANGED <<day, reminders, owed, enabled, overlap>>

\* The server restarts: its jobs are gone, and nothing of them is stored.
Unsaved(m) == {j \in Jobs : job[j].sending # None /\ m = Mark(j, job[j].sending)}

Restart ==
  /\ Fail
  /\ \E j \in Jobs : job[j] # Idle
  /\ job' = [j \in Jobs |-> Idle]
  /\ tally' = [m \in DOMAIN tally |-> tally[m] - Cardinality(Unsaved(m))]
  /\ UNCHANGED <<day, reminders, owed, enabled, overlap>>

JobStep(j) ==
  \/ ReadOrg(j) \/ ReadFails(j)
  \/ \E r \in Rems : Send(j, r) \/ SendFails(j, r) \/ Save(j, r) \/ SaveFails(j, r)

-----------------------------------------------------------------------------
(* The world around it                                                      *)

NextDay ==
  /\ \E d \in Clock : d > day
  /\ day' = Earliest({d \in Clock : d > day})
  /\ UNCHANGED <<reminders, owed, enabled, job, failures, overlap, tally>>

\* External: a reminder is dismissed, an invoice is paid, WhatsApp is switched off.
Dismiss(r) ==
  /\ reminders[r].status = "OPEN"
  /\ reminders' = [reminders EXCEPT ![r].status = "DISMISSED"]
  /\ UNCHANGED <<day, owed, enabled, job, failures, overlap, tally>>

Paid(r) ==
  /\ reminders[r].kind = "PAYMENT" /\ owed[r] > 0
  /\ owed' = [owed EXCEPT ![r] = 0]
  /\ UNCHANGED <<day, reminders, enabled, job, failures, overlap, tally>>

SwitchOff(o) ==
  /\ o \in enabled
  /\ enabled' = enabled \ {o}
  /\ UNCHANGED <<day, reminders, owed, job, failures, overlap, tally>>

ReminderStep ==
  \/ \E j \in Jobs : StartJob(j) \/ JobStep(j)
  \/ Restart \/ NextDay
  \/ \E r \in Rems : Dismiss(r) \/ Paid(r)
  \/ \E o \in Orgs : SwitchOff(o)

ReminderSpec == ReminderInit /\ [][ReminderStep]_reminderVars

-----------------------------------------------------------------------------
(* Properties                                                               *)

ReminderTypeOK ==
  /\ day \in Clock
  /\ \A r \in Rems : /\ reminders[r].sent \in BOOLEAN
                     /\ reminders[r].status \in {"OPEN", "DISMISSED"}
                     /\ reminders[r].due \in Nat
  /\ \A j \in Jobs : job[j].sending \in DOMAIN job[j].todo \cup {None}
  /\ \A m \in DOMAIN tally : tally[m] \in Nat

\* Unless two jobs overlap, a customer gets at most one message for a period of
\* a reminder, however jobs, days and edits follow each other; the only others
\* are those whose save failed or was cut off by a restart.
OncePerPeriod == ~overlap => \A m \in DOMAIN tally : tally[m] <= 1

\* A payment reminder moves on by exactly one of its periods: none is skipped at
\* the end of a short month, and it never comes due again in the same one.
Period(d, freq) ==
  IF freq = "WEEKLY" THEN (d + 2) \div 7
  ELSE (12 * YearOf(d) + MonthOf(d)) \div MonthsOfFrequency(freq)

AdvancesOnePeriod ==
  [][\A j \in Jobs, r \in Rems :
       Save(j, r) /\ reminders[r].kind = "PAYMENT" =>
         LET before == job[j].todo[r]  freq == Frequency(before)
             after  == reminders'[r].due IN
         /\ Period(after, freq) = Period(before.due, freq) + 1
         /\ PeriodKey(after, freq) # PeriodKey(before.due, freq)]_reminderVars

\* What is due is sent, or no longer asked for: neither a number that is always
\* refused nor failures and restarts that come to an end keep it from its turn.
DueIsSent ==
  \A r \in Rems \ (NoPhone \cup BadPhones) :
    (OrgOf[r] \in enabled /\ Selected(r, reminders[r], owed[r], day))
      ~> (\/ OrgOf[r] \notin enabled
          \/ ~Selected(r, reminders[r], owed[r], day)
          \/ <<r, PeriodKey(reminders[r].due, Frequency(reminders[r]))>> \in DOMAIN tally)
=============================================================================
