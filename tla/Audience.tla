------------------------------- MODULE Audience -------------------------------
(***************************************************************************)
(* Who uses the service (services/telegram_users.py) and the report of it     *)
(* that the administrators get once a day (stats/main.py).  One user is        *)
(* followed: the counts of the report are sums over users.                   *)
(*                                                                         *)
(* MiniApp has the events that record the user: each reads the clock, and its  *)
(* upsert commits later, maybe after that of a younger event.                 *)
(***************************************************************************)
EXTENDS Integers, FiniteSets

CONSTANTS
    Admins,       \* admin_telegram_user_ids
    DayLength,    \* a day, in units of the clock
    ReportHour,   \* daily_stats_hour_utc, in the same units
    NoRow, NoAdmin,
    MaxTime,      \* bound on the clock
    MaxFaults     \* bound on failures

ASSUME AudienceAssumption ==
    /\ DayLength \in Nat \ {0}
    /\ {ReportHour, MaxTime, MaxFaults} \subseteq Nat
    /\ NoRow \notin [first : Int, last : Int]
    /\ NoAdmin \notin Admins

Dates == 0..(MaxTime \div DayLength)

VARIABLES
    now,       \* the clock
    user,      \* telegram_users: the row of the user
    report,    \* the reporting process
    marked,    \* daily_stats_deliveries
    sent,      \* how often each report reached each administrator
    unmarked,  \* history: how often a report that arrived was not recorded
    figure,    \* the new users of each date, as last reported
    faults     \* failures so far, of any component

audienceVars == <<user, report, marked, sent, unmarked, figure>>

TelegramUser == [first : 0..MaxTime, last : 0..MaxTime]

Report == [step : {"idle", "sending", "sent"}, date : Dates, new : 0..1,
           left : SUBSET Admins, to : Admins \cup {NoAdmin}]

NoReport == [step |-> "idle", date |-> 0, new |-> 0, left |-> {}, to |-> NoAdmin]

AudienceTypeOK ==
    /\ now \in 0..MaxTime
    /\ user \in TelegramUser \cup {NoRow}
    /\ report \in Report
    /\ marked \subseteq (Dates \X Admins)
    /\ sent \in [Dates \X Admins -> Nat]
    /\ unmarked \in [Dates \X Admins -> Nat]
    /\ figure \in [Dates -> 0..1]
    /\ faults \in 0..MaxFaults

AudienceInit ==
    /\ now = 0
    /\ user = NoRow
    /\ report = NoReport
    /\ marked = {}
    /\ sent = [d \in Dates \X Admins |-> 0]
    /\ unmarked = sent
    /\ figure = [d \in Dates |-> 0]
    /\ faults = 0

-----------------------------------------------------------------------------
(* The row.                                                                  *)

(* Mutant of Upserted: an event sets both times.                             *)
MutantSeenFirstAgain(at) == [first |-> at, last |-> at]

(* record_telegram_user: the row after an event that read the clock at `at'.  *)
Upserted(at) ==
    IF user = NoRow THEN [first |-> at, last |-> at] ELSE [user EXCEPT !.last = at]

(* The CHECK seen_order of the table; if it fails the event is not handled.    *)
SeenInOrder(row) == row.last >= row.first

-----------------------------------------------------------------------------
(* The report.                                                               *)

(* send_due_report up to the first administrator: the figures of yesterday.   *)
ComputeReport ==
    /\ report.step = "idle"
    /\ now % DayLength >= ReportHour
    /\ now >= DayLength
    /\ LET date == now \div DayLength - 1
           new  == user # NoRow /\ user.first \div DayLength = date
       IN  report' = [step |-> "sending", date |-> date, new |-> IF new THEN 1 ELSE 0,
                      left |-> Admins, to |-> NoAdmin]
    /\ UNCHANGED <<now, user, marked, sent, unmarked, figure, faults>>

(* Mutant of WasSent: no delivery is looked up.                              *)
MutantForgetsDeliveries(date, admin) == FALSE

(* report_was_sent.                                                          *)
WasSent(date, admin) == <<date, admin>> \in marked

SkipAdmin(a) ==
    /\ report.step = "sending"
    /\ a \in report.left
    /\ WasSent(report.date, a)
    /\ report' = [report EXCEPT !.left = @ \ {a}]
    /\ UNCHANGED <<now, user, marked, sent, unmarked, figure, faults>>

Received(a) ==
    /\ sent' = [sent EXCEPT ![<<report.date, a>>] = @ + 1]
    /\ figure' = [figure EXCEPT ![report.date] = report.new]

SendReport(a) ==
    /\ report.step = "sending"
    /\ a \in report.left
    /\ ~WasSent(report.date, a)
    /\ Received(a)
    /\ report' = [report EXCEPT !.step = "sent", !.left = @ \ {a}, !.to = a]
    /\ UNCHANGED <<now, user, marked, unmarked, faults>>

(* What arrived at a will not be recorded.                                   *)
NotRecorded(a) == unmarked' = [unmarked EXCEPT ![<<report.date, a>>] = @ + 1]

(* The request fails; the message may have arrived all the same.             *)
SendReportFails(a) ==
    /\ report.step = "sending"
    /\ a \in report.left
    /\ ~WasSent(report.date, a)
    /\ faults < MaxFaults
    /\ faults' = faults + 1
    /\ \/ Received(a) /\ NotRecorded(a)
       \/ UNCHANGED <<sent, figure, unmarked>>
    /\ report' = [report EXCEPT !.left = @ \ {a}]
    /\ UNCHANGED <<now, user, marked>>

(* mark_report_sent, committed.                                              *)
MarkReportSent ==
    /\ report.step = "sent"
    /\ marked' = marked \cup {<<report.date, report.to>>}
    /\ report' = [report EXCEPT !.step = "sending", !.to = NoAdmin]
    /\ UNCHANGED <<now, user, sent, unmarked, figure, faults>>

(* The loop sleeps for a minute and looks again.                             *)
EndReport ==
    /\ report.step = "sending"
    /\ report.left = {}
    /\ report' = NoReport
    /\ UNCHANGED <<now, user, marked, sent, unmarked, figure, faults>>

(* Also what a failed read or commit does: nothing catches it.               *)
CrashReport ==
    /\ report.step # "idle"
    /\ faults < MaxFaults
    /\ faults' = faults + 1
    /\ IF report.step = "sent" THEN NotRecorded(report.to) ELSE UNCHANGED unmarked
    /\ report' = NoReport
    /\ UNCHANGED <<now, user, marked, sent, figure>>

ReportStep ==
    \/ ComputeReport \/ MarkReportSent \/ EndReport \/ CrashReport
    \/ \E a \in Admins : SkipAdmin(a) \/ SendReport(a) \/ SendReportFails(a)

-----------------------------------------------------------------------------

(* An administrator gets the report of a day once, and once more for each time *)
(* that this very report arrived there and a failure came before its row: the  *)
(* minute loop, a failure for another administrator, of another day, before the *)
(* message, or of another component never repeats it.                         *)
ReportedOnce == \A d \in Dates, a \in Admins : sent[<<d, a>>] <= 1 + unmarked[<<d, a>>]

(* A user is new on one day only: the figures of two days never count the      *)
(* same user, in whatever order the events of the user commit.                *)
NewIsCountedOnce == \A c, d \in Dates : figure[c] = 1 /\ figure[d] = 1 => c = d
===============================================================================
