----------------------------- MODULE MiniAppProofs -----------------------------
(***************************************************************************)
(* Proofs about MiniApp and Audience, for every set of launches, requests,    *)
(* photos and administrators and every bound on the clock and the failures.   *)
(***************************************************************************)
EXTENDS MiniApp, TLAPS

(* The user is new on day d.                                                 *)
New(d) == user # NoRow /\ user.first \div DayLength = d

(* What an exchange that has found no row goes on with.                      *)
ExchangeInv ==
    \A e \in Exchanges : exchange[e].step = "unseen" =>
        /\ exchange[e].launch \in Launches
        /\ exchange[e].token \in 1..MaxTokens
        /\ exchange[e].expires >= TTL

(* The unique index on the launch.                                           *)
OneRowPerLaunch == \A r, s \in sessions : r.launch = s.launch => r = s

(* A report that no row records, and none is about to, arrived only where its  *)
(* row failed.                                                               *)
RecordedInv ==
    /\ report.step = "sent" => report.to \in Admins
    /\ \A d \in Dates, a \in Admins :
          /\ sent[<<d, a>>] <= 1 + unmarked[<<d, a>>]
          /\ \/ <<d, a>> \in marked
             \/ report.step = "sent" /\ report.date = d /\ report.to = a
             \/ sent[<<d, a>>] <= unmarked[<<d, a>>]

(* A figure, computed or reported, is true of the row the user has now.       *)
FigureInv ==
    /\ \A d \in Dates : figure[d] = 1 => New(d)
    /\ report.new = 1 => New(report.date)

(* NewestIsActive without Max.                                               *)
NewestInv ==
    \/ considered = {} /\ source = NoSource
    \/ source \in considered /\ \A m \in considered : m <= source

(* UnfailedPhotoStays without Max: m is the newest photo that was set.        *)
NewestSet(m) ==
    /\ m \in Messages /\ message[m] = "set"
    /\ \A n \in Messages : message[n] = "set" => n <= m

(* A preview that has failed is of a file that failed.                       *)
StaysInv ==
    /\ \A p \in Previews :
          /\ preview[p].step \in {"downloading", "failed"} => preview[p].message \in Messages
          /\ preview[p].step = "failed" => FileOf[preview[p].message] \in failed
    /\ source # NoSource => message[source] = "set"
    /\ \A m : NewestSet(m) /\ FileOf[m] \notin failed => source = m
    /\ (\E m \in Messages : message[m] = "set") => \E m : NewestSet(m)

IInv ==
    /\ TypeOK
    /\ ExchangeInv
    /\ OneRowPerLaunch
    /\ RecordedInv
    /\ FigureInv
    /\ NewestInv
    /\ StaysInv

(* The clock has not reached the day of a report before the report.           *)
LEMMA Yesterday ==
    ASSUME NEW t \in 0..MaxTime, t >= DayLength
    PROVE  t \div DayLength - 1 \in Dates
  <1>1. DayLength \in Nat \ {0} /\ MaxTime \in Nat
    BY AudienceAssumption DEF AudienceAssumption
  <1>2. \A n \in Nat : n \div DayLength \in Nat /\ DayLength * (n \div DayLength) <= n
                       /\ n < DayLength * (n \div DayLength) + DayLength
    BY <1>1
  <1> DEFINE q == t \div DayLength
             r == MaxTime \div DayLength
  <1>3. q \in Nat /\ r \in Nat /\ DayLength * q <= t /\ t < DayLength * q + DayLength
        /\ MaxTime < DayLength * r + DayLength
    BY <1>1, <1>2
  <1> HIDE DEF q, r
  <1>4. q # 0
    BY <1>1, <1>3
  <1>5. q <= r
    <2> SUFFICES ASSUME q >= r + 1 PROVE FALSE
      BY <1>3
    <2>1. DayLength * q >= DayLength * (r + 1)
      BY <1>1, <1>3
    <2>2. DayLength * (r + 1) = DayLength * r + DayLength
      BY <1>1, <1>3
    <2> QED BY <1>1, <1>3, <2>1, <2>2
  <1>6. q - 1 \in 0..r
    BY <1>3, <1>4, <1>5
  <1> QED BY <1>6 DEF q, r, Dates

LEMMA FirstDate == 0 \in Dates
  <1>1. DayLength \in Nat \ {0} /\ MaxTime \in Nat
    BY AudienceAssumption DEF AudienceAssumption
  <1>2. MaxTime \div DayLength \in Nat
    BY <1>1
  <1> QED BY <1>2 DEF Dates

LEMMA InitInv == Init => IInv
  <1> SUFFICES ASSUME Init PROVE IInv
    OBVIOUS
  <1>0. 0 \in Dates
    BY FirstDate
  <1>1. AudienceTypeOK
    <2>1. NoReport \in Report
      BY <1>0 DEF NoReport, Report
    <2> QED BY <1>0, <2>1, AudienceAssumption
         DEF Init, AudienceInit, AudienceTypeOK, AudienceAssumption
  <1>2. TypeOK
    <2>1. NoExchange \in Exchange
      BY ConstantsAssumption DEF NoExchange, Exchange, ConstantsAssumption
    <2>2. NoPreview \in Preview
      BY DEF NoPreview, Preview
    <2> QED BY <1>1, <2>1, <2>2, AudienceAssumption, ConstantsAssumption
         DEF Init, TypeOK, Progress, AudienceAssumption, ConstantsAssumption
  <1>3. ExchangeInv /\ OneRowPerLaunch /\ NewestInv
    BY DEF Init, ExchangeInv, OneRowPerLaunch, NewestInv, NoExchange
  <1>4. RecordedInv /\ FigureInv
    BY DEF Init, AudienceInit, RecordedInv, FigureInv, NoReport
  <1>5. StaysInv
    BY DEF Init, StaysInv, NewestSet, NoPreview
  <1> QED BY <1>2, <1>3, <1>4, <1>5 DEF IInv

-----------------------------------------------------------------------------
(* The row of the user.                                                      *)

LEMMA UserEvents ==
    ASSUME IInv, [Next]_vars
    PROVE  user' = user \/ \E at \in 0..MaxTime : user' = Upserted(at)
  <1>1. ASSUME NEW e \in Exchanges, NEW l \in Launches, BeginExchange(e, l)
        PROVE  user' = user \/ user' = Upserted(now)
    BY <1>1 DEF BeginExchange
  <1>2. ASSUME NEW e \in Exchanges, InsertOrRotate(e)
        PROVE  user' = user \/ \E at \in 0..MaxTime : user' = Upserted(at)
    <2>1. PICK at \in (exchange[e].expires - TTL)..now : user' = user \/ user' = Upserted(at)
      BY <1>2 DEF InsertOrRotate
    <2>2. exchange[e].expires \in Nat /\ exchange[e].expires >= TTL
      BY <1>2 DEF IInv, TypeOK, ExchangeInv, Exchange, InsertOrRotate
    <2>3. at \in 0..MaxTime
      BY <2>1, <2>2, AudienceAssumption, ConstantsAssumption
      DEF IInv, TypeOK, AudienceTypeOK, AudienceAssumption, ConstantsAssumption
    <2> QED BY <2>1, <2>3
  <1>3. ASSUME NEW m \in Messages, RecordSender(m)
        PROVE  user' = user \/ user' = Upserted(stamp[m])
    BY <1>3 DEF RecordSender
  <1>4. CASE ReportStep
    BY <1>4 DEF ReportStep, ComputeReport, MarkReportSent, EndReport, CrashReport, SkipAdmin,
                SendReport, SendReportFails
  <1>5. now \in 0..MaxTime /\ \A m \in Messages : stamp[m] \in 0..MaxTime
    BY DEF IInv, TypeOK, AudienceTypeOK
  <1>6. ASSUME \/ \E e \in Exchanges : ReceiveCookie(e) \/ LoseResponse(e)
               \/ Tick
               \/ \E m \in Messages : SendPhoto(m) \/ ReadPhoto(m) \/ SetActiveSource(m)
               \/ \E p \in Previews : \/ BeginPreview(p) \/ PreviewShown(p) \/ PreviewFails(p)
                                      \/ ForgetSource(p)
               \/ \E f \in Files : LoseFile(f)
               \/ UNCHANGED vars
        PROVE  user' = user
    BY <1>6 DEF ReceiveCookie, LoseResponse, Tick, SendPhoto, ReadPhoto, SetActiveSource,
                BeginPreview, PreviewShown, PreviewFails, ForgetSource, LoseFile, vars,
                audienceVars
  <1> QED BY <1>1, <1>2, <1>3, <1>4, <1>5, <1>6 DEF Next

(* A recorded user keeps the day it was first seen on.                       *)
LEMMA UserStep ==
    ASSUME IInv, [Next]_vars
    PROVE  /\ user' \in TelegramUser \cup {NoRow}
           /\ \A d : New(d) => New(d)'
  <1>1. CASE user' = user
    BY <1>1 DEF IInv, TypeOK, AudienceTypeOK, New
  <1>2. ASSUME NEW at \in 0..MaxTime, user' = Upserted(at)
        PROVE  /\ user' \in TelegramUser
               /\ user # NoRow => user' # NoRow /\ user'.first = user.first
    <2>1. CASE user = NoRow
      BY <1>2, <2>1 DEF Upserted, TelegramUser
    <2>2. CASE user # NoRow
      <3>1. user \in TelegramUser /\ user' = [user EXCEPT !.last = at]
        BY <1>2, <2>2 DEF Upserted, IInv, TypeOK, AudienceTypeOK
      <3>2. user' \in TelegramUser /\ user'.first = user.first
        BY <3>1 DEF TelegramUser
      <3>3. \A u \in TelegramUser : u \in [first : Int, last : Int]
        BY AudienceAssumption DEF TelegramUser, AudienceAssumption
      <3>4. user' # NoRow
        BY <3>2, <3>3, AudienceAssumption DEF AudienceAssumption
      <3> QED BY <3>2, <3>4
    <2> QED BY <2>1, <2>2
  <1> QED BY <1>1, <1>2, UserEvents DEF New

-----------------------------------------------------------------------------
(* The report.                                                               *)

LEMMA ReportInvStep ==
    ASSUME IInv, ReportStep
    PROVE  RecordedInv' /\ report' \in Report /\ marked' \subseteq Dates \X Admins
           /\ sent' \in [Dates \X Admins -> Nat] /\ unmarked' \in [Dates \X Admins -> Nat]
           /\ figure' \in [Dates -> 0..1] /\ faults' \in 0..MaxFaults
  <1>t. /\ report \in Report /\ marked \subseteq Dates \X Admins
        /\ sent \in [Dates \X Admins -> Nat] /\ unmarked \in [Dates \X Admins -> Nat]
        /\ figure \in [Dates -> 0..1]
        /\ faults \in 0..MaxFaults /\ MaxFaults \in Nat /\ now \in 0..MaxTime
        /\ RecordedInv
    BY AudienceAssumption DEF IInv, TypeOK, AudienceTypeOK, AudienceAssumption
  <1>r. /\ report.step \in {"idle", "sending", "sent"}
        /\ report.date \in Dates /\ report.new \in 0..1
        /\ report.left \subseteq Admins /\ report.to \in Admins \cup {NoAdmin}
    BY <1>t DEF Report
  <1>s. \A d \in Dates, a \in Admins : sent[<<d, a>>] \in Nat /\ unmarked[<<d, a>>] \in Nat
    BY <1>t
  <1>1. CASE ComputeReport
    <2>1. PICK new \in 0..1 :
             report' = [step |-> "sending", date |-> now \div DayLength - 1, new |-> new,
                        left |-> Admins, to |-> NoAdmin]
      BY <1>1 DEF ComputeReport
    <2>2. now \div DayLength - 1 \in Dates
      BY <1>1, <1>t, Yesterday DEF ComputeReport
    <2>3. report' \in Report /\ report.step = "idle" /\ report'.step = "sending"
      BY <1>1, <2>1, <2>2 DEF ComputeReport, Report
    <2>4. UNCHANGED <<marked, sent, unmarked, figure, faults>>
      BY <1>1 DEF ComputeReport
    <2> QED BY <1>t, <2>3, <2>4 DEF RecordedInv
  <1>2. CASE EndReport \/ CrashReport
    <2>1. report' = NoReport /\ UNCHANGED <<marked, sent, figure>>
      BY <1>2 DEF EndReport, CrashReport
    <2>2. 0 \in Dates /\ NoReport.step = "idle"
      BY FirstDate DEF NoReport
    <2>3. NoReport \in Report
      BY <2>2 DEF NoReport, Report
    <2>4. faults' \in 0..MaxFaults
      BY <1>t, <1>2 DEF EndReport, CrashReport
    <2>5. CASE UNCHANGED unmarked
      <3>1. report.step # "sent"
        <4>1. CASE EndReport
          BY <4>1 DEF EndReport
        <4>2. CASE CrashReport /\ report.step = "sent"
          <5> DEFINE key == <<report.date, report.to>>
          <5>1. key \in Dates \X Admins /\ unmarked' = [unmarked EXCEPT ![key] = @ + 1]
            BY <1>t, <1>r, <4>2 DEF CrashReport, NotRecorded, RecordedInv
          <5>2. unmarked'[key] = unmarked[key] + 1 /\ unmarked[key] \in Nat
            BY <1>t, <5>1
          <5> QED BY <2>5, <5>2
        <4> QED BY <1>2, <4>1, <4>2
      <3>2. RecordedInv'
        BY <1>t, <2>1, <2>2, <2>5, <3>1 DEF RecordedInv
      <3> QED BY <1>t, <2>1, <2>3, <2>4, <2>5, <3>2
    <2>6. CASE report.step = "sent" /\ NotRecorded(report.to)
      <3> DEFINE key == <<report.date, report.to>>
      <3>1. key \in Dates \X Admins /\ unmarked' = [unmarked EXCEPT ![key] = @ + 1]
        BY <1>t, <1>r, <2>6 DEF NotRecorded, RecordedInv
      <3>2. unmarked' \in [Dates \X Admins -> Nat]
        BY <1>t, <3>1
      <3>3. \A d \in Dates, b \in Admins :
               /\ <<d, b>> # key => unmarked'[<<d, b>>] = unmarked[<<d, b>>]
               /\ <<d, b>> = key => unmarked'[<<d, b>>] = unmarked[<<d, b>>] + 1
        BY <1>t, <3>1
      <3>4. \A d \in Dates, b \in Admins : <<d, b>> # key => report.date # d \/ report.to # b
        OBVIOUS
      <3> HIDE DEF key
      <3>5. \A d \in Dates, b \in Admins :
               /\ sent[<<d, b>>] <= 1 + unmarked'[<<d, b>>]
               /\ <<d, b>> \in marked \/ sent[<<d, b>>] <= unmarked'[<<d, b>>]
        <4> SUFFICES ASSUME NEW d \in Dates, NEW b \in Admins
                     PROVE  /\ sent[<<d, b>>] <= 1 + unmarked'[<<d, b>>]
                            /\ <<d, b>> \in marked \/ sent[<<d, b>>] <= unmarked'[<<d, b>>]
          OBVIOUS
        <4> DEFINE i == sent[<<d, b>>]
                   j == unmarked[<<d, b>>]
        <4>1. i \in Nat /\ j \in Nat /\ i <= 1 + j
          BY <1>t, <1>s DEF RecordedInv
        <4>2. <<d, b>> \in marked \/ (report.date = d /\ report.to = b) \/ i <= j
          BY <1>t DEF RecordedInv
        <4>3. <<d, b>> = key => unmarked'[<<d, b>>] = j + 1
          BY <3>3
        <4>4. <<d, b>> # key =>
                 unmarked'[<<d, b>>] = j /\ (report.date # d \/ report.to # b)
          BY <3>3, <3>4
        <4> HIDE DEF i, j
        <4>5. i <= 1 + unmarked'[<<d, b>>]
          BY <4>1, <4>3, <4>4
        <4>6. <<d, b>> \in marked \/ i <= unmarked'[<<d, b>>]
          BY <4>1, <4>2, <4>3, <4>4
        <4> QED BY <4>5, <4>6 DEF i
      <3>6. RecordedInv'
        BY <2>1, <2>2, <3>5 DEF RecordedInv
      <3> QED BY <1>t, <2>1, <2>3, <2>4, <3>2, <3>6
    <2> QED BY <1>2, <2>5, <2>6 DEF EndReport, CrashReport
  <1>3. ASSUME NEW a \in Admins, SkipAdmin(a)
        PROVE  /\ report' \in Report /\ RecordedInv'
               /\ UNCHANGED <<marked, sent, unmarked, figure, faults>>
    <2>1. /\ report' = [report EXCEPT !.left = @ \ {a}]
          /\ UNCHANGED <<marked, sent, unmarked, figure, faults>>
          /\ report.step = "sending"
      BY <1>3 DEF SkipAdmin
    <2>2. report' \in Report /\ report'.step = "sending"
      BY <1>t, <1>r, <2>1 DEF Report
    <2> QED BY <1>t, <2>1, <2>2 DEF RecordedInv
  <1>4. ASSUME NEW a \in Admins, SendReport(a) \/ SendReportFails(a)
        PROVE  /\ report' \in Report /\ marked' = marked /\ RecordedInv'
               /\ sent' \in [Dates \X Admins -> Nat] /\ unmarked' \in [Dates \X Admins -> Nat]
               /\ figure' \in [Dates -> 0..1] /\ faults' \in 0..MaxFaults
    <2> DEFINE key == <<report.date, a>>
    <2>1. /\ report.step = "sending" /\ key \notin marked /\ marked' = marked
          /\ key \in Dates \X Admins
      BY <1>4, <1>r DEF SendReport, SendReportFails, WasSent
    <2>2. sent[key] <= unmarked[key]
      BY <1>4, <1>r, <2>1, <1>t DEF RecordedInv
    <2>3. /\ report' \in Report /\ faults' \in 0..MaxFaults
          /\ figure' \in [Dates -> 0..1]
      <3>1. /\ report.left \ {a} \subseteq Admins
            /\ \/ report' = [report EXCEPT !.step = "sent", !.left = @ \ {a}, !.to = a]
               \/ report' = [report EXCEPT !.left = @ \ {a}]
        BY <1>4, <1>r DEF SendReport, SendReportFails
      <3>2. report' \in Report
        BY <1>t, <1>r, <3>1 DEF Report
      <3>3. /\ faults' = faults \/ (faults' = faults + 1 /\ faults < MaxFaults)
            /\ \/ figure' = [figure EXCEPT ![report.date] = report.new]
               \/ figure' = figure
        BY <1>4 DEF SendReport, SendReportFails, Received
      <3> QED BY <1>t, <1>r, <3>2, <3>3
    <2>4. CASE Received(a)
      <3>1. sent' = [sent EXCEPT ![key] = @ + 1]
        BY <2>4 DEF Received
      <3>2. /\ sent' \in [Dates \X Admins -> Nat]
            /\ \A d \in Dates, b \in Admins :
                  /\ <<d, b>> # key => sent'[<<d, b>>] = sent[<<d, b>>]
                  /\ <<d, b>> = key => sent'[<<d, b>>] = sent[<<d, b>>] + 1
        BY <1>t, <2>1, <3>1
      <3>3. \A d \in Dates, b \in Admins : <<d, b>> = key => report.date = d /\ a = b
        OBVIOUS
      <3> HIDE DEF key
      <3>4. CASE SendReport(a)
        <4>1. /\ report' = [report EXCEPT !.step = "sent", !.left = @ \ {a}, !.to = a]
              /\ unmarked' = unmarked
          BY <3>4 DEF SendReport
        <4>2. report'.step = "sent" /\ report'.date = report.date /\ report'.to = a
          BY <1>t, <4>1 DEF Report
        <4>3. \A d \in Dates, b \in Admins :
                 /\ sent'[<<d, b>>] <= 1 + unmarked[<<d, b>>]
                 /\ <<d, b>> # key => \/ <<d, b>> \in marked
                                      \/ sent'[<<d, b>>] <= unmarked[<<d, b>>]
          <5> SUFFICES ASSUME NEW d \in Dates, NEW b \in Admins
                       PROVE  /\ sent'[<<d, b>>] <= 1 + unmarked[<<d, b>>]
                              /\ <<d, b>> # key => \/ <<d, b>> \in marked
                                                   \/ sent'[<<d, b>>] <= unmarked[<<d, b>>]
            OBVIOUS
          <5>1. CASE <<d, b>> = key
            <6>1. sent[key] \in Nat /\ unmarked[key] \in Nat /\ sent'[key] = sent[key] + 1
              BY <1>s, <3>2, <5>1
            <6> QED BY <2>2, <5>1, <6>1
          <5>2. CASE <<d, b>> # key
            BY <1>t, <2>1, <3>2, <5>2 DEF RecordedInv
          <5> QED BY <5>1, <5>2
        <4>4. RecordedInv'
          BY <2>1, <3>3, <4>1, <4>2, <4>3 DEF RecordedInv
        <4> QED BY <1>t, <2>1, <2>3, <3>2, <4>1, <4>4
      <3>5. CASE SendReportFails(a) /\ NotRecorded(a)
        <4>1. report'.step = "sending" /\ unmarked' = [unmarked EXCEPT ![key] = @ + 1]
          BY <1>t, <2>1, <3>5 DEF SendReportFails, NotRecorded, Report, key
        <4>2. /\ unmarked' \in [Dates \X Admins -> Nat]
              /\ \A d \in Dates, b \in Admins :
                    /\ <<d, b>> # key => unmarked'[<<d, b>>] = unmarked[<<d, b>>]
                    /\ <<d, b>> = key => unmarked'[<<d, b>>] = unmarked[<<d, b>>] + 1
          BY <1>t, <2>1, <4>1
        <4>3. \A d \in Dates, b \in Admins :
                 /\ sent'[<<d, b>>] <= 1 + unmarked'[<<d, b>>]
                 /\ <<d, b>> \in marked \/ sent'[<<d, b>>] <= unmarked'[<<d, b>>]
          <5> SUFFICES ASSUME NEW d \in Dates, NEW b \in Admins
                       PROVE  /\ sent'[<<d, b>>] <= 1 + unmarked'[<<d, b>>]
                              /\ \/ <<d, b>> \in marked
                                 \/ sent'[<<d, b>>] <= unmarked'[<<d, b>>]
            OBVIOUS
          <5>1. CASE <<d, b>> = key
            <6>1. /\ sent[key] \in Nat /\ unmarked[key] \in Nat
                  /\ sent'[key] = sent[key] + 1 /\ unmarked'[key] = unmarked[key] + 1
              BY <1>s, <3>2, <4>2, <5>1
            <6> QED BY <2>2, <5>1, <6>1
          <5>2. CASE <<d, b>> # key
            BY <1>t, <2>1, <3>2, <4>2, <5>2 DEF RecordedInv
          <5> QED BY <5>1, <5>2
        <4>4. RecordedInv'
          BY <2>1, <4>1, <4>3 DEF RecordedInv
        <4> QED BY <2>1, <2>3, <3>2, <4>2, <4>4
      <3>6. CASE SendReportFails(a) /\ UNCHANGED <<sent, figure, unmarked>>
        BY <1>t, <2>1, <3>1, <3>2, <3>6
      <3> QED BY <1>4, <3>4, <3>5, <3>6 DEF SendReportFails
    <2>5. CASE UNCHANGED <<sent, figure, unmarked>> /\ SendReportFails(a)
      <3>1. report'.step = "sending"
        BY <1>t, <2>1, <2>5 DEF SendReportFails, Report
      <3>2. RecordedInv'
        BY <1>t, <2>1, <2>5, <3>1 DEF RecordedInv
      <3> QED BY <1>t, <2>1, <2>3, <2>5, <3>2
    <2> QED BY <1>4, <2>4, <2>5 DEF SendReport, SendReportFails
  <1>5. CASE MarkReportSent
    <2>1. /\ report.step = "sent" /\ report' = [report EXCEPT !.step = "sending", !.to = NoAdmin]
          /\ marked' = marked \cup {<<report.date, report.to>>}
          /\ UNCHANGED <<sent, unmarked, figure, faults>>
      BY <1>5 DEF MarkReportSent
    <2>2. report' \in Report
      BY <1>t, <1>r, <2>1 DEF Report
    <2>3. RecordedInv'
      BY <1>t, <2>1 DEF RecordedInv
    <2>4. report.to \in Admins
      BY <1>t, <2>1 DEF RecordedInv
    <2> QED BY <1>t, <1>r, <2>1, <2>2, <2>3, <2>4
  <1> QED BY <1>t, <1>1, <1>2, <1>3, <1>4, <1>5 DEF ReportStep

(* Figures stay true.                                                        *)
LEMMA FigureStep ==
    ASSUME IInv, [Next]_vars
    PROVE  FigureInv'
  <1>t. FigureInv /\ figure \in [Dates -> 0..1] /\ report \in Report
    BY DEF IInv, TypeOK, AudienceTypeOK
  <1>u. \A d : New(d) => New(d)'
    BY UserStep
  <1>1. CASE UNCHANGED <<report, figure>>
    BY <1>t, <1>u, <1>1 DEF FigureInv
  <1>2. CASE ComputeReport
    <2>1. /\ UNCHANGED figure
          /\ report'.new = 1 => New(report'.date)
          /\ user' = user
      BY <1>2 DEF ComputeReport, New
    <2> QED BY <1>t, <1>u, <2>1 DEF FigureInv, New
  <1>3. CASE MarkReportSent \/ EndReport \/ CrashReport \/ \E a \in Admins : SkipAdmin(a)
    <2>1. /\ UNCHANGED figure
          /\ report'.new = 1 => report.new = 1 /\ report'.date = report.date
      <3>1. CASE EndReport \/ CrashReport
        BY <3>1 DEF EndReport, CrashReport, NoReport
      <3>2. CASE MarkReportSent \/ \E a \in Admins : SkipAdmin(a)
        BY <3>2, <1>t DEF MarkReportSent, SkipAdmin, Report
      <3> QED BY <1>3, <3>1, <3>2
    <2> QED BY <1>t, <1>u, <2>1 DEF FigureInv
  <1>4. ASSUME NEW a \in Admins, SendReport(a) \/ SendReportFails(a)
        PROVE  FigureInv'
    <2>1. /\ \/ figure' = [figure EXCEPT ![report.date] = report.new]
             \/ figure' = figure
          /\ report'.new = report.new /\ report'.date = report.date
      BY <1>4, <1>t DEF SendReport, SendReportFails, Received, Report
    <2> QED BY <1>t, <1>u, <2>1 DEF FigureInv
  <1>5. ReportStep \/ UNCHANGED <<report, figure>>
    BY DEF Next, BeginExchange, InsertOrRotate, ReceiveCookie, LoseResponse, Tick, SendPhoto,
           RecordSender, ReadPhoto, SetActiveSource, BeginPreview, PreviewShown, PreviewFails,
           ForgetSource, LoseFile, vars, audienceVars
  <1> QED BY <1>1, <1>2, <1>3, <1>4, <1>5 DEF ReportStep

-----------------------------------------------------------------------------
(* Sessions.                                                                 *)

(* Storing the row of a launch replaces the one it had.                      *)
LEMMA StoredOnce ==
    ASSUME OneRowPerLaunch, NEW l \in Launches, NEW token \in 1..MaxTokens, NEW expires \in Nat,
           sessions \subseteq SessionRow
    PROVE  /\ Stored(l, token, expires) \subseteq SessionRow
           /\ \A r, s \in Stored(l, token, expires) : r.launch = s.launch => r = s
  BY DEF Stored, OneRowPerLaunch, SessionRow

LEMMA SessionStep ==
    ASSUME IInv, [Next]_vars
    PROVE  /\ sessions' \subseteq SessionRow
           /\ issued' \in 0..MaxTokens
           /\ exchange' \in [Exchanges -> Exchange]
           /\ cookie' \in 0..MaxTokens
           /\ ExchangeInv'
           /\ OneRowPerLaunch'
  <1>t. /\ sessions \subseteq SessionRow /\ issued \in 0..MaxTokens
        /\ exchange \in [Exchanges -> Exchange] /\ cookie \in 0..MaxTokens
        /\ ExchangeInv /\ OneRowPerLaunch /\ now \in Nat
        /\ MaxTokens \in Nat /\ TTL \in Nat
    BY AudienceAssumption, ConstantsAssumption
    DEF IInv, TypeOK, AudienceTypeOK, AudienceAssumption, ConstantsAssumption
  <1>n. NoExchange \in Exchange /\ NoExchange.step = "idle"
    BY <1>t DEF NoExchange, Exchange
  <1>1. ASSUME NEW e \in Exchanges, NEW x \in Exchange, exchange' = [exchange EXCEPT ![e] = x],
               x.step = "unseen" =>
                   x.launch \in Launches /\ x.token \in 1..MaxTokens /\ x.expires >= TTL
        PROVE  exchange' \in [Exchanges -> Exchange] /\ ExchangeInv'
    BY <1>t, <1>1 DEF ExchangeInv
  <1>2. ASSUME NEW e \in Exchanges, NEW l \in Launches, BeginExchange(e, l)
        PROVE  /\ exchange' \in [Exchanges -> Exchange] /\ ExchangeInv'
               /\ issued' \in 0..MaxTokens /\ cookie' = cookie
               /\ sessions' \subseteq SessionRow /\ OneRowPerLaunch'
    <2>1. issued' = issued + 1 /\ issued' \in 1..MaxTokens /\ cookie' = cookie
      BY <1>t, <1>2 DEF BeginExchange
    <2> DEFINE begun == [step |-> "unseen", launch |-> l, token |-> issued', expires |-> now + TTL]
    <2>2. begun \in Exchange /\ [begun EXCEPT !.step = "answered"] \in Exchange
      BY <1>t, <2>1 DEF Exchange
    <2>3. now + TTL \in Nat /\ now + TTL >= TTL
      BY <1>t
    <2>4. exchange' \in {[exchange EXCEPT ![e] = [begun EXCEPT !.step = "answered"]],
                         [exchange EXCEPT ![e] = NoExchange], [exchange EXCEPT ![e] = begun]}
      BY <1>2 DEF BeginExchange
    <2>5. sessions' = sessions \/ sessions' = Stored(l, issued', now + TTL)
      BY <1>2 DEF BeginExchange
    <2>6. exchange' \in [Exchanges -> Exchange] /\ ExchangeInv'
      BY <1>1, <1>n, <2>1, <2>2, <2>3, <2>4
    <2>7. sessions' \subseteq SessionRow /\ OneRowPerLaunch'
      BY <1>t, <2>1, <2>3, <2>5, StoredOnce DEF OneRowPerLaunch
    <2> QED BY <2>1, <2>6, <2>7
  <1>3. ASSUME NEW e \in Exchanges, InsertOrRotate(e)
        PROVE  /\ exchange' \in [Exchanges -> Exchange] /\ ExchangeInv'
               /\ UNCHANGED <<issued, cookie>>
               /\ sessions' \subseteq SessionRow /\ OneRowPerLaunch'
    <2> DEFINE x == exchange[e]
    <2>1. x \in Exchange /\ x.launch \in Launches /\ x.token \in 1..MaxTokens /\ x.expires \in Nat
      BY <1>t, <1>3 DEF InsertOrRotate, ExchangeInv, Exchange
    <2>2. [x EXCEPT !.step = "answered"] \in Exchange /\ [x EXCEPT !.step = "answered"].step = "answered"
      BY <2>1 DEF Exchange
    <2>3. /\ exchange' = [exchange EXCEPT ![e] = [x EXCEPT !.step = "answered"]]
             \/ exchange' = [exchange EXCEPT ![e] = NoExchange]
          /\ sessions' = sessions \/ sessions' = Stored(x.launch, x.token, x.expires)
          /\ UNCHANGED <<issued, cookie>>
      BY <1>3 DEF InsertOrRotate
    <2>4. exchange' \in [Exchanges -> Exchange] /\ ExchangeInv'
      BY <1>1, <1>n, <2>2, <2>3
    <2>5. sessions' \subseteq SessionRow /\ OneRowPerLaunch'
      BY <1>t, <2>1, <2>3, StoredOnce DEF OneRowPerLaunch
    <2> QED BY <2>3, <2>4, <2>5
  <1>4. ASSUME NEW e \in Exchanges, ReceiveCookie(e) \/ LoseResponse(e)
        PROVE  /\ exchange' \in [Exchanges -> Exchange] /\ ExchangeInv'
               /\ UNCHANGED <<issued, sessions>> /\ cookie' \in 0..MaxTokens
    <2>1. /\ exchange' = [exchange EXCEPT ![e] = NoExchange] /\ UNCHANGED <<issued, sessions>>
          /\ cookie' = cookie \/ cookie' = exchange[e].token
      BY <1>4 DEF ReceiveCookie, LoseResponse
    <2>2. exchange[e].token \in 0..MaxTokens
      BY <1>t DEF Exchange
    <2> QED BY <1>1, <1>n, <1>t, <2>1, <2>2
  <1>5. CASE UNCHANGED sessionVars
    BY <1>t, <1>5 DEF sessionVars, ExchangeInv, OneRowPerLaunch
  <1>6. \/ UNCHANGED sessionVars
        \/ \E e \in Exchanges : \/ \E l \in Launches : BeginExchange(e, l)
                                \/ InsertOrRotate(e) \/ ReceiveCookie(e) \/ LoseResponse(e)
    BY DEF Next, Tick, SendPhoto, RecordSender, ReadPhoto, SetActiveSource, BeginPreview,
           PreviewShown, PreviewFails, ForgetSource, LoseFile, vars
  <1>7. CASE \E e \in Exchanges : \/ \E l \in Launches : BeginExchange(e, l)
                                  \/ InsertOrRotate(e) \/ ReceiveCookie(e) \/ LoseResponse(e)
    <2>1. UNCHANGED sessions => OneRowPerLaunch'
      BY <1>t DEF OneRowPerLaunch
    <2> QED BY <1>2, <1>3, <1>4, <1>7, <1>t, <2>1
  <1> QED BY <1>5, <1>6, <1>7

-----------------------------------------------------------------------------
(* The active source.                                                        *)

LEMMA SourceStep ==
    ASSUME IInv, [Next]_vars
    PROVE  /\ message' \in [Messages -> Progress]
           /\ stamp' \in [Messages -> 0..MaxTime]
           /\ source' \in Messages \cup {NoSource}
           /\ preview' \in [Previews -> Preview]
           /\ lost' \subseteq Files
           /\ considered' \subseteq Messages
           /\ failed' \subseteq Files
           /\ NewestInv'
  <1>t. /\ message \in [Messages -> Progress]
        /\ stamp \in [Messages -> 0..MaxTime]
        /\ source \in Messages \cup {NoSource}
        /\ preview \in [Previews -> Preview]
        /\ lost \subseteq Files
        /\ considered \subseteq Messages
        /\ failed \subseteq Files
        /\ NewestInv /\ StaysInv
        /\ now \in 0..MaxTime /\ 0 \in 0..MaxTime
        /\ Messages \subseteq Nat /\ NoSource \notin Messages
        /\ NoPreview \in Preview
    BY AudienceAssumption, ConstantsAssumption
    DEF IInv, TypeOK, AudienceTypeOK, AudienceAssumption, ConstantsAssumption, NoPreview, Preview
  <1>1. CASE UNCHANGED sourceVars
    BY <1>t, <1>1 DEF sourceVars, NewestInv
  <1>2. ASSUME NEW m \in Messages, SendPhoto(m) \/ RecordSender(m) \/ ReadPhoto(m)
        PROVE  /\ message' \in [Messages -> Progress]
               /\ stamp' \in [Messages -> 0..MaxTime]
               /\ UNCHANGED <<source, preview, lost, considered, failed>>
    BY <1>t, <1>2 DEF SendPhoto, RecordSender, ReadPhoto, Progress
  <1>3. ASSUME NEW m \in Messages, SetActiveSource(m)
        PROVE  /\ message' \in [Messages -> Progress]
               /\ UNCHANGED <<stamp, preview, lost, failed>>
               /\ source' \in Messages /\ considered' \subseteq Messages /\ NewestInv'
    BY <1>t, <1>3 DEF SetActiveSource, Newer, NewestInv, Progress
  <1>4. ASSUME NEW p \in Previews,
               BeginPreview(p) \/ PreviewShown(p) \/ PreviewFails(p)
        PROVE  /\ preview' \in [Previews -> Preview] /\ failed' \subseteq Files
               /\ UNCHANGED <<message, stamp, source, lost, considered>>
    <2>1. UNCHANGED <<message, stamp, source, lost, considered>>
      BY <1>4 DEF BeginPreview, PreviewShown, PreviewFails
    <2>2. /\ [step |-> "downloading", message |-> source] \in Preview
          /\ [preview[p] EXCEPT !.step = "failed"] \in Preview
      BY <1>t DEF Preview
    <2>3. preview' \in [Previews -> Preview]
      BY <1>t, <1>4, <2>2 DEF BeginPreview, PreviewShown, PreviewFails
    <2>4. failed' \subseteq Files
      BY <1>t, <1>4 DEF BeginPreview, PreviewShown, PreviewFails, Files, StaysInv
    <2> QED BY <2>1, <2>3, <2>4
  <1>5. ASSUME NEW p \in Previews, ForgetSource(p)
        PROVE  /\ preview' \in [Previews -> Preview] /\ UNCHANGED <<message, stamp, lost, failed>>
               /\ \/ source' = NoSource /\ considered' = {}
                  \/ source' = source /\ considered' = considered
    BY <1>t, <1>5 DEF ForgetSource
  <1>6. ASSUME NEW f \in Files, LoseFile(f)
        PROVE  /\ lost' \subseteq Files
               /\ UNCHANGED <<message, stamp, source, preview, considered, failed>>
    BY <1>t, <1>6 DEF LoseFile
  <1>7. \/ UNCHANGED sourceVars
        \/ \E m \in Messages : SendPhoto(m) \/ RecordSender(m) \/ ReadPhoto(m) \/ SetActiveSource(m)
        \/ \E p \in Previews : \/ BeginPreview(p) \/ PreviewShown(p) \/ PreviewFails(p)
                               \/ ForgetSource(p)
        \/ \E f \in Files : LoseFile(f)
    BY DEF Next, Tick, BeginExchange, InsertOrRotate, ReceiveCookie, LoseResponse, vars
  <1>8. UNCHANGED <<source, considered>> \/ (source' = NoSource /\ considered' = {}) => NewestInv'
    BY <1>t DEF NewestInv
  <1>9. CASE \E m \in Messages : SendPhoto(m) \/ RecordSender(m) \/ ReadPhoto(m) \/ SetActiveSource(m)
    BY <1>t, <1>2, <1>3, <1>8, <1>9
  <1>10. CASE \E p \in Previews : \/ BeginPreview(p) \/ PreviewShown(p) \/ PreviewFails(p)
                                  \/ ForgetSource(p)
    BY <1>t, <1>4, <1>5, <1>8, <1>10
  <1>11. CASE \E f \in Files : LoseFile(f)
    BY <1>t, <1>6, <1>8, <1>11
  <1> QED BY <1>1, <1>7, <1>9, <1>10, <1>11

(* A photo that was set stays until a newer one is, or its file fails.        *)
LEMMA StaysStep ==
    ASSUME IInv, [Next]_vars
    PROVE  StaysInv'
  <1>t. /\ message \in [Messages -> Progress] /\ source \in Messages \cup {NoSource}
        /\ preview \in [Previews -> Preview] /\ StaysInv
        /\ Messages \subseteq Nat /\ NoSource \notin Messages
    BY ConstantsAssumption DEF IInv, TypeOK, ConstantsAssumption
  <1>1. ASSUME UNCHANGED <<source, preview, failed>>,
               \A m \in Messages : message'[m] = "set" <=> message[m] = "set"
        PROVE  StaysInv'
    <2>1. \A m : NewestSet(m)' <=> NewestSet(m)
      BY <1>1 DEF NewestSet
    <2> QED BY <1>t, <1>1, <2>1 DEF StaysInv
  <1>2. ASSUME NEW m \in Messages, SendPhoto(m) \/ RecordSender(m) \/ ReadPhoto(m)
        PROVE  StaysInv'
    <2>1. UNCHANGED <<source, preview, failed>>
      BY <1>2 DEF SendPhoto, RecordSender, ReadPhoto
    <2>2. /\ message[m] \in {"unsent", "arrived", "received"}
          /\ \E x \in {"arrived", "received", "accepted", "settled"} :
                message' = [message EXCEPT ![m] = x]
      BY <1>2 DEF SendPhoto, RecordSender, ReadPhoto
    <2>3. \A n \in Messages : message'[n] = "set" <=> message[n] = "set"
      BY <1>t, <2>2
    <2> QED BY <1>1, <2>1, <2>3
  <1>3. ASSUME NEW k \in Messages, SetActiveSource(k)
        PROVE  StaysInv'
    <2>1. /\ message[k] = "accepted" /\ message' = [message EXCEPT ![k] = "set"]
          /\ source' = IF Newer(k) THEN k ELSE source
          /\ UNCHANGED <<preview, failed>>
      BY <1>3 DEF SetActiveSource
    <2>2. /\ message'[k] = "set"
          /\ \A n \in Messages : n # k => message'[n] = message[n]
      BY <1>t, <2>1
    <2>3. source' # NoSource => message'[source'] = "set"
      BY <1>t, <2>1, <2>2 DEF StaysInv
    <2>4. ASSUME NEW m, NewestSet(m)', FileOf[m] \notin failed
          PROVE  source' = m
      <3>1. m \in Messages /\ \A n \in Messages : message'[n] = "set" => n <= m
        BY <2>4 DEF NewestSet
      <3>2. CASE m = k
        <4>1. source # NoSource => source \in Messages /\ source <= k /\ source # k
          BY <1>t, <2>1, <2>2, <3>1, <3>2 DEF StaysInv
        <4> QED BY <1>t, <2>1, <3>2, <4>1 DEF Newer
      <3>3. CASE m # k
        <4>1. NewestSet(m)
          BY <2>2, <2>4, <3>1, <3>3 DEF NewestSet
        <4>2. source = m /\ k <= m
          BY <1>t, <2>2, <2>4, <3>1, <4>1 DEF StaysInv
        <4> QED BY <1>t, <2>1, <3>1, <3>3, <4>2 DEF Newer
      <3> QED BY <3>2, <3>3
    <2>5. \E m : NewestSet(m)'
      <3>1. CASE \E m : NewestSet(m) /\ k <= m
        BY <1>t, <2>2, <3>1 DEF NewestSet
      <3>2. CASE ~\E m : NewestSet(m) /\ k <= m
        <4>1. \A n \in Messages : message[n] = "set" => n <= k
          <5> SUFFICES ASSUME NEW n \in Messages, message[n] = "set"
                       PROVE  n <= k
            OBVIOUS
          <5>1. PICK m : NewestSet(m)
            BY <1>t DEF StaysInv
          <5>2. m \in Nat /\ n \in Nat /\ k \in Nat /\ n <= m /\ ~(k <= m)
            BY <1>t, <3>2, <5>1 DEF NewestSet
          <5> QED BY <5>2
        <4>2. \A n \in Messages : message'[n] = "set" => n <= k
          BY <1>t, <2>2, <4>1
        <4> QED BY <2>2, <4>2 DEF NewestSet
      <3> QED BY <3>1, <3>2
    <2> QED BY <1>t, <2>1, <2>3, <2>4, <2>5 DEF StaysInv
  <1>4. ASSUME NEW p \in Previews, BeginPreview(p) \/ PreviewShown(p) \/ PreviewFails(p)
        PROVE  StaysInv'
    <2>1. UNCHANGED <<message, source>>
      BY <1>4 DEF BeginPreview, PreviewShown, PreviewFails
    <2>2. \E x \in Preview :
             /\ preview' = [preview EXCEPT ![p] = x]
             /\ x.step \in {"downloading", "failed"} => x.message \in Messages
             /\ x.step = "failed" => FileOf[x.message] \in failed'
      <3>1. CASE BeginPreview(p)
        <4> DEFINE x == [step |-> "downloading", message |-> source]
        <4>1. preview' = [preview EXCEPT ![p] = x] /\ x \in Preview /\ source \in Messages
          BY <1>t, <3>1 DEF BeginPreview, Preview
        <4> QED BY <4>1
      <3>2. CASE PreviewShown(p)
        <4>1. preview' = [preview EXCEPT ![p] = NoPreview] /\ NoPreview \in Preview
          BY <3>2 DEF PreviewShown, NoPreview, Preview
        <4>2. NoPreview.step = "idle"
          BY DEF NoPreview
        <4> QED BY <4>1, <4>2
      <3>3. CASE PreviewFails(p)
        <4> DEFINE x == [preview[p] EXCEPT !.step = "failed"]
        <4>1. /\ preview[p] \in Preview /\ preview[p].message \in Messages
              /\ preview' = [preview EXCEPT ![p] = x]
              /\ failed' = failed \cup {FileOf[preview[p].message]}
          BY <1>t, <3>3 DEF PreviewFails, StaysInv
        <4>2. x \in Preview /\ x.message = preview[p].message
          BY <4>1 DEF Preview
        <4> HIDE DEF x
        <4> QED BY <4>1, <4>2
      <3> QED BY <1>4, <3>1, <3>2, <3>3
    <2>3. failed \subseteq failed'
      BY <1>4 DEF BeginPreview, PreviewShown, PreviewFails
    <2>4. \A q \in Previews :
             /\ preview'[q].step \in {"downloading", "failed"} => preview'[q].message \in Messages
             /\ preview'[q].step = "failed" => FileOf[preview'[q].message] \in failed'
      BY <1>t, <2>2, <2>3 DEF StaysInv
    <2>5. \A m : NewestSet(m)' <=> NewestSet(m)
      BY <2>1 DEF NewestSet
    <2> QED BY <1>t, <2>1, <2>3, <2>4, <2>5 DEF StaysInv
  <1>5. ASSUME NEW p \in Previews, ForgetSource(p)
        PROVE  StaysInv'
    <2>1. /\ preview[p].step = "failed" /\ preview' = [preview EXCEPT ![p] = NoPreview]
          /\ source' = IF Forgettable(p) THEN NoSource ELSE source
          /\ UNCHANGED <<message, failed>>
      BY <1>5 DEF ForgetSource
    <2>2. Forgettable(p) => FileOf[source] \in failed
      BY <1>t, <2>1 DEF Forgettable, StaysInv
    <2>3. \A q \in Previews :
             /\ preview'[q].step \in {"downloading", "failed"} => preview'[q].message \in Messages
             /\ preview'[q].step = "failed" => FileOf[preview'[q].message] \in failed
      BY <1>t, <2>1 DEF StaysInv, NoPreview
    <2>4. \A m : NewestSet(m)' <=> NewestSet(m)
      BY <2>1 DEF NewestSet
    <2> QED BY <1>t, <2>1, <2>2, <2>3, <2>4 DEF StaysInv
  <1>6. ASSUME UNCHANGED <<source, preview, failed, message>>
        PROVE  StaysInv'
    BY <1>1, <1>6
  <1>7. \/ UNCHANGED <<source, preview, failed, message>>
        \/ \E m \in Messages : SendPhoto(m) \/ RecordSender(m) \/ ReadPhoto(m) \/ SetActiveSource(m)
        \/ \E p \in Previews : \/ BeginPreview(p) \/ PreviewShown(p) \/ PreviewFails(p)
                               \/ ForgetSource(p)
    BY DEF Next, Tick, BeginExchange, InsertOrRotate, ReceiveCookie, LoseResponse, LoseFile,
           sourceVars, vars
  <1> QED BY <1>2, <1>3, <1>4, <1>5, <1>6, <1>7

-----------------------------------------------------------------------------
(* The theorems.                                                             *)

LEMMA AudienceStep ==
    ASSUME IInv, [Next]_vars
    PROVE  AudienceTypeOK' /\ RecordedInv'
  <1>t. AudienceTypeOK /\ RecordedInv /\ MaxTime \in Nat /\ MaxFaults \in Nat
    BY AudienceAssumption DEF IInv, TypeOK, AudienceAssumption
  <1>u. user' \in TelegramUser \cup {NoRow}
    BY UserStep
  <1>1. CASE ReportStep
    <2>1. now' = now
      BY <1>1 DEF ReportStep, ComputeReport, MarkReportSent, EndReport, CrashReport, SkipAdmin,
                  SendReport, SendReportFails
    <2> QED BY <1>t, <1>u, <1>1, <2>1, ReportInvStep DEF AudienceTypeOK
  <1>2. CASE ~ReportStep
    <2>1. /\ UNCHANGED <<report, marked, sent, unmarked, figure>>
          /\ faults' # faults => faults < MaxFaults /\ faults' = faults + 1
          /\ now' # now => now < MaxTime /\ now' = now + 1
      BY <1>2 DEF Next, Tick, BeginExchange, InsertOrRotate, ReceiveCookie, LoseResponse,
         SendPhoto, RecordSender, ReadPhoto, SetActiveSource, BeginPreview, PreviewShown,
         PreviewFails, ForgetSource, LoseFile, vars, audienceVars
    <2>2. AudienceTypeOK'
      BY <1>t, <1>u, <2>1 DEF AudienceTypeOK
    <2>3. RecordedInv'
      BY <1>t, <2>1 DEF RecordedInv
    <2> QED BY <2>2, <2>3
  <1> QED BY <1>1, <1>2

THEOREM Invariance == Spec => []IInv
  <1>1. IInv /\ [Next]_vars => IInv'
    <2> SUFFICES ASSUME IInv, [Next]_vars PROVE IInv'
      OBVIOUS
    <2>1. TypeOK'
      BY AudienceStep, SessionStep, SourceStep DEF TypeOK
    <2> QED BY <2>1, AudienceStep, FigureStep, SessionStep, SourceStep, StaysStep DEF IInv
  <1> QED BY <1>1, InitInv, PTL DEF Spec

(* Every reachable state has the declared types.                             *)
THEOREM TypeCorrect == Spec => []TypeOK
  BY Invariance, PTL DEF IInv

(* Whatever exchanges of a launch overlap, one token of it is accepted.       *)
THEOREM OneSession == Spec => []OneSessionPerLaunch
  <1>1. IInv => OneSessionPerLaunch
    <2> SUFFICES ASSUME IInv, NEW s \in 1..issued, NEW t \in 1..issued,
                        Accepts(s), Accepts(t), s # t
                 PROVE  \E r1, r2 \in sessions :
                           r1.token = s /\ r2.token = t /\ r1.launch # r2.launch
      BY DEF OneSessionPerLaunch
    <2>1. PICK r1 \in sessions : r1.token = s
      BY DEF Accepts
    <2>2. PICK r2 \in sessions : r2.token = t
      BY DEF Accepts
    <2>3. r1.launch # r2.launch
      BY <2>1, <2>2 DEF IInv, OneRowPerLaunch
    <2> QED BY <2>1, <2>2, <2>3
  <1> QED BY <1>1, Invariance, PTL

(* The greatest element of a set of messages.                                *)
LEMMA Greatest ==
    ASSUME NEW S \in SUBSET Nat, NEW m \in S, \A n \in S : n <= m
    PROVE  Max(S) = m
  <1>1. \E x \in S : \A y \in S : x >= y
    OBVIOUS
  <1>2. Max(S) \in S /\ \A y \in S : Max(S) >= y
    BY <1>1, Zenon DEF Max
  <1>3. Max(S) \in Nat /\ m \in Nat /\ Max(S) >= m /\ Max(S) <= m
    BY <1>2
  <1> QED BY <1>3

(* The active photo is the newest accepted since one was last forgotten.      *)
THEOREM NewestActive == Spec => []NewestIsActive
  <1>1. IInv => NewestIsActive
    <2> SUFFICES ASSUME IInv PROVE NewestIsActive
      OBVIOUS
    <2>1. considered \in SUBSET Nat
      BY ConstantsAssumption DEF IInv, TypeOK, ConstantsAssumption
    <2> QED BY <2>1, Greatest DEF IInv, NewestInv, NewestIsActive
  <1> QED BY <1>1, Invariance, PTL

(* The newest accepted photo is active unless a download of its file failed.   *)
THEOREM PhotoStays == Spec => []UnfailedPhotoStays
  <1>1. IInv => UnfailedPhotoStays
    <2> SUFFICES ASSUME IInv PROVE UnfailedPhotoStays
      OBVIOUS
    <2> DEFINE set == {m \in Messages : message[m] = "set"}
    <2> SUFFICES ASSUME set # {}, FileOf[Max(set)] \notin failed
                 PROVE  source = Max(set)
      BY DEF UnfailedPhotoStays
    <2>1. PICK m : NewestSet(m)
      BY DEF IInv, StaysInv
    <2>2. set \in SUBSET Nat /\ m \in set /\ \A n \in set : n <= m
      BY <2>1, ConstantsAssumption DEF ConstantsAssumption, NewestSet
    <2>3. Max(set) = m
      BY <2>2, Greatest
    <2> QED BY <2>1, <2>3 DEF IInv, StaysInv
  <1> QED BY <1>1, Invariance, PTL

(* A report reaches an administrator again only after it arrived there and      *)
(* was not recorded.                                                         *)
THEOREM Reported == Spec => []ReportedOnce
  <1>1. IInv => ReportedOnce
    BY DEF IInv, RecordedInv, ReportedOnce
  <1> QED BY <1>1, Invariance, PTL

(* No user is counted as new on two days.                                    *)
THEOREM CountedOnce == Spec => []NewIsCountedOnce
  <1>1. IInv => NewIsCountedOnce
    BY DEF IInv, FigureInv, NewIsCountedOnce, New
  <1> QED BY <1>1, Invariance, PTL
===============================================================================
