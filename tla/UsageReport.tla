----------------------------- MODULE UsageReport -----------------------------
(***************************************************************************)
(* The usage report (usage.service.ts): the allowance, the totals and the    *)
(* daily series are three statements, and answers go on being reserved,      *)
(* recorded and refunded between them (quota.service.ts).                   *)
(*                                                                         *)
(* Time is counted in units, DayLength of them a UTC day; what is recorded   *)
(* at a unit is before what is read at it.  An event keeps what tells the    *)
(* figures apart: its metric, whether it is billable, when it was recorded.  *)
(* Left out: tokens, characters and cache hits, which are sums of the same   *)
(* kind, the embedding calls' own bills, and peeking at the rate limiter.    *)
(***************************************************************************)
EXTENDS Naturals, Sequences, FiniteSets, FiniteSetsExt

CONSTANTS PeriodStart, PeriodEnd, PeriodLimit,  \* the workspace's quota row
          DayLength, DefaultRange, MaxRange,  \* in units
          Limited,                            \* FALSE: the workspace has no quota row
          LastUnit, MaxEvents                 \* bounds

ASSUME UsageAssumption ==
  /\ {PeriodStart, PeriodEnd, PeriodLimit, DefaultRange, MaxRange, LastUnit, MaxEvents} \subseteq Nat
  /\ DayLength \in Nat \ {0} /\ PeriodStart < PeriodEnd /\ Limited \in BOOLEAN

VARIABLES
  time,     \* now
  quotaUsed,\* workspace_quotas.used
  events,   \* usage_events
  running,  \* answers reserved, not recorded yet
  owed,     \* answers whose unit is still to be given back
  lost,     \* history: units reserved in the period whose event is not in it
  report,   \* the report being made
  stirred   \* history: something was reserved or recorded since its first statement

usageVars == <<time, quotaUsed, events, running, owed, lost, report, stirred>>

NoDate == LastUnit + 1    \* an absent query parameter
Dates == 0..LastUnit
Day(u) == u \div DayLength
Event == [at : Dates, metric : {"answer", "chunk_embedded"}, billable : BOOLEAN]

UsageTypeOK ==
  /\ time \in Dates /\ {quotaUsed, running, owed, lost} \subseteq 0..PeriodLimit
  /\ events \in Seq(Event) /\ Len(events) <= MaxEvents
  /\ report.step \in {"none", "quota", "totals", "done", "rejected"}
  /\ stirred \in BOOLEAN
  \* A report covers at least a unit, and never more than the limit.
  /\ report.step \in {"totals", "done"} =>
       report.from < report.to /\ report.to - report.from <= MaxRange

NoReport == [step |-> "none", input |-> <<NoDate, NoDate>>, used |-> 0, running |-> 0, from |-> 0,
             to |-> 0, billable |-> 0, answers |-> 0, chunks |-> 0, daily |-> <<>>]

UsageInit ==
  /\ time = 0 /\ quotaUsed = 0 /\ events = <<>> /\ running = 0 /\ owed = 0 /\ lost = 0
  /\ report = NoReport /\ stirred = FALSE

-----------------------------------------------------------------------------
\* What goes on meanwhile.

InPeriod(u) == PeriodStart <= u /\ u < PeriodEnd

TimePasses ==
  /\ time < LastUnit
  /\ time' = time + 1
  /\ UNCHANGED <<quotaUsed, events, running, owed, lost, report, stirred>>

ReserveUnit ==
  /\ Limited /\ InPeriod(time) /\ quotaUsed < PeriodLimit
  /\ quotaUsed' = quotaUsed + 1 /\ running' = running + 1
  /\ stirred' = TRUE
  /\ UNCHANGED <<time, events, owed, lost, report>>

Recorded(metric, billable) ==
  events' = Append(events, [at |-> time, metric |-> metric, billable |-> billable])

\* The answer's row and its event.  A billable one keeps its unit; another's is
\* given back next.
RecordAnswer(billable) ==
  /\ Len(events) < MaxEvents /\ (Limited => running > 0)
  /\ Recorded("answer", billable)
  /\ running' = IF Limited THEN running - 1 ELSE 0
  /\ owed' = IF Limited /\ ~billable THEN owed + 1 ELSE owed
  /\ lost' = IF Limited /\ billable /\ ~InPeriod(time) THEN lost + 1 ELSE lost
  /\ stirred' = TRUE
  /\ UNCHANGED <<time, quotaUsed, report>>

\* escalateUnanswered: a reservation was refused, perhaps some time ago, and the
\* visitor is handed to a human.  The event has no unit.
HandOver ==
  /\ Limited /\ Len(events) < MaxEvents
  /\ Recorded("answer", FALSE)
  /\ stirred' = TRUE
  /\ UNCHANGED <<time, quotaUsed, running, owed, lost, report>>

\* The work ends in an exception, or the answer is a replay: nothing is recorded.
AnswerFails ==
  /\ running > 0
  /\ running' = running - 1 /\ owed' = owed + 1
  /\ stirred' = TRUE
  /\ UNCHANGED <<time, quotaUsed, events, lost, report>>

\* refund, whatever became of the period since.
RefundUnit ==
  /\ owed > 0
  /\ owed' = owed - 1 /\ quotaUsed' = IF quotaUsed > 0 THEN quotaUsed - 1 ELSE quotaUsed
  /\ stirred' = TRUE
  /\ UNCHANGED <<time, events, running, lost, report>>

RecordChunk ==
  /\ Len(events) < MaxEvents
  /\ Recorded("chunk_embedded", TRUE)
  /\ stirred' = TRUE
  /\ UNCHANGED <<time, quotaUsed, running, owed, lost, report>>

\* The server stops before the event is written, or before the refund is.
LoseUnit ==
  /\ \/ running > 0 /\ running' = running - 1 /\ owed' = owed
     \/ owed > 0 /\ owed' = owed - 1 /\ running' = running
  /\ lost' = lost + 1
  /\ stirred' = TRUE
  /\ UNCHANGED <<time, quotaUsed, events, report>>

-----------------------------------------------------------------------------
\* The report.

\* quota.status: the current period, or the last one.
ReadQuota(input) ==
  /\ report.step = "none"
  /\ report' = [NoReport EXCEPT !.step = "quota", !.input = input, !.used = quotaUsed,
                                !.running = running + owed + lost]
  /\ stirred' = FALSE
  /\ UNCHANGED <<time, quotaUsed, events, running, owed, lost>>

Back(u) == IF u >= DefaultRange THEN u - DefaultRange ELSE 0

\* Mutant of ResolveRange: without dates, the last days, allowance or not.
ResolveDays(input) ==
  LET to == IF input[2] # NoDate THEN input[2] ELSE time
  IN <<IF input[1] # NoDate THEN input[1] ELSE Back(to), to>>

\* resolveRange: the dates asked for, or the allowance's period, or the last days.
ResolveRange(input) ==
  IF input = <<NoDate, NoDate>> /\ Limited THEN <<PeriodStart, PeriodEnd>>
  ELSE LET to == IF input[2] # NoDate THEN input[2] ELSE time
       IN <<IF input[1] # NoDate THEN input[1] ELSE Back(to), to>>

Rejected(range) == range[2] <= range[1] \/ range[2] - range[1] > MaxRange

Within(from, to, metric) ==
  {i \in DOMAIN events : events[i].metric = metric /\ from <= events[i].at /\ events[i].at < to}
Bills(ids) == Cardinality({i \in ids : events[i].billable})

ReadTotals ==
  /\ report.step = "quota"
  /\ LET range == ResolveRange(report.input)
         answers == Within(range[1], range[2], "answer")
     IN report' = IF Rejected(range) THEN [report EXCEPT !.step = "rejected"]
                  ELSE [report EXCEPT !.step = "totals", !.from = range[1], !.to = range[2],
                          !.billable = Bills(answers), !.answers = Cardinality(answers),
                          !.chunks = Cardinality(Within(range[1], range[2], "chunk_embedded"))]
  /\ UNCHANGED <<time, quotaUsed, events, running, owed, lost, stirred>>

\* Today, if the range runs into the future.
LastDay(to) == Day(Min({to - 1, time}))

\* generate_series, LEFT JOIN: a row for each day, also for those without events.
ReadDaily ==
  /\ report.step = "totals"
  /\ LET days == {d \in 0..Day(LastUnit) : Day(report.from) <= d /\ d <= LastDay(report.to)}
         Of(d, metric) == {i \in Within(report.from, report.to, metric) : Day(events[i].at) = d}
     IN report' = [report EXCEPT !.step = "done",
          !.daily = [d \in days |-> [answers |-> Cardinality(Of(d, "answer")),
                                     billable |-> Bills(Of(d, "answer")),
                                     chunks |-> Cardinality(Of(d, "chunk_embedded"))]]]
  /\ UNCHANGED <<time, quotaUsed, events, running, owed, lost, stirred>>

UsageNext ==
  \/ TimePasses \/ ReserveUnit \/ AnswerFails \/ RefundUnit \/ HandOver \/ RecordChunk
  \/ LoseUnit \/ ReadTotals \/ ReadDaily
  \/ \E billable \in BOOLEAN : RecordAnswer(billable)
  \/ \E f, t \in Dates \cup {NoDate} : ReadQuota(<<f, t>>)

UsageSpec == UsageInit /\ [][UsageNext]_usageVars

-----------------------------------------------------------------------------
\* Whether the figures of the days, added one day after the other, make the total.
AddsUp(figures, total) ==
  LET last == Day(LastUnit) + 1
  IN  \E sum \in [0..last -> 0..MaxEvents] :
        /\ sum[0] = 0 /\ sum[last] = total
        /\ \A d \in 0..Day(LastUnit) :
             sum[d + 1] = sum[d] + (IF d \in DOMAIN figures THEN figures[d] ELSE 0)

\* The daily figures add up to the totals if nothing was recorded between the
\* statements that read them, also when the range begins or ends within a day or
\* runs into the future.
DailyAddsUp ==
  report.step = "done" /\ ~stirred =>
    /\ AddsUp([d \in DOMAIN report.daily |-> report.daily[d].answers], report.answers)
    /\ AddsUp([d \in DOMAIN report.daily |-> report.daily[d].billable], report.billable)
    /\ AddsUp([d \in DOMAIN report.daily |-> report.daily[d].chunks], report.chunks)

\* "The page and the quota bar agree" for the allowance's period: what the bar
\* shows beyond the billable answers are units still reserved or to be refunded, or
\* lost in a crash or to the end of the period.
BarAgreesWithPage ==
  report.step \in {"totals", "done"} /\ ~stirred /\ Limited
    /\ report.input = <<NoDate, NoDate>> =>
    report.used = report.billable + report.running

\* The usage page agrees with itself and with the quota bar, as far as the statements
\* that read the meter saw the same events.
ReportAgrees == UsageTypeOK /\ DailyAddsUp /\ BarAgreesWithPage
=============================================================================
