------------------------------ MODULE Reports ------------------------------
(***************************************************************************)
(* What a user is shown: metrics.go, session_quality.go, issues.go and     *)
(* today_overview.go, next to the views of Sessions.tla and the rounds of  *)
(* DailyFlush.tla.                                                         *)
(*                                                                         *)
(* A report takes its last day from the clock, then reads the rows of      *)
(* PostgreSQL in one statement and the keys of the present day in Redis    *)
(* with the pipeline of GetStats, and joins two counts of the same views   *)
(* in Go. Between the steps, and between the commands of the pipeline,     *)
(* views arrive, rounds write, midnight passes or Redis loses its data.    *)
(***************************************************************************)
EXTENDS DailyFlush

CONSTANTS
    Readers,        \* report requests
    Ranges          \* the lengths a report may have (7, 30 and 90 days)

ASSUME ReportsAssumption == Ranges \subseteq Nat \ {0}

VARIABLES
    report,         \* the report each reader is making
    peak            \* history: the most views the keys of each day ever counted

reportVars == <<report, peak>>

\* The trend, the analysis and the issues read the same columns and differ in how
\* they add them ("traffic").
Kinds == {"traffic", "quality", "overview", "installation"}

\* `from` is the day the keys are read for, 0 when they are not; `floor` and `whole`
\* are history: the views in the keys when the report began, and whether Redis kept
\* them since.
NoReport == [stage |-> "idle", kind |-> "traffic", end |-> 1, rows |-> <<>>,
             from |-> 0, live |-> NoStats, floor |-> 0, whole |-> TRUE]

ReportsInit ==
    /\ DailyInit
    /\ report = [r \in Readers |-> NoReport]
    /\ peak = [d \in Dates |-> 0]

-----------------------------------------------------------------------------
(* Reading. *)

Quiet == UNCHANGED <<allVars, peak>>

\* The overview and the installation status ask Redis first.
LiveFirst(kind) == kind \in {"overview", "installation"}

Ask(r, kind) ==
    /\ report[r].stage = "idle"
    /\ report' = [report EXCEPT ![r] =
         [NoReport EXCEPT !.stage = IF LiveFirst(kind) THEN "live" ELSE "rows", !.kind = kind,
                          !.end = DateOf(now), !.floor = day[DateOf(now)].pv]]
    /\ Quiet

\* One SELECT: the columns of the report, for every day.
ReadRows(r) ==
    /\ report[r].stage = "rows"
    /\ report' = [report EXCEPT
         ![r].rows = [d \in Dates |-> IF report[r].kind = "quality" THEN row[d].visits
                                                                   ELSE row[d].counts],
         ![r].stage = IF LiveFirst(report[r].kind) THEN "answer" ELSE "live"]
    /\ Quiet

\* A failed SELECT is the end of the report.
ReadRowsFails(r) ==
    /\ report[r].stage = "rows" /\ faults < MaxFaults
    /\ faults' = faults + 1
    /\ report' = [report EXCEPT ![r] = NoReport]
    /\ UNCHANGED <<now, hit, guard, day, sess, views, seen, late, capped, torn,
                   dailyVars, most, peak>>

AfterLive(kind) == IF LiveFirst(kind) THEN "rows" ELSE "answer"

\* Of the pipeline of GetTodayStats a report uses the plain counts or the session
\* figures, never both: the commands before those, and the last of them.
Before(kind) == IF kind = "quality" THEN Place["uv"] ELSE 0
LastNeeded(kind) == IF kind = "quality" THEN Last ELSE Place["uv"]

\* GetTodayStats takes the day from the clock once more, before it sends anything.
AskLive(r) ==
    /\ report[r].stage = "live" /\ report[r].kind # "installation"
    /\ report' = [report EXCEPT ![r].stage = "read", ![r].from = DateOf(now),
                                ![r].live.done = Before(report[r].kind)]
    /\ Quiet

\* Some commands are answered, or all that are left.
ReadLive(r) ==
    LET q == report[r]
    IN /\ q.stage = "read"
       /\ \E n \in Cuts \cup {LastNeeded(q.kind)} :
            /\ q.live.done < n /\ n <= LastNeeded(q.kind)
            /\ report' = [report EXCEPT
                 ![r].live = Answers(@, q.from, n),
                 ![r].stage = IF n = LastNeeded(q.kind) THEN AfterLive(q.kind) ELSE "read"]
       /\ Quiet

\* The times of the installation, one for every view counted.
AllViews == Total([d \in Dates |-> day[d].pv])

\* They are kept beside the counts, have no day, and are read by one command.
ReadInstallation(r) ==
    /\ report[r].stage = "live" /\ report[r].kind = "installation"
    /\ report' = [report EXCEPT ![r].stage = "rows", ![r].from = report[r].end,
                                ![r].live.counts.pv = AllViews]
    /\ Quiet

\* Without Redis the rows alone are shown, whatever was answered before the error; only
\* the overview reports it.
ReadLiveFails(r) ==
    /\ report[r].stage \in {"live", "read"} /\ faults < MaxFaults
    /\ faults' = faults + 1
    /\ report' = [report EXCEPT ![r] =
         IF @.kind = "overview" THEN NoReport
         ELSE [@ EXCEPT !.stage = AfterLive(report[r].kind), !.from = 0, !.live = NoStats]]
    /\ UNCHANGED <<now, hit, guard, day, sess, views, seen, late, capped, torn,
                   dailyVars, most, peak>>

Answer(r) ==
    /\ report[r].stage = "answer"
    /\ report' = [report EXCEPT ![r] = NoReport]
    /\ Quiet

Report(r) ==
    \/ \E kind \in Kinds : Ask(r, kind)
    \/ ReadRows(r) \/ ReadRowsFails(r) \/ Answer(r)
    \/ AskLive(r) \/ ReadLive(r) \/ ReadInstallation(r) \/ ReadLiveFails(r)

-----------------------------------------------------------------------------
(* Joining: what the report q over `days` days shows. *)

PlusCounts(a, b) == [pv |-> a.pv + b.pv, uv |-> a.uv + b.uv]

\* Mutant: the two counts of the day are added.
MaxPointAdds(stored, live) == PlusCounts(stored, live)

\* maxPoint, maxDailyStats and maxIssueStats, for the columns modelled.
MaxPoint(stored, live) == [pv |-> Max({stored.pv, live.pv}), uv |-> Max({stored.uv, live.uv})]

\* The last day of the report, from its row and its keys.
Today(q) == IF q.from = 0 THEN q.rows[q.end] ELSE MaxPoint(q.rows[q.end], q.live.counts)

RowsTotal(q, dates) == [pv |-> Total([d \in dates |-> q.rows[d].pv]),
                        uv |-> Total([d \in dates |-> q.rows[d].uv])]

Period(q, days) == {d \in Dates : q.end - days < d /\ d <= q.end}
PreviousPeriod(q, days) == {d \in Dates : q.end - 2 * days < d /\ d <= q.end - days}

\* buildTrend: a point for every day.
Trend(q, days) == [d \in Period(q, days) |-> IF d = q.end THEN Today(q) ELSE q.rows[d]]

\* Mutant: the row of the last day is added beside what it is joined to.
EarlierDaysAndToday(q, days) == Period(q, days)

\* The rows added as they are: the last day is set aside.
EarlierDays(q, days) == Period(q, days) \ {q.end}

Analysis(q, days) == [current  |-> PlusCounts(RowsTotal(q, EarlierDays(q, days)), Today(q)),
                previous |-> RowsTotal(q, PreviousPeriod(q, days))]

\* Mutant: one figure stays as it is stored.
LatestButOne(stored, live) ==
    [f \in Quality |-> IF Newer(live, stored) /\ f # "pageviews" THEN live[f] ELSE stored[f]]

\* latestSessionQualityStats: one of the two readings, whole.
Latest(stored, live) == IF Newer(live, stored) THEN live ELSE stored

PlusHash(a, b) == [f \in DOMAIN a \cup DOMAIN b |-> Value(a, f) + Value(b, f)]

\* addSessionQualityStats.
PlusVisits(a, b) == [f \in Quality |-> IF f \in {"entrances", "exits", "flows", "segments"}
                                       THEN PlusHash(a[f], b[f]) ELSE a[f] + b[f]]

\* The figures of one day: of the last, those of its row or its keys.
VisitsOf(q, d) == IF d = q.end /\ q.from # 0 /\ q.live.visits.sessions > 0
                  THEN Latest(q.rows[d], q.live.visits) ELSE q.rows[d]

SessionQuality(q, days) ==
    FoldSet(LAMBDA d, sum : PlusVisits(sum, VisitsOf(q, d)), NoVisits, Period(q, days))

\* Today from the keys alone, yesterday from its row alone.
Overview(q) == [today |-> q.live.counts,
                yesterday |-> IF q.end = 1 THEN NoCounts ELSE q.rows[q.end - 1]]

\* A time of Redis or a day with views makes a project installed.
Installed(q) == q.live.counts.pv > 0 \/ \E d \in Dates : q.rows[d].pv > 0

-----------------------------------------------------------------------------
ReportsNext ==
    \/ /\ \/ DailyWork /\ UNCHANGED report
          \/ /\ RedisRestarts
             /\ report' = [r \in Readers |-> IF report[r].stage = "idle" THEN report[r]
                                             ELSE [report[r] EXCEPT !.whole = FALSE]]
       /\ peak' = [d \in Dates |-> Max({peak[d], day'[d].pv})]
    \/ \E r \in Readers : Report(r)

ReportsSpec == ReportsInit /\ [][ReportsNext]_<<allVars, reportVars>>

-----------------------------------------------------------------------------
(* Properties. *)

Answering(r, kind) == report[r].stage = "answer" /\ report[r].kind = kind

\* The most the figures of the last day can stand for: when midnight came between
\* the clock and Redis, the keys of the new day are joined to the old one.
HighestOfToday(q, highest) ==
    IF q.from = 0 THEN highest[q.end] ELSE Max({highest[q.end], highest[q.from]})

PeakOfToday(q) == HighestOfToday(q, peak)

\* The least they may show.
FloorOfToday(q) == IF q.whole /\ q.from = q.end THEN q.floor ELSE 0

\* A report joins two counts of the same views, one of which may be old, lost or
\* of the next day, and still never shows more views on a day than were counted at
\* once, nor, while Redis answers, fewer than there were when it was asked for. The
\* visitors are counted after the views, so a day may show more visitors than views, but
\* never more than the views it had; and a project with views is not shown as
\* waiting for its installation.
ReportsBracketed ==
    \A r \in Readers :
        LET q == report[r]
        IN /\ Answering(r, "traffic") => \A days \in Ranges :
                LET trend == Trend(q, days)
                IN /\ FloorOfToday(q) <= trend[q.end].pv /\ trend[q.end].pv <= PeakOfToday(q)
                   /\ trend[q.end].uv <= PeakOfToday(q)
                   /\ \A d \in EarlierDays(q, days) : trend[d].pv <= peak[d] /\ trend[d].uv <= peak[d]
           /\ Answering(r, "overview") =>
                /\ FloorOfToday(q) <= Overview(q).today.pv
                /\ Overview(q).today.pv <= PeakOfToday(q)
                /\ Overview(q).today.uv <= PeakOfToday(q)
                /\ q.end = 2 => Overview(q).yesterday.pv <= peak[1]
           /\ Answering(r, "installation") =>
                /\ Installed(q) => \E d \in Dates : peak[d] > 0
                /\ FloorOfToday(q) > 0 => Installed(q)

\* An analysis counts every view once, in the present period or in the previous
\* one: the row of the last day and the keys it is written from are not added.
AnalysisCountsOnce ==
    \A r \in Readers, days \in Ranges : Answering(r, "traffic") =>
        LET q == report[r]
            shown == Analysis(q, days)
            PeakOf(dates) == MapThenSumSet(LAMBDA d : peak[d], dates)
        IN /\ FloorOfToday(q) <= shown.current.pv
           /\ shown.current.pv <= PeakOf(Period(q, days) \ {q.end}) + PeakOfToday(q)
           /\ shown.previous.pv <= PeakOf(PreviousPeriod(q, days))

\* A session report adds days of rows and keys that were read apart, and each while
\* visits went on, and after a loss of Redis the row and the keys of one day are counts of
\* different visits. Still it shows no more visits than the days had, and pages for all
\* of them, unless Redis lost its data in the middle of a reading.
QualityReportMakesSense ==
    \A r \in Readers, days \in Ranges : Answering(r, "quality") =>
        LET q == report[r]
            shown == SessionQuality(q, days)
            MostOf(dates) == MapThenSumSet(LAMBDA d : most[d], dates)
        IN /\ OfVisits(shown, MostOf(EarlierDays(q, days)) + HighestOfToday(q, most))
           /\ q.whole /\ Period(q, days) \cap cut = {} => HavePages(shown)
=============================================================================
