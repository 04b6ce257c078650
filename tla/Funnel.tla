------------------------------- MODULE Funnel -------------------------------
(***************************************************************************)
(* Custom events and funnels: TrackEvent, boundedEventName, advanceFunnels *)
(* and the part of GetStats that reads them back (analytics.go), the flush *)
(* of funnel_steps (worker.go) and GetFunnelReport (metrics.go), next to   *)
(* the calls of Conversion.tla that create and delete the funnels.         *)
(*                                                                         *)
(* An event is a row of round trips: it takes its name, then its visitor,  *)
(* is counted, reads the definitions, and for every funnel reads the state *)
(* of the visitor, decides in Go, and writes the reached steps one command *)
(* after the other. The steps of a day are counted by one SCARD each.      *)
(***************************************************************************)
EXTENDS Conversion, FiniteSetsExt, Sequences

CONSTANTS
    Visitors, Names,
    Strangers,          \* visitors who may have viewed pages today, without events
    Other,              \* the event name "_other"
    Segments,           \* values of one segment dimension
    NoSegment,
    Tasks,              \* collect requests in flight
    Flushers,           \* the worker with the lock, and those that flush without it
    NameLimit,          \* maxDimensionValues, for event names
    SegmentLimit,       \* maxDimensionValues, for segments
    VisitorLimit,       \* maxDailyVisitors
    MaxWork             \* bound: events, reports, flushes and calls begun

ASSUME FunnelAssumption ==
    /\ Visitors \cap Strangers = {}
    /\ IsFiniteSet(Strangers) /\ Cardinality(Strangers) <= VisitorLimit
    /\ Other \notin Names /\ NoSegment \notin Segments
    /\ StepLists \subseteq Seq(Names)
    /\ "report" \notin Flushers
    /\ {NameLimit, SegmentLimit, VisitorLimit} \subseteq Nat \ {0}
    /\ MaxWork \in Nat

VARIABLES
    date,       \* the UTC day
    names,      \* event_names_guard of each day
    exact,      \* exact_visitors_guard of each day
    events,     \* events and event_visitors: a count and visitors, per day and name
    steps,      \* funnel_step: visitors, per day, funnel and step
    members,    \* funnel_segment_values and _visitors: visitors, per day and field
    state,      \* funnel_session, funnel_session_segments: per funnel and visitor
    task,       \* the event each collect request is working on
    row,        \* daily_statistics.funnel_steps, per day and funnel
    scan,       \* the report and the flushes in progress
    sent, scans,
    \* history: how far the events of a visitor make the steps of a funnel in their
    \* order; the events counted on another day than their name was taken
    earned, crossed

trackVars == <<names, exact, events, steps, members, state, task, sent, earned, crossed>>
scanVars == <<row, scan, scans>>
funnelVars == <<conversionVars, date, trackVars, scanVars>>

Dates == {1, 2}
Levels == 1..MaxSteps

\* The counts of the steps; a step that is not there counts 0.
Zeros == [n \in Levels |-> 0]
StepCounts(d, i) == [n \in Levels |-> Cardinality(steps[d][i][n])]

NoState == [reached |-> 0, seg |-> NoSegment, day |-> 1]

NoTask == [pc |-> "idle", who |-> CHOOSE v \in Visitors : TRUE, name |-> Other, seg |-> NoSegment,
           named |-> 1, day |-> 1, left |-> NoFunnels, id |-> 1, from |-> 0, first |-> NoSegment,
           n |-> 1]

Scanners == {"report"} \cup Flushers

\* `base` and `held` are history: what the report had to show and what was stored of the
\* day when it began; `lost`: a read failed.
NoScan == [pc |-> "idle", id |-> 1, end |-> 1, day |-> 1, old |-> Zeros, stored |-> Zeros,
           left |-> NoFunnels, n |-> 1, got |-> [i \in {} |-> Zeros], lost |-> FALSE,
           base |-> Zeros, held |-> [i \in {} |-> Zeros], shown |-> Zeros]

FunnelInit ==
    /\ ConversionInit
    /\ date = 1 /\ sent = 0 /\ scans = 0
    /\ names = [d \in Dates |-> {}] /\ exact \in {[d \in Dates |-> s] : s \in {{}, Strangers}}
    /\ events = [d \in Dates |-> [e \in Names \cup {Other} |-> [count |-> 0, who |-> {}]]]
    /\ steps = [d \in Dates |-> [i \in Ids |-> [n \in Levels |-> {}]]]
    /\ members = [d \in Dates |-> [f \in {} |-> {}]]
    /\ state = [i \in Ids |-> [v \in Visitors |-> NoState]]
    /\ task = [t \in Tasks |-> NoTask]
    /\ row = [d \in Dates |-> [i \in Ids |-> Zeros]]
    /\ scan = [r \in Scanners |-> NoScan]
    /\ earned = [i \in Ids |-> [v \in Visitors |-> 0]]
    /\ crossed = 0

Busy == Cardinality(AtWork) + Cardinality({t \in Tasks : task[t].pc # "idle"})
                            + Cardinality({r \in Scanners : scan[r].pc # "idle"})

\* The bounds on the work begun and on what is in flight.
MayBegin == calls + sent + scans + faults < MaxWork /\ Busy < MaxBusy

-----------------------------------------------------------------------------
(* Events. *)

TaskGoes(t, pc) == task' = [task EXCEPT ![t].pc = pc]
TaskEnds(t) == task' = [task EXCEPT ![t] = NoTask]

\* The guard of the day gives an event its name; when the guard does not answer the
\* event is "_other".
TakeName(t, v, e, s) ==
    /\ task[t].pc = "idle" /\ MayBegin
    /\ sent' = sent + 1
    /\ LET full == e \notin names[date] /\ Cardinality(names[date]) >= NameLimit
       IN /\ names' = IF full THEN names ELSE [names EXCEPT ![date] = @ \cup {e}]
          /\ task' = [task EXCEPT ![t] = [NoTask EXCEPT !.pc = "visitor", !.who = v, !.seg = s,
                                            !.name = IF full THEN Other ELSE e, !.named = date]]
    /\ UNCHANGED <<conversionVars, date, exact, events, steps, members, state, earned, crossed,
                   scanVars>>

NameFails(t, v, e, s) ==
    /\ task[t].pc = "idle" /\ MayBegin /\ faults < MaxFaults
    /\ sent' = sent + 1 /\ faults' = faults + 1
    /\ task' = [task EXCEPT ![t] = [NoTask EXCEPT !.pc = "visitor", !.who = v, !.seg = s,
                                                  !.named = date]]
    /\ UNCHANGED <<goals, funnels, defs, call, ids, calls, untold, leftover, date, names, exact,
                   events, steps, members, state, earned, crossed, scanVars>>

\* Mutant: a visitor too many.
RoomOffByOne(v) == v \in exact[date] \/ Cardinality(exact[date]) <= VisitorLimit

\* reserveExactVisitor, on the day the event is counted.
Room(v) == v \in exact[date] \/ Cardinality(exact[date]) < VisitorLimit

\* An event of a visitor who is not followed goes the short way.
TakeVisitor(t) ==
    /\ task[t].pc = "visitor"
    /\ exact' = IF Room(task[t].who) THEN [exact EXCEPT ![date] = @ \cup {task[t].who}] ELSE exact
    /\ task' = [task EXCEPT ![t].day = date,
                            ![t].pc = IF Room(task[t].who) THEN "store" ELSE "count"]
    /\ UNCHANGED <<conversionVars, date, names, events, steps, members, state, sent, earned,
                   crossed, scanVars>>

\* The pipeline of TrackEvent.
Store(t) ==
    LET e == task[t]
    IN /\ e.pc \in {"store", "count"}
       /\ events' = [events EXCEPT ![e.day][e.name] =
                        [count |-> @.count + 1,
                         who |-> IF e.pc = "store" THEN @.who \cup {e.who} ELSE @.who]]
       /\ crossed' = IF e.named # e.day THEN crossed + 1 ELSE crossed
       /\ IF e.pc = "store" THEN TaskGoes(t, "defs") ELSE TaskEnds(t)
       /\ UNCHANGED <<conversionVars, date, names, exact, steps, members, state, sent, earned,
                      scanVars>>

\* advanceFunnels: HGETALL.
ReadDefinitions(t) ==
    /\ task[t].pc = "defs"
    /\ IF DOMAIN defs = {} THEN TaskEnds(t)
       ELSE task' = [task EXCEPT ![t].pc = "look", ![t].left = defs]
    /\ UNCHANGED <<conversionVars, date, names, exact, events, steps, members, state, sent, earned,
                   crossed, scanVars>>

Done(t, i) == IF DOMAIN task[t].left = {i} THEN TaskEnds(t)
              ELSE task' = [task EXCEPT ![t] = [task[t] EXCEPT !.pc = "look", !.left = Without(@, i)]]

\* Mutant: any event goes on with the next step.
AdvancesAlways(list, reached, e) == reached < Len(list)

\* The event is the next step of a visitor who has reached so many.
Advances(list, reached, e) == reached < Len(list) /\ e = list[reached + 1]

\* The event starts the funnel again.
Restarts(list, reached, e) == reached \in 1..Len(list) - 1 /\ e = list[1]

\* MGET of state and segments, and the decision. The answer `s` is NoState when
\* the command failed.
Decide(t, i, s) ==
    LET e == task[t]
        list == e.left[i]
        from == IF Advances(list, s.reached, e.name) THEN s.reached ELSE 0
    IN IF Advances(list, s.reached, e.name) \/ Restarts(list, s.reached, e.name)
       THEN task' = [task EXCEPT ![t] =
                [@ EXCEPT !.pc = "write", !.id = i, !.from = from, !.n = 1,
                          !.first = IF from = 0 \/ s.seg = NoSegment THEN e.seg ELSE s.seg]]
       ELSE Done(t, i)

Earn(t, i) ==
    LET v == task[t].who
        next == earned[i][v] + 1
        list == task[t].left[i]
    IN earned' = IF next \in DOMAIN list /\ task[t].name = list[next]
                 THEN [earned EXCEPT ![i][v] = next] ELSE earned

Look(t, i) ==
    /\ task[t].pc = "look" /\ i \in DOMAIN task[t].left
    /\ Decide(t, i, state[i][task[t].who])
    /\ Earn(t, i)
    /\ UNCHANGED <<conversionVars, date, names, exact, events, steps, members, state, sent, crossed,
                   scanVars>>

LookFails(t, i) ==
    /\ task[t].pc = "look" /\ i \in DOMAIN task[t].left /\ faults < MaxFaults
    /\ faults' = faults + 1
    /\ Decide(t, i, NoState)
    /\ Earn(t, i)
    /\ UNCHANGED <<goals, funnels, defs, call, ids, calls, untold, leftover, date, names, exact,
                   events, steps, members, state, sent, crossed, scanVars>>

\* boundedRegistrySetAddScript.
AddMember(m, field, v) ==
    IF field \in DOMAIN m THEN [m EXCEPT ![field] = @ \cup {v}]
    ELSE IF Cardinality(DOMAIN m) < SegmentLimit THEN With(m, field, {v}) ELSE m

\* Mutant: only the step just reached.
StartOfLast(t) == task[t].from + 1

\* The loop over the reached steps begins with the first one.
StartOfLoop(t) == task[t].n

\* One turn of the loop.
WriteStep(t) ==
    LET e == task[t]
        n == StartOfLoop(t)
    IN /\ e.pc = "write"
       /\ steps' = [steps EXCEPT ![e.day][e.id][n] = @ \cup {e.who}]
       /\ members' = [members EXCEPT ![e.day] = AddMember(@, <<e.id, n, e.first>>, e.who)]
       /\ task' = [task EXCEPT ![t] = [@ EXCEPT !.n = n + 1,
                                                !.pc = IF n <= e.from THEN "write" ELSE "state"]]
       /\ UNCHANGED <<conversionVars, date, names, exact, events, state, sent, earned, crossed,
                      scanVars>>

SetState(t) ==
    LET e == task[t]
    IN /\ e.pc = "state"
       /\ state' = [state EXCEPT ![e.id][e.who] = [@ EXCEPT !.reached = e.from + 1, !.day = date]]
       /\ TaskGoes(t, "segments")
       /\ UNCHANGED <<conversionVars, date, names, exact, events, steps, members, sent, earned,
                      crossed, scanVars>>

SetSegments(t) ==
    LET e == task[t]
    IN /\ e.pc = "segments"
       /\ state' = [state EXCEPT ![e.id][e.who].seg = e.first]
       /\ Done(t, e.id)
       /\ UNCHANGED <<conversionVars, date, names, exact, events, steps, members, sent, earned,
                      crossed, scanVars>>

\* An error, a client that goes away, or the end of the process, between two commands. (A
\* reservation that fails lets the event go the short way.)
TaskFails(t) ==
    /\ task[t].pc # "idle" /\ faults < MaxFaults
    /\ faults' = faults + 1
    /\ \/ TaskEnds(t)
       \/ task[t].pc = "visitor" /\ task' = [task EXCEPT ![t].day = date, ![t].pc = "count"]
    /\ UNCHANGED <<goals, funnels, defs, call, ids, calls, untold, leftover, date, names, exact,
                   events, steps, members, state, sent, earned, crossed, scanVars>>

Track(t) ==
    \/ \E v \in Visitors, e \in Names, s \in Segments : TakeName(t, v, e, s) \/ NameFails(t, v, e, s)
    \/ TakeVisitor(t) \/ Store(t) \/ ReadDefinitions(t)
    \/ \E i \in Ids : Look(t, i) \/ LookFails(t, i)
    \/ WriteStep(t) \/ SetState(t) \/ SetSegments(t) \/ TaskFails(t)

Midnight == date = 1 /\ date' = 2 /\ UNCHANGED <<conversionVars, trackVars, scanVars>>

\* Both keys expire 24 hours after the pipeline that wrote them.
Expire(i, v) ==
    /\ state[i][v] # NoState /\ state[i][v].day < date
    /\ state' = [state EXCEPT ![i][v] = NoState]
    /\ UNCHANGED <<conversionVars, date, names, exact, events, steps, members, task, sent, earned,
                   crossed, scanVars>>

-----------------------------------------------------------------------------
(* Reading back: GetStats for the flush of a day and for a report. *)

ScanGoes(r, pc) == scan' = [scan EXCEPT ![r].pc = pc]

BeginScan(r) == /\ scan[r].pc = "idle" /\ MayBegin
                /\ scans' = scans + 1
                /\ UNCHANGED <<conversionVars, date, trackVars, row>>

\* FlushOnce takes today and yesterday. The lock lets one worker flush at a time, but
\* cmd/sync calls FlushOnce without it, and a worker whose connection broke goes on. (A
\* day without traffic is not written; but page views, which are not modelled, are
\* traffic too.)
StartFlush(w, d) ==
    /\ d <= date
    /\ BeginScan(w)
    /\ scan' = [scan EXCEPT ![w] = [NoScan EXCEPT !.pc = "defs", !.day = d, !.held = row[d]]]

\* handleGetFunnelAnalysis finds the row of the funnel; the report ends today.
StartReport(i) ==
    /\ i \in DOMAIN funnels
    /\ BeginScan("report")
    /\ scan' = [scan EXCEPT !["report"] = [NoScan EXCEPT !.pc = "rows", !.id = i, !.end = date,
                                                         !.base = StepCounts(date, i)]]

\* The rows of the range, today's apart; then GetTodayStats asks for the date again.
ReadRows ==
    LET r == scan["report"]
    IN /\ r.pc = "rows"
       /\ scan' = [scan EXCEPT !["report"] = [r EXCEPT
                     !.pc = "defs", !.day = date, !.stored = row[r.end][r.id],
                     !.old = IF r.end = 1 THEN Zeros ELSE row[1][r.id]]]
       /\ UNCHANGED <<conversionVars, date, trackVars, row, scans>>

\* The funnels of the hash; a report takes its own from the result.
ScanDefinitions(r) ==
    LET all == IF r = "report" THEN Restrict(defs, DOMAIN defs \cap {scan[r].id}) ELSE defs
    IN /\ scan[r].pc = "defs"
       /\ scan' = [scan EXCEPT ![r] = [@ EXCEPT !.pc = "count", !.left = all]]
       /\ UNCHANGED <<conversionVars, date, trackVars, row, scans>>

\* One funnel after the other, in any order.
Counts(r, i) ==
    /\ scan[r].pc = "count" /\ i \in DOMAIN scan[r].left
    /\ scan[r].n = 1 \/ i = scan[r].id

Got(r, i) == IF i \in DOMAIN scan[r].got THEN scan[r].got[i] ELSE Zeros

Counted(r, i, count, lost) ==
    LET s == scan[r]
        left == IF s.n = Len(s.left[i]) THEN Without(s.left, i) ELSE s.left
    IN scan' = [scan EXCEPT ![r] = [s EXCEPT !.id = i, !.left = left, !.lost = s.lost \/ lost,
                   !.n = IF left = s.left THEN s.n + 1 ELSE 1,
                   !.got = With(s.got, i, [Got(r, i) EXCEPT ![s.n] = count])]]

\* Mutant: the steps of today, whatever the day.
DayIsToday(r) == date

\* The day whose keys are counted.
DayOf(r) == scan[r].day

\* SCARD of the next step of a funnel.
CountStep(r, i) ==
    /\ Counts(r, i)
    /\ Counted(r, i, Cardinality(steps[DayOf(r)][i][scan[r].n]), FALSE)
    /\ UNCHANGED <<conversionVars, date, trackVars, row, scans>>

\* The error of an SCARD is dropped: the step counts 0.
CountFails(r, i) ==
    /\ Counts(r, i) /\ faults < MaxFaults
    /\ faults' = faults + 1
    /\ Counted(r, i, 0, TRUE)
    /\ UNCHANGED <<goals, funnels, defs, call, ids, calls, untold, leftover, date, trackVars, row,
                   scans>>

\* The upsert overwrites the column, whoever wrote it meanwhile.
UpsertSteps(w) ==
    LET r == scan[w]
    IN /\ r.pc = "count" /\ r.left = NoFunnels
       /\ row' = [row EXCEPT ![r.day] = [i \in Ids |-> Got(w, i)]]
       /\ scan' = [scan EXCEPT ![w] = NoScan]
       /\ UNCHANGED <<conversionVars, date, trackVars, scans>>

\* Mutant: what is stored wins.
StoredStepCounts(x, y) == x

\* maxStepCounts.
MaxStepCounts(x, y) == [n \in Levels |-> IF x[n] > y[n] THEN x[n] ELSE y[n]]

\* normalizeFunnelCounts: no step is counted more often than one before it.
Normalize(x) == [n \in Levels |-> Min({x[k] : k \in 1..n})]

\* The last line of the report: the old days, and for today the greater figure.
Show ==
    LET r == scan["report"]
        today == MaxStepCounts(r.stored, Got("report", r.id))
    IN /\ r.pc = "count" /\ r.left = NoFunnels
       /\ scan' = [scan EXCEPT !["report"] = [r EXCEPT !.pc = "shown",
                     !.shown = Normalize([n \in Levels |-> r.old[n] + today[n]])]]
       /\ UNCHANGED <<conversionVars, date, trackVars, row, scans>>

\* The error of the HGETALL is dropped: no funnel is counted. (The same remains of a
\* report when the commands before it fail: it goes on with the rows.)
ScanDefinitionsFails(r) ==
    /\ scan[r].pc = "defs" /\ faults < MaxFaults
    /\ faults' = faults + 1
    /\ scan' = [scan EXCEPT ![r] = [@ EXCEPT !.pc = "count", !.lost = TRUE]]
    /\ UNCHANGED <<goals, funnels, defs, call, ids, calls, untold, leftover, date, trackVars, row,
                   scans>>

\* Another error, or the end of the process: a flush leaves the row, a report shows
\* nothing.
ScanFails(r) ==
    /\ scan[r].pc \notin {"idle", "shown"} /\ faults < MaxFaults
    /\ faults' = faults + 1
    /\ scan' = [scan EXCEPT ![r] = NoScan]
    /\ UNCHANGED <<goals, funnels, defs, call, ids, calls, untold, leftover, date, trackVars, row,
                   scans>>

EndReport ==
    /\ scan["report"].pc = "shown"
    /\ scan' = [scan EXCEPT !["report"] = NoScan]
    /\ UNCHANGED <<conversionVars, date, trackVars, row, scans>>

ScanStep ==
    \/ \E w \in Flushers : UpsertSteps(w) \/ \E d \in Dates : StartFlush(w, d)
    \/ \E i \in Ids : StartReport(i)
    \/ ReadRows \/ Show \/ EndReport
    \/ \E r \in Scanners : ScanDefinitions(r) \/ ScanDefinitionsFails(r) \/ ScanFails(r)
    \/ \E r \in Scanners, i \in Ids : CountStep(r, i) \/ CountFails(r, i)

-----------------------------------------------------------------------------
FunnelNext ==
    \/ \E m \in Managers : /\ \/ Continue(m)
                              \/ Start(m) /\ MayBegin
                           /\ UNCHANGED <<date, trackVars, scanVars>>
    \/ \E t \in Tasks : Track(t)
    \/ Midnight
    \/ \E i \in Ids, v \in Visitors : Expire(i, v)
    \/ ScanStep

FunnelSpec == FunnelInit /\ [][FunnelNext]_funnelVars

-----------------------------------------------------------------------------
(* Properties. *)

FunnelTypeOK ==
    /\ goals \subseteq 1..ids /\ DOMAIN funnels \subseteq 1..ids /\ DOMAIN defs \subseteq 1..ids
    /\ goals \cap DOMAIN funnels = {}
    /\ \A d \in Dates, i \in Ids, n \in Levels : steps[d][i][n] \subseteq exact[d]
    /\ \A i \in Ids, v \in Visitors : state[i][v].reached \in 0..MaxSteps
    /\ \A t \in Tasks : task[t].pc \in {"idle", "visitor", "store", "count", "defs", "look", "write",
                                        "state", "segments"}

\* Within a day a visitor counted at a step, alone or under a segment, is counted at
\* every step before it, at every moment: also while the commands are being
\* written, after half of them failed, over midnight, and when the registry of
\* segments is full.
StepsNested ==
    \A d \in Dates, i \in Ids, n \in Levels \ {1} :
        /\ steps[d][i][n] \subseteq steps[d][i][n - 1]
        /\ \A s \in Segments : <<i, n, s>> \in DOMAIN members[d] =>
              /\ <<i, n - 1, s>> \in DOMAIN members[d]
              /\ members[d][<<i, n, s>>] \subseteq members[d][<<i, n - 1, s>>]
              /\ members[d][<<i, n, s>>] \subseteq steps[d][i][n]

\* A visitor is counted at a step only when events of that visitor name the steps up to
\* it in their order, whatever concurrent events do to the state they share.
NoStepUnearned ==
    \A d \in Dates, i \in Ids, n \in Levels, v \in Visitors :
        v \in steps[d][i][n] => earned[i][v] >= n

\* The caps of a day hold under concurrency; only an event that took its name before
\* midnight and is counted after it may add a name too many.
GuardsHold ==
    \A d \in Dates :
        /\ Cardinality(exact[d]) <= VisitorLimit
        /\ UNION {events[d][e].who : e \in DOMAIN events[d]} \subseteq exact[d]
        /\ Cardinality({e \in Names : events[d][e].count > 0}) <= NameLimit + crossed
        /\ Cardinality(DOMAIN members[d]) <= SegmentLimit

\* A report shows steps that never increase, never more visitors than the days have had,
\* and, unless a read failed, the funnel was unknown to Redis or midnight passed, at
\* least those of today when it began: whatever was flushed before or during it, and
\* although the steps are counted one after the other.
ReportBracketed ==
    LET r == scan["report"]
    IN r.pc = "shown" =>
        /\ \A n \in Levels \ {1} : r.shown[n] <= r.shown[n - 1]
        /\ \A n \in Levels : r.shown[n] <= Cardinality(steps[1][r.id][n]) + Cardinality(steps[2][r.id][n])
        /\ ~r.lost /\ r.day = r.end /\ r.id \in DOMAIN r.got => \A n \in Levels : r.shown[n] >= r.base[n]

\* The stored steps of a day go back only by a flush that lost a read, that found the
\* funnel missing in Redis, or that read the steps before another flush, without the
\* lock, wrote the row; and this last one puts back no less than was stored when it began.
StoredStepsKept ==
    [][\A d \in Dates, i \in Ids, n \in Levels :
          \/ row'[d][i][n] >= row[d][i][n]
          \/ \E w \in Flushers :
               /\ scan[w].pc = "count" /\ scan'[w].pc = "idle" /\ scan[w].day = d
               /\ \/ scan[w].lost
                  \/ i \notin DOMAIN scan[w].got
                  \/ row'[d][i][n] >= scan[w].held[i][n]]_funnelVars
=============================================================================
