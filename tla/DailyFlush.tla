----------------------------- MODULE DailyFlush -----------------------------
(***************************************************************************)
(* How the daily keys reach daily_statistics: worker.go (FlushOnce,        *)
(* flushIfLeader, upsertDailyStats) on top of GetStats, next to the views  *)
(* of Sessions.tla.                                                        *)
(*                                                                         *)
(* A round names its two days when it starts, reads the figures of a day   *)
(* with one pipeline, which is no transaction: other clients' commands and *)
(* scripts come between its own, and then overwrites the row. The workers  *)
(* of the server take an advisory lock for a round, cmd/sync runs          *)
(* FlushOnce without it.                                                   *)
(***************************************************************************)
EXTENDS Sessions, Sequences

CONSTANTS
    Workers,        \* workers of server instances, which take the lock
    Syncs,          \* runs of cmd/sync, one round each
    Nobody,
    Cuts            \* bound: the commands of a pipeline after which others may come

ASSUME DailyAssumption ==
    /\ Workers \cap Syncs = {}
    /\ Nobody \notin Workers \cup Syncs
    /\ Cuts \subseteq 1..9

VARIABLES
    row,            \* daily_statistics of each day
    round,          \* the round of each worker and sync
    leader,         \* who holds the advisory lock
    spent,          \* the syncs that have run
    \* history: Redis lost data; a round ran beside one that the lock did not
    \* protect; the days of which a reading was cut by a loss of Redis; the most
    \* visits the keys of each day ever counted
    lost, overlapped, cut, most

dailyVars == <<row, round, leader, spent, lost, overlapped, cut>>
allVars == <<vars, dailyVars, most>>

Flushers == Workers \cup Syncs

Quality == {"sessions", "bounces", "duration", "pageviews", "entrances", "exits", "flows",
            "segments"}

\* What DailyStats takes from the keys of a day.
Counts(d) == [pv |-> day[d].pv, uv |-> Cardinality(day[d].uv)]
Visits(d) == [f \in Quality |-> day[d][f]]

NoCounts == [pv |-> 0, uv |-> 0]
NoVisits == [f \in Quality |-> EmptyDay[f]]
NoRow == [counts |-> NoCounts, visits |-> NoVisits]

\* Mutant: the page views of visits are asked for before the visits.
ViewsBeforeVisits == [pv |-> 1, uv |-> 2, pageviews |-> 3, bounces |-> 4, duration |-> 5,
                      sessions |-> 6, entrances |-> 7, exits |-> 8, flows |-> 9, segments |-> 10]

\* The place of each command in the pipeline of GetStats.
Place == [pv |-> 1, uv |-> 2, sessions |-> 3, bounces |-> 4, duration |-> 5, pageviews |-> 6,
          entrances |-> 7, exits |-> 8, flows |-> 9, segments |-> 10]
Last == 10

\* What the first `done` commands have answered.
NoStats == [done |-> 0, counts |-> NoCounts, visits |-> NoVisits]

\* The commands up to the n-th are answered by the keys of day d.
Answers(x, d, n) ==
    LET Now(f) == x.done < Place[f] /\ Place[f] <= n
    IN [done |-> n,
        counts |-> [f \in DOMAIN NoCounts |-> IF Now(f) THEN Counts(d)[f] ELSE x.counts[f]],
        visits |-> [f \in Quality |-> IF Now(f) THEN day[d][f] ELSE x.visits[f]]]

Resting == [stage |-> "idle", dates |-> <<>>, stats |-> NoStats]
Reading(dates) == [stage |-> "read", dates |-> dates, stats |-> NoStats]

DailyInit ==
    /\ Init
    /\ row = [d \in Dates |-> NoRow]
    /\ round = [w \in Flushers |-> Resting]
    /\ leader = Nobody /\ spent = {} /\ lost = FALSE /\ overlapped = FALSE
    /\ cut = {} /\ most = [d \in Dates |-> 0]

-----------------------------------------------------------------------------
\* Mutant: only today.
FlushToday == <<DateOf(now)>>

\* flushDates: today, then yesterday (which has no keys on the first day).
FlushDates == IF DateOf(now) = 1 THEN <<1>> ELSE <<2, 1>>

Busy(w) == round[w].stage # "idle"

\* Mutant: the worker does not ask who holds the lock.
LockIgnored(w) == TRUE

\* pg_try_advisory_lock.
LockFree(w) == leader = Nobody

StartRound(w) ==
    /\ ~Busy(w)
    /\ IF w \in Syncs THEN w \notin spent /\ spent' = spent \cup {w} /\ UNCHANGED leader
                      ELSE LockFree(w) /\ leader' = w /\ UNCHANGED spent
    /\ round' = [round EXCEPT ![w] = Reading(FlushDates)]
    /\ overlapped' = (overlapped \/ \E x \in Flushers : Busy(x) /\ (w \in Syncs \/ leader # x))
    /\ UNCHANGED <<vars, row, lost, cut, most>>

\* Mutant: the round returns without the unlock.
NextDayLocked(w) ==
    LET rest == Tail(round[w].dates)
    IN /\ round' = [round EXCEPT ![w] = IF rest = <<>> THEN Resting ELSE Reading(rest)]
       /\ UNCHANGED leader

\* The next day of the round, or its end: the deferred unlock.
NextDay(w) ==
    LET rest == Tail(round[w].dates)
    IN IF rest = <<>>
       THEN /\ round' = [round EXCEPT ![w] = Resting]
            /\ leader' = IF leader = w THEN Nobody ELSE leader
       ELSE /\ round' = [round EXCEPT ![w] = Reading(rest)]
            /\ UNCHANGED leader

\* GetStats: some commands are answered, then other clients have their turn.
ReadSome(w) ==
    LET r == round[w]
    IN /\ r.stage = "read"
       /\ \E n \in Cuts : /\ r.stats.done < n
                          /\ round' = [round EXCEPT ![w].stats = Answers(@, Head(r.dates), n)]
       /\ UNCHANGED <<vars, row, leader, spent, lost, overlapped, cut, most>>

\* The last commands are answered. A day without traffic is skipped; but requests,
\* bots and events, which are not modelled, are traffic too.
ReadRest(w) ==
    LET r == round[w]
        stats == Answers(r.stats, Head(r.dates), Last)
    IN /\ r.stage = "read"
       /\ \/ /\ round' = [round EXCEPT ![w] = [r EXCEPT !.stage = "write", !.stats = stats]]
             /\ UNCHANGED leader
          \/ stats.counts.pv = 0 /\ NextDay(w)
       /\ UNCHANGED <<vars, row, spent, lost, overlapped, cut, most>>

\* The condition of the CASE in every session column.
Newer(x, y) == \/ x.sessions > y.sessions
               \/ x.sessions = y.sessions /\ x.pageviews >= y.pageviews

\* Mutant: the page views do not decide.
MergeByVisits(stored, read) ==
    [f \in Quality |-> IF read.sessions >= stored.sessions THEN read[f] ELSE stored[f]]

\* What the CASEs leave in the session columns, each decided on its own.
Merge(stored, read) == [f \in Quality |-> IF Newer(read, stored) THEN read[f] ELSE stored[f]]

Upsert(w) ==
    LET d == Head(round[w].dates)
        r == round[w]
    IN /\ r.stage = "write"
       /\ row' = [row EXCEPT ![d] = [counts |-> r.stats.counts,
                                     visits |-> Merge(row[d].visits, r.stats.visits)]]
       /\ NextDay(w)
       /\ UNCHANGED <<vars, spent, lost, overlapped, cut, most>>

\* Redis or PostgreSQL refuse, and the loop goes on with the next day; also all
\* that a crash of the process leaves.
DayFails(w) ==
    /\ Busy(w) /\ faults < MaxFaults
    /\ faults' = faults + 1
    /\ NextDay(w)
    /\ UNCHANGED <<now, hit, guard, day, sess, views, seen, late, capped, torn,
                   row, spent, lost, overlapped, cut, most>>

\* The lock lives as long as the connection it was taken on; the round goes on with the
\* other connections of the pool.
LoseLock(w) ==
    /\ leader = w /\ faults < MaxFaults
    /\ faults' = faults + 1
    /\ leader' = Nobody
    /\ UNCHANGED <<now, hit, guard, day, sess, views, seen, late, capped, torn,
                   row, round, spent, lost, overlapped, cut, most>>

RoundStep(w) == StartRound(w) \/ ReadSome(w) \/ ReadRest(w) \/ Upsert(w)

\* A reading is cut when its visits were counted before the loss and the rest after it.
RedisRestarts ==
    /\ LoseRedis
    /\ lost' = TRUE
    /\ cut' = cut \cup {Head(round[w].dates) : w \in
                   {w \in Flushers : round[w].stage = "read" /\ round[w].stats.done >= Place["sessions"]}}
    /\ UNCHANGED <<row, round, leader, spent, overlapped, most>>

DailyWork ==
    \/ /\ Track \/ Tick
       /\ most' = [d \in Dates |-> Max({most[d], day'[d].sessions})]
       /\ UNCHANGED dailyVars
    \/ \E w \in Flushers : RoundStep(w) \/ DayFails(w) \/ LoseLock(w)

DailyNext == DailyWork \/ RedisRestarts

\* The workers of the server loop over their tickers; a sync need not even run.
DailySpec == DailyInit /\ [][DailyNext]_allVars /\ \A w \in Workers : WF_allVars(RoundStep(w))

-----------------------------------------------------------------------------
(* Properties. *)

\* The shape of rounds and rows; who holds the lock is in a round.
DailyTypeOK ==
    /\ leader \in Workers \cup {Nobody} /\ spent \subseteq Syncs /\ cut \subseteq Dates
    /\ \A d \in Dates : DOMAIN row[d].visits = Quality /\ most[d] \in Nat
    /\ \A w \in Flushers : round[w].stage \in {"idle", "read", "write"}
    /\ \A w \in Workers : leader = w => Busy(w)

\* No figure exceeds m visits.
OfVisits(x, m) ==
    /\ 0 <= x.sessions /\ x.sessions <= m
    /\ 0 <= x.bounces /\ x.bounces <= m
    /\ Total(x.entrances) <= m /\ Total(x.exits) <= m

\* A visit that is no bounce has two views, and a pause is not longer than the timeout.
HavePages(x) ==
    /\ 2 * x.sessions - x.bounces <= x.pageviews
    /\ 0 <= x.duration /\ x.duration <= Timeout * (x.pageviews - x.sessions)

\* The session columns of a row come from one reading, whatever rounds overlapped, and
\* views went on between its commands: the visits are read before their page views,
\* so there are pages for all of them, unless Redis lost its data in the middle. The
\* figures read after the visits may exceed them, but not the visits the day ever
\* had.
RowsMakeSense ==
    \A d \in Dates : /\ OfVisits(row[d].visits, most[d])
                     /\ d \in cut \/ HavePages(row[d].visits)

\* The visits of a stored day never go back, although a restarted Redis counts
\* them from zero and a slow sync writes what it read long ago.
VisitsNeverGoBack ==
    [][\A d \in Dates : \/ row'[d].visits.sessions > row[d].visits.sessions
                        \/ /\ row'[d].visits.sessions = row[d].visits.sessions
                           /\ row'[d].visits.pageviews >= row[d].visits.pageviews]_allVars

\* The columns that are overwritten go back only when Redis lost data or a round ran
\* beside one without the lock, of cmd/sync or of a worker whose connection broke:
\* otherwise the lock keeps an old reading from overwriting a newer one.
CountsNeverGoBack ==
    [][\A d \in Dates : \/ lost \/ overlapped
                        \/ /\ row'[d].counts.pv >= row[d].counts.pv
                           /\ row'[d].counts.uv >= row[d].counts.uv]_allVars

\* When the views stop, both days of history end up equal to Redis and stay so, the
\* views of yesterday that came after midnight and the overwritings of a slow sync
\* included, unless Redis lost data.
HistoryCatchesUp ==
    <>[](lost \/ \A d \in Dates : day[d].pv > 0 =>
                    row[d] = [counts |-> Counts(d), visits |-> Visits(d)])
=============================================================================
