------------------------------ MODULE Figures -------------------------------
(***************************************************************************)
(* The arithmetic of the reports: yesterday up to this hour in the overview*)
(* of today (today_overview.go), the findings of the issue report          *)
(* (issues.go) and the ratings of the web quality (metrics.go), from the   *)
(* totals Reports.tla reads and joins.                                     *)
(*                                                                         *)
(* A rate is a fraction, and an average a total with the number of its     *)
(* samples: comparisons of floating-point quotients are made by            *)
(* multiplying out, their rounding is left out.                            *)
(***************************************************************************)
EXTENDS Integers, FiniteSets, FiniteSetsExt

CONSTANTS
    LastHour,       \* 23
    MaxShown,       \* the issues a report lists (10)
    Events          \* names of events

Vitals == {"lcp", "inp", "cls"}
Errors == {"js_error", "resource_error"}

ASSUME FiguresAssumption ==
    LastHour \in Nat /\ MaxShown \in Nat \ {0} /\ Vitals \cup Errors \subseteq Events

-----------------------------------------------------------------------------
(* Yesterday up to this hour. *)

Hours == 0..LastHour

SumOver(hourly, hours) == MapThenSumSet(LAMBDA h : hourly[h], hours)

\* Visitors return in later hours, so that the hours count more of them than the
\* day: the day is scaled by the share of the hours that have passed, to the
\* nearest whole visitor, and is the most that is shown.
Scaled(full, sofar, total) ==
    LET nearest == (2 * full * sofar + total) \div (2 * total)
    IN IF nearest > full THEN full ELSE nearest

Estimate(full, sofar, total, hour) ==
    IF hour >= LastHour THEN full
    ELSE IF total > 0 /\ full > 0 THEN Scaled(full, sofar, total) ELSE sofar

\* Visitors (and addresses) of yesterday up to the hour.
SamePeriod(full, hourly, hour) ==
    Estimate(full, SumOver(hourly, 0..hour), SumOver(hourly, Hours), hour)

-----------------------------------------------------------------------------
(* Issues. *)

\* Of a period: views and visitors, and of every event its visitors, its number and
\* the sum of its values.
Totals == [pv : Nat, uv : Nat, visitors : [Events -> Nat], events : [Events -> Nat],
           values : [Events -> Nat]]

\* percentage: nothing of nothing is 0.
Rate(part, whole) == IF whole <= 0 THEN [n |-> 0, d |-> 1] ELSE [n |-> part, d |-> whole]

\* The rate a is x percent above b, at least.
Above(a, b, x) == 100 * (a.n * b.d - b.n * a.d) >= x * (a.d * b.d)

\* The rate a is p tenths of b, at most.
AtMost(a, p, b) == 10 * (a.n * b.d) <= p * (b.n * a.d)

Rank == [none |-> 0, warning |-> 1, critical |-> 2]

\* No day of both periods has views that is less than two days past.
Stopped(views, today) == \A d \in DOMAIN views : views[d] > 0 => today - d >= 2

\* Views have stopped, or fallen to 70 percent.
Traffic(now, was, stopped) ==
    IF was.pv >= 20 /\ stopped THEN "critical"
    ELSE IF was.pv >= 100 /\ 10 * now.pv <= 7 * was.pv THEN "warning" ELSE "none"

\* The event of a goal is reached by fewer of the visitors.
Conversion(now, was, event) ==
    LET before == Rate(was.visitors[event], was.uv)
        present == Rate(now.visitors[event], now.uv)
    IN IF was.uv < 50 \/ was.visitors[event] < 5 THEN "none"
       ELSE IF ~Above(before, present, 2) \/ ~AtMost(present, 7, before) THEN "none"
       ELSE IF AtMost(present, 5, before) /\ Above(before, present, 5) THEN "critical"
       ELSE "warning"

\* In milliseconds; the layout shift, which has no unit, in thousandths.
Good == [lcp |-> 2500, inp |-> 200, cls |-> 100]
Poor == [lcp |-> 4000, inp |-> 500, cls |-> 250]

\* webVitalRating of the average.
Rating(vital, period) ==
    IF period.values[vital] <= Good[vital] * period.events[vital] THEN "good"
    ELSE IF period.values[vital] <= Poor[vital] * period.events[vital] THEN "needs_improvement"
    ELSE "poor"

Performance(now, vital) ==
    IF now.events[vital] < 20 \/ Rating(vital, now) = "good" THEN "none"
    ELSE IF Rating(vital, now) = "poor" THEN "critical" ELSE "warning"

\* An error reaches 5 visitors and 5 percent of them; whether it is called a spike
\* is left out.
Failing(now, error) ==
    LET present == Rate(now.visitors[error], now.uv)
        nothing == Rate(0, 0)
    IN IF now.visitors[error] < 5 \/ ~Above(present, nothing, 5) THEN "none"
       ELSE IF Above(present, nothing, 20) THEN "critical" ELSE "warning"

\* What is looked for, with the events of the goals.
Findings(now, was, stopped, goals) ==
    {[about |-> <<"traffic", "">>, severity |-> Traffic(now, was, stopped)]}
      \cup {[about |-> <<"goal", g>>, severity |-> Conversion(now, was, goals[g])] : g \in DOMAIN goals}
      \cup {[about |-> <<"vital", v>>, severity |-> Performance(now, v)] : v \in Vitals}
      \cup {[about |-> <<"error", e>>, severity |-> Failing(now, e)] : e \in Errors}

Issues(now, was, stopped, goals) ==
    {f \in Findings(now, was, stopped, goals) : f.severity # "none"}

\* Those listed: the severest, in an order that is left out.
Listed(shown, issues) ==
    /\ shown \subseteq issues
    /\ Cardinality(issues) <= MaxShown => shown = issues
    /\ Cardinality(issues) > MaxShown => Cardinality(shown) = MaxShown
    /\ \A i \in shown, j \in issues \ shown : Rank[i.severity] >= Rank[j.severity]

Samples(period) == period.events["lcp"] + period.events["inp"] + period.events["cls"]

\* The status of a report that lists `shown`.
Status(shown, now, was) ==
    IF \E i \in shown : i.severity = "critical" THEN "critical"
    ELSE IF shown # {} THEN "warning"
    ELSE IF now.pv + was.pv < 40 /\ Samples(now) + Samples(was) < 20 THEN "insufficient_data"
    ELSE "healthy"

-----------------------------------------------------------------------------
(* Web quality. *)

QualityRank == [no_data |-> 0, good |-> 1, needs_improvement |-> 2, poor |-> 3]

Measured(period) == {v \in Vitals : period.events[v] > 0}

Ratings(period) == {"no_data"} \cup {Rating(v, period) : v \in Measured(period)}
                     \cup (IF \E e \in Errors : period.events[e] > 0 THEN {"needs_improvement"} ELSE {})

\* The worst of the ratings.
WebQuality(period) ==
    CHOOSE r \in Ratings(period) : \A q \in Ratings(period) : QualityRank[q] <= QualityRank[r]
=============================================================================
