----------------------------- MODULE MCReports -----------------------------
(***************************************************************************)
(* One reader beside two workers and a sync, and the arithmetic of Figures *)
(* on small totals.                                                        *)
(***************************************************************************)
EXTENDS Reports, Figures

CONSTANT MaxBusy        \* bound: reports, rounds and views in progress at a time

Symmetric == Permutations(Workers)

\* After a failure the rest goes on alone; but a session report goes on beside the views and
\* rounds after a loss of Redis, and a second round beside one that lost its lock.
FewBusy ==
    LET reading == {r \in Readers : report[r].stage # "idle"}
        rounds == {w \in Flushers : Busy(w)}
        busy == Cardinality(reading) + Cardinality(rounds)
                  + Cardinality({k \in Trackers : hit[k].stage # "idle"})
    IN /\ busy <= MaxBusy
       /\ \/ busy <= 1 \/ faults = 0
          \/ lost /\ reading # {} /\ \A r \in reading : report[r].kind = "quality"
          \/ Cardinality(rounds) > 1

-----------------------------------------------------------------------------
(* What FiguresProofs proves for all totals, evaluated on small ones.      *)

ASSUME SamePeriodIsBounded ==
    \A full \in 0..3, hourly \in [Hours -> 0..2] :
        (SumOver(hourly, Hours) > 0 => full > 0) =>
            /\ \A hour \in Hours : SamePeriod(full, hourly, hour) \in 0..full
            /\ \A hour \in Hours \ {LastHour} :
                SamePeriod(full, hourly, hour) <= SamePeriod(full, hourly, hour + 1)

ASSUME ScaledIsNearest ==
    \A full \in 0..5, total \in 1..5 : \A sofar \in 0..total :
        LET off(k) == LET d == k * total - full * sofar IN IF d < 0 THEN -d ELSE d
        IN \A k \in 0..full : off(Scaled(full, sofar, total)) <= off(k)

\* Figures on both sides of the thresholds.
SomeTotals ==
    {[pv |-> p, uv |-> u, visitors |-> [e \in Events |-> c],
      events |-> [e \in Events |-> n], values |-> [e \in Events |-> x]] :
        p \in {0, 100}, u \in {0, 50}, c \in {4, 10}, n \in {0, 20}, x \in {0, 90000}}

ASSUME StatusTellsAllOfThem ==
    \A current, previous \in SomeTotals, stopped \in BOOLEAN :
        LET issues == Issues(current, previous, stopped, <<"signup">>)
        IN \A shown \in {s \in SUBSET issues : Listed(s, issues)} :
            Status(shown, current, previous) = "critical" <=> \E i \in issues : i.severity = "critical"
=============================================================================
