--------------------------- MODULE FiguresProofs ----------------------------
(***************************************************************************)
(* Theorems about the arithmetic of the reports (Figures): for totals of   *)
(* any size, where a model checker reaches only small ones.                *)
(***************************************************************************)
EXTENDS Figures, Sums

-----------------------------------------------------------------------------
(* Yesterday up to this hour. *)

\* A quotient is a natural number.
LEMMA DivisionIsNat ==
    ASSUME NEW a \in Nat, NEW d \in Nat \ {0}
    PROVE  a \div d \in Nat
BY SMT

\* A larger dividend has no smaller quotient.
LEMMA DivisionGrows ==
    ASSUME NEW a \in Nat, NEW b \in Nat, NEW d \in Nat \ {0}, a <= b
    PROVE  a \div d <= b \div d
BY SMT

\* A quotient times the divisor leaves less than the divisor.
LEMMA DivisionLeaves ==
    ASSUME NEW a \in Nat, NEW d \in Nat \ {0}
    PROVE  d * (a \div d) <= a /\ a < d * (a \div d) + d
BY SMT

\* Products grow with their factors.
LEMMA ProductGrows ==
    ASSUME NEW a \in Nat, NEW b \in Nat, NEW c \in Nat, a <= b
    PROVE  a * c <= b * c /\ c * a <= c * b /\ a * c \in Nat /\ c * a \in Nat
BY SMT

\* The scaled figure is no more than the whole day, and no less when more of the
\* day has passed.
LEMMA ScaledGrows ==
    ASSUME NEW full \in Nat, NEW early \in Nat, NEW later \in Nat, NEW total \in Nat \ {0},
           early <= later
    PROVE  /\ Scaled(full, early, total) \in 0..full
           /\ Scaled(full, early, total) <= Scaled(full, later, total)
<1> DEFINE Dividend(sofar) == 2 * full * sofar + total
<1>1. Dividend(early) \in Nat /\ Dividend(later) \in Nat /\ Dividend(early) <= Dividend(later)
  <2>1. 2 * full \in Nat
    OBVIOUS
  <2>2. /\ (2 * full) * early <= (2 * full) * later
        /\ (2 * full) * early \in Nat /\ (2 * full) * later \in Nat
    BY <2>1, ProductGrows
  <2> QED BY <2>2
<1>2. 2 * total \in Nat \ {0}
  OBVIOUS
<1> HIDE DEF Dividend
<1>3. /\ Dividend(early) \div (2 * total) \in Nat
      /\ Dividend(later) \div (2 * total) \in Nat
      /\ Dividend(early) \div (2 * total) <= Dividend(later) \div (2 * total)
  BY <1>1, <1>2, DivisionIsNat, DivisionGrows
<1> USE DEF Dividend
<1> QED BY <1>3 DEF Scaled

\* What the overview shows of yesterday up to an hour is never more than the whole
\* of yesterday and never falls as the hours pass, up to the last, where the day
\* itself is shown: provided that a day in whose hours visitors were counted has
\* visitors, which one pipeline writes.
THEOREM SamePeriodGrows ==
    ASSUME NEW full \in Nat, NEW early \in Nat, NEW later \in Nat, NEW total \in Nat,
           NEW hour \in Hours, NEW next \in Hours,
           hour <= next, early <= later, later <= total,
           total > 0 => full > 0
    PROVE  /\ Estimate(full, early, total, hour) \in 0..full
           /\ Estimate(full, early, total, hour) <= Estimate(full, later, total, next)
           /\ next = LastHour => Estimate(full, later, total, next) = full
<1> USE FiguresAssumption DEF Hours
<1>1. CASE total = 0
  BY <1>1 DEF Estimate
<1>2. CASE total > 0
  <2>1. /\ Scaled(full, early, total) \in 0..full /\ Scaled(full, later, total) \in 0..full
        /\ Scaled(full, early, total) <= Scaled(full, later, total)
    <3>1. total \in Nat \ {0}
      BY <1>2
    <3>2. Scaled(full, later, total) \in 0..full
      BY <3>1, ScaledGrows
    <3> QED BY <3>1, <3>2, ScaledGrows
  <2> QED BY <1>2, <2>1 DEF Estimate
<1> QED BY <1>1, <1>2

\* The same of the figures of the hours themselves, whatever they are
\* (SamePeriodIsBounded, which TLC evaluates on small ones).
THEOREM SamePeriodOfHours ==
    ASSUME NEW full \in Nat, NEW hourly, \A h \in Hours : hourly[h] \in Nat,
           NEW hour \in Hours, NEW next \in Hours, hour <= next,
           SumOver(hourly, Hours) > 0 => full > 0
    PROVE  /\ SamePeriod(full, hourly, hour) \in 0..full
           /\ SamePeriod(full, hourly, hour) <= SamePeriod(full, hourly, next)
           /\ next = LastHour => SamePeriod(full, hourly, next) = full
<1> USE FiguresAssumption DEF Hours
<1>1. /\ IsFiniteSet(0..next) /\ IsFiniteSet(Hours)
      /\ 0..hour \in SUBSET (0..next) /\ 0..next \in SUBSET Hours
  BY FS_Interval
<1>2. PICK early : early = SumOver(hourly, 0..hour)
  OBVIOUS
<1>3. PICK later : later = SumOver(hourly, 0..next)
  OBVIOUS
<1>4. PICK total : total = SumOver(hourly, Hours)
  OBVIOUS
<1>5. early = SumOf(hourly, 0..hour) /\ later = SumOf(hourly, 0..next) /\ total = SumOf(hourly, Hours)
  BY <1>2, <1>3, <1>4 DEF SumOver, SumOf
<1>6. early \in Nat /\ later \in Nat /\ total \in Nat
  <2>1. /\ IsFiniteSet(0..hour)
        /\ \A h \in 0..hour : hourly[h] \in Nat
        /\ \A h \in 0..next : hourly[h] \in Nat
    BY FS_Interval
  <2> QED BY <1>1, <1>5, <2>1, SumNat
<1>7. early <= later
  <2>1. \A h \in 0..next : hourly[h] \in Nat
    OBVIOUS
  <2> QED BY <1>1, <1>5, <2>1, SumPart
<1>8. later <= total
  BY <1>1, <1>5, SumPart
<1>9. /\ Estimate(full, early, total, hour) \in 0..full
      /\ Estimate(full, early, total, hour) <= Estimate(full, later, total, next)
      /\ next = LastHour => Estimate(full, later, total, next) = full
  <2>1. total > 0 => full > 0
    BY <1>4
  <2> HIDE DEF Hours
  <2> QED BY <1>6, <1>7, <1>8, <2>1, SamePeriodGrows
<1> QED BY <1>2, <1>3, <1>4, <1>9 DEF SamePeriod

\* The scaling rounds to the nearest whole visitor, as math.Round does: no other
\* number is nearer to the share (ScaledIsNearest, which TLC evaluates on small ones).
THEOREM ScalingRounds ==
    ASSUME NEW full \in Nat, NEW total \in Nat \ {0}, NEW sofar \in 0..total, NEW k \in Nat
    PROVE  LET off(n) == LET d == n * total - full * sofar IN IF d < 0 THEN -d ELSE d
           IN off(Scaled(full, sofar, total)) <= off(k)
<1> DEFINE off(n) == LET d == n * total - full * sofar IN IF d < 0 THEN -d ELSE d
<1>1. PICK x \in Nat : x = full * sofar /\ x <= full * total
  <2>1. sofar \in Nat /\ sofar <= total
    OBVIOUS
  <2> QED BY <2>1, ProductGrows
<1>2. PICK q \in Nat : q = (2 * x + total) \div (2 * total)
  <2>1. 2 * x + total \in Nat /\ 2 * total \in Nat \ {0}
    OBVIOUS
  <2> QED BY <2>1, DivisionIsNat
<1>3. 2 * (q * total) <= 2 * x + total /\ 2 * x + total < 2 * (q * total) + 2 * total
  <2>1. PICK a \in Nat : a = 2 * x + total
    OBVIOUS
  <2>2. PICK b \in Nat \ {0} : b = 2 * total
    OBVIOUS
  <2>3. b * (a \div b) <= a /\ a < b * (a \div b) + b
    BY DivisionLeaves
  <2>4. b * (a \div b) = 2 * (q * total)
    BY <1>2, <2>1, <2>2
  <2> QED BY <2>1, <2>2, <2>3, <2>4
<1>4. q <= full
  <2>1. SUFFICES ASSUME full + 1 <= q PROVE FALSE
    OBVIOUS
  <2>2. (full + 1) * total <= q * total
    BY <2>1, ProductGrows
  <2>3. (full + 1) * total = full * total + total
    OBVIOUS
  <2>4. full * total \in Nat /\ q * total \in Nat
    BY ProductGrows
  <2> QED BY <1>1, <1>3, <2>2, <2>3, <2>4
<1>5. Scaled(full, sofar, total) = q
  <2>1. 2 * full * sofar = 2 * x
    BY <1>1
  <2> QED BY <1>2, <1>4, <2>1 DEF Scaled
<1>6. off(q) <= off(k)
  <2>1. PICK m \in Nat : m = q * total
    BY ProductGrows
  <2>2. PICK n \in Nat : n = k * total
    BY ProductGrows
  <2>3. 2 * m <= 2 * x + total /\ 2 * x <= 2 * m + total
    BY <1>3, <2>1
  <2>4. CASE k = q
    BY <2>4
  <2>5. CASE k >= q + 1
    <3>1. (q + 1) * total <= n
      BY <2>2, <2>5, ProductGrows
    <3>2. m + total <= n
      <4>1. (q + 1) * total = q * total + total
        OBVIOUS
      <4> QED BY <2>1, <3>1, <4>1
    <3> QED BY <1>1, <2>1, <2>2, <2>3, <3>2
  <2>6. CASE k + 1 <= q
    <3>1. (k + 1) * total <= m
      BY <2>1, <2>6, ProductGrows
    <3>2. n + total <= m
      <4>1. (k + 1) * total = k * total + total
        OBVIOUS
      <4> QED BY <2>2, <3>1, <4>1
    <3> QED BY <1>1, <2>1, <2>2, <2>3, <3>2
  <2> QED BY <2>4, <2>5, <2>6
<1> QED BY <1>5, <1>6

-----------------------------------------------------------------------------
(* Issues. *)

\* The severities are ordered.
LEMMA Ranks ==
    Rank["none"] = 0 /\ Rank["warning"] = 1 /\ Rank["critical"] = 2
BY DEF Rank

\* The fields of totals.
LEMMA TotalsFields ==
    ASSUME NEW p \in Totals, NEW e \in Events
    PROVE  /\ p.pv \in Nat /\ p.uv \in Nat /\ p.visitors[e] \in Nat
           /\ p.events[e] \in Nat /\ p.values[e] \in Nat
BY DEF Totals

\* A rate is a fraction of natural numbers.
LEMMA RateFields ==
    ASSUME NEW part \in Nat, NEW whole \in Nat
    PROVE  /\ Rate(part, whole).n \in Nat
           /\ Rate(part, whole).d \in Nat \ {0}
BY DEF Rate

\* Of one whole, the larger part has the larger rate.
LEMMA RateGrows ==
    ASSUME NEW small \in Nat, NEW large \in Nat, NEW whole \in Nat, small <= large
    PROVE  /\ Rate(small, whole).n <= Rate(large, whole).n
           /\ Rate(small, whole).d = Rate(large, whole).d
BY DEF Rate

\* With fewer views, a finding about the traffic stays.
LEMMA TrafficKept ==
    ASSUME NEW now \in Totals, NEW worse \in Totals, NEW was \in Totals,
           NEW stopped \in BOOLEAN, NEW since \in BOOLEAN,
           worse.pv <= now.pv, stopped => since
    PROVE  Rank[Traffic(worse, was, since)] >= Rank[Traffic(now, was, stopped)]
<1>1. now.pv \in Nat /\ worse.pv \in Nat /\ was.pv \in Nat
  BY DEF Totals
<1> QED BY <1>1, Ranks DEF Traffic

\* Of two rates with one denominator, the smaller is further below a third.
LEMMA FurtherBelow ==
    ASSUME NEW n \in Nat, NEW m \in Nat, NEW d \in Nat \ {0},
           NEW p \in Nat, NEW q \in Nat \ {0}, NEW x \in Nat, NEW y \in Nat, m <= n
    PROVE  LET before == [n |-> p, d |-> q]
               high == [n |-> n, d |-> d]
               low == [n |-> m, d |-> d]
           IN /\ Above(before, high, x) => Above(before, low, x)
              /\ AtMost(high, y, before) => AtMost(low, y, before)
<1>1. /\ m * q \in Nat /\ n * q \in Nat /\ m * q <= n * q
  BY ProductGrows
<1>2. p * d \in Nat /\ q * d \in Nat
  BY ProductGrows
<1>3. x * (q * d) \in Nat /\ y * (p * d) \in Nat
  BY <1>2, ProductGrows
<1> QED BY <1>1, <1>2, <1>3 DEF Above, AtMost

\* With fewer of the visitors reaching it, a finding about a goal stays.
LEMMA ConversionKept ==
    ASSUME NEW now \in Totals, NEW worse \in Totals, NEW was \in Totals, NEW event \in Events,
           worse.uv = now.uv, worse.visitors[event] <= now.visitors[event]
    PROVE  Rank[Conversion(worse, was, event)] >= Rank[Conversion(now, was, event)]
<1> DEFINE before == Rate(was.visitors[event], was.uv)
           high == Rate(now.visitors[event], now.uv)
           low == Rate(worse.visitors[event], worse.uv)
<1>1. /\ was.visitors[event] \in Nat /\ was.uv \in Nat
      /\ now.visitors[event] \in Nat /\ now.uv \in Nat
      /\ worse.visitors[event] \in Nat
  BY TotalsFields
<1>2. CASE was.uv < 50 \/ was.visitors[event] < 5
  BY <1>2, Ranks DEF Conversion
<1>3. CASE ~(was.uv < 50 \/ was.visitors[event] < 5)
  <2>1. /\ before.n \in Nat /\ before.d \in Nat \ {0}
        /\ high.n \in Nat /\ low.n \in Nat /\ high.d \in Nat \ {0}
        /\ low.n <= high.n /\ low.d = high.d
    <3>1. low = Rate(worse.visitors[event], now.uv)
      OBVIOUS
    <3>2. before.n \in Nat /\ before.d \in Nat \ {0}
      BY <1>1, RateFields
    <3>3. high.n \in Nat /\ high.d \in Nat \ {0}
      BY <1>1, RateFields
    <3>4. low.n \in Nat
      BY <1>1, <3>1, RateFields
    <3>5. low.n <= high.n /\ low.d = high.d
      BY <1>1, <3>1, RateGrows
    <3> QED BY <3>2, <3>3, <3>4, <3>5
  <2>2. /\ before = [n |-> before.n, d |-> before.d]
        /\ high = [n |-> high.n, d |-> high.d]
        /\ low = [n |-> low.n, d |-> high.d]
    BY <2>1 DEF Rate
  <2> HIDE DEF before, high, low
  <2>3. ASSUME NEW x \in Nat, NEW y \in Nat
        PROVE  /\ Above(before, high, x) => Above(before, low, x)
               /\ AtMost(high, y, before) => AtMost(low, y, before)
    <3>1. LET b == [n |-> before.n, d |-> before.d]
              h == [n |-> high.n, d |-> high.d]
              l == [n |-> low.n, d |-> high.d]
          IN /\ Above(b, h, x) => Above(b, l, x)
             /\ AtMost(h, y, b) => AtMost(l, y, b)
      BY <2>1, FurtherBelow
    <3> QED BY <3>1, <2>2
  <2>4. /\ Above(before, high, 2) => Above(before, low, 2)
        /\ Above(before, high, 5) => Above(before, low, 5)
        /\ AtMost(high, 7, before) => AtMost(low, 7, before)
        /\ AtMost(high, 5, before) => AtMost(low, 5, before)
    BY <2>3
  <2> USE DEF before, high, low
  <2> QED BY <1>3, <2>4, Ranks DEF Conversion
<1> QED BY <1>2, <1>3

\* With slower values of the same samples, a finding about a vital stays.
LEMMA PerformanceKept ==
    ASSUME NEW now \in Totals, NEW worse \in Totals, NEW vital \in Vitals,
           worse.events[vital] = now.events[vital],
           worse.values[vital] >= now.values[vital]
    PROVE  Rank[Performance(worse, vital)] >= Rank[Performance(now, vital)]
<1>1. vital \in Events
  BY FiguresAssumption
<1>2. /\ worse.events[vital] \in Nat /\ worse.values[vital] \in Nat /\ now.values[vital] \in Nat
  BY <1>1, TotalsFields
<1>3. Good[vital] \in Nat /\ Poor[vital] \in Nat
  BY DEF Good, Poor, Vitals
<1>4. Good[vital] * worse.events[vital] \in Nat /\ Poor[vital] * worse.events[vital] \in Nat
  BY <1>2, <1>3, ProductGrows
<1> QED BY <1>2, <1>4, Ranks DEF Performance, Rating

\* With more of the visitors meeting it, a finding about an error stays.
LEMMA FailingKept ==
    ASSUME NEW now \in Totals, NEW worse \in Totals, NEW error \in Errors,
           worse.uv = now.uv, worse.visitors[error] >= now.visitors[error]
    PROVE  Rank[Failing(worse, error)] >= Rank[Failing(now, error)]
<1> DEFINE low == Rate(now.visitors[error], now.uv)
           high == Rate(worse.visitors[error], worse.uv)
           nothing == Rate(0, 0)
<1>1. error \in Events
  BY FiguresAssumption
<1>2. /\ worse.visitors[error] \in Nat /\ now.visitors[error] \in Nat /\ now.uv \in Nat
  BY <1>1, TotalsFields
<1>3. /\ low.n \in Nat /\ high.n \in Nat /\ high.d \in Nat \ {0}
      /\ low.n <= high.n /\ low.d = high.d
  <2>1. high = Rate(worse.visitors[error], now.uv)
    OBVIOUS
  <2>2. low.n \in Nat
    BY <1>2, RateFields
  <2>3. high.n \in Nat /\ high.d \in Nat \ {0}
    BY <1>2, <2>1, RateFields
  <2>4. low.n <= high.n /\ low.d = high.d
    BY <1>2, <2>1, RateGrows
  <2> QED BY <2>2, <2>3, <2>4
<1>4. nothing = [n |-> 0, d |-> 1]
  BY DEF Rate
<1> HIDE DEF low, high, nothing
<1>5. ASSUME NEW x \in Nat
      PROVE  Above(low, nothing, x) => Above(high, nothing, x)
  BY <1>3, <1>4 DEF Above
<1>6. /\ Above(low, nothing, 5) => Above(high, nothing, 5)
      /\ Above(low, nothing, 20) => Above(high, nothing, 20)
  BY <1>5
<1> USE DEF low, high, nothing
<1> QED BY <1>2, <1>6, Ranks DEF Failing

\* The period got worse: fewer views, fewer visitors at the goals and more at the
\* errors, slower pages.
Worse(now, worse, goals) ==
    /\ worse.uv = now.uv /\ worse.pv <= now.pv
    /\ \A g \in DOMAIN goals : worse.visitors[goals[g]] <= now.visitors[goals[g]]
    /\ \A v \in Vitals : worse.events[v] = now.events[v] /\ worse.values[v] >= now.values[v]
    /\ \A e \in Errors : worse.visitors[e] >= now.visitors[e]

\* Worse figures never make a problem disappear from the report or look less severe:
\* the thresholds of buildIssueReport, which join absolute and relative conditions
\* with different directions, leave no gap.
THEOREM WorseKeepsIssues ==
    ASSUME NEW now \in Totals, NEW worse \in Totals, NEW was \in Totals,
           NEW stopped \in BOOLEAN, NEW since \in BOOLEAN, stopped => since,
           NEW goals, \A g \in DOMAIN goals : goals[g] \in Events,
           Worse(now, worse, goals)
    PROVE  \A f \in Findings(now, was, stopped, goals) :
             \E f2 \in Findings(worse, was, since, goals) :
                f2.about = f.about /\ Rank[f2.severity] >= Rank[f.severity]
<1> SUFFICES ASSUME NEW f \in Findings(now, was, stopped, goals)
             PROVE  \E f2 \in Findings(worse, was, since, goals) :
                      f2.about = f.about /\ Rank[f2.severity] >= Rank[f.severity]
  OBVIOUS
<1>1. CASE f = [about |-> <<"traffic", "">>, severity |-> Traffic(now, was, stopped)]
  <2> DEFINE f2 == [about |-> <<"traffic", "">>, severity |-> Traffic(worse, was, since)]
  <2>1. f2 \in Findings(worse, was, since, goals)
    BY DEF Findings
  <2>2. Rank[f2.severity] >= Rank[f.severity]
    BY <1>1, TrafficKept DEF Worse
  <2> QED BY <1>1, <2>1, <2>2
<1>2. ASSUME NEW g \in DOMAIN goals,
             f = [about |-> <<"goal", g>>, severity |-> Conversion(now, was, goals[g])]
      PROVE  \E f2 \in Findings(worse, was, since, goals) :
               f2.about = f.about /\ Rank[f2.severity] >= Rank[f.severity]
  <2> DEFINE f2 == [about |-> <<"goal", g>>, severity |-> Conversion(worse, was, goals[g])]
  <2>1. f2 \in Findings(worse, was, since, goals)
    BY DEF Findings
  <2>2. Rank[f2.severity] >= Rank[f.severity]
    BY <1>2, ConversionKept DEF Worse
  <2> QED BY <1>2, <2>1, <2>2
<1>3. ASSUME NEW v \in Vitals,
             f = [about |-> <<"vital", v>>, severity |-> Performance(now, v)]
      PROVE  \E f2 \in Findings(worse, was, since, goals) :
               f2.about = f.about /\ Rank[f2.severity] >= Rank[f.severity]
  <2> DEFINE f2 == [about |-> <<"vital", v>>, severity |-> Performance(worse, v)]
  <2>1. f2 \in Findings(worse, was, since, goals)
    BY DEF Findings
  <2>2. Rank[f2.severity] >= Rank[f.severity]
    BY <1>3, PerformanceKept DEF Worse
  <2> QED BY <1>3, <2>1, <2>2
<1>4. ASSUME NEW e \in Errors,
             f = [about |-> <<"error", e>>, severity |-> Failing(now, e)]
      PROVE  \E f2 \in Findings(worse, was, since, goals) :
               f2.about = f.about /\ Rank[f2.severity] >= Rank[f.severity]
  <2> DEFINE f2 == [about |-> <<"error", e>>, severity |-> Failing(worse, e)]
  <2>1. f2 \in Findings(worse, was, since, goals)
    BY DEF Findings
  <2>2. Rank[f2.severity] >= Rank[f.severity]
    BY <1>4, FailingKept DEF Worse
  <2> QED BY <1>4, <2>1, <2>2
<1> QED BY <1>1, <1>2, <1>3, <1>4 DEF Findings

\* The values of a function on a finite set are finitely many.
LEMMA ValuesAreFinite ==
    ASSUME NEW S, IsFiniteSet(S), NEW T, NEW f \in [S -> T]
    PROVE  IsFiniteSet({f[x] : x \in S})
<1>1. f \in Surjection(S, {f[x] : x \in S})
  BY DEF Surjection
<1> QED BY <1>1, FS_Surjection

\* The findings are finitely many.
LEMMA IssuesAreFinite ==
    ASSUME NEW now, NEW was, NEW stopped, NEW goals, IsFiniteSet(DOMAIN goals)
    PROVE  IsFiniteSet(Issues(now, was, stopped, goals))
<1> DEFINE G == [g \in DOMAIN goals |-> [about |-> <<"goal", g>>,
                                         severity |-> Conversion(now, was, goals[g])]]
           V == [v \in Vitals |-> [about |-> <<"vital", v>>, severity |-> Performance(now, v)]]
           E == [e \in Errors |-> [about |-> <<"error", e>>, severity |-> Failing(now, e)]]
           T == [about |-> <<"traffic", "">>, severity |-> Traffic(now, was, stopped)]
<1> HIDE DEF T
<1>1. IsFiniteSet({T})
  BY FS_Singleton
<1>2. IsFiniteSet({G[g] : g \in DOMAIN goals})
  <2>1. G \in [DOMAIN goals -> {G[g] : g \in DOMAIN goals}]
    OBVIOUS
  <2> HIDE DEF G
  <2> QED BY <2>1, ValuesAreFinite
<1>3. IsFiniteSet({V[v] : v \in Vitals})
  <2>1. V \in [Vitals -> {V[v] : v \in Vitals}]
    OBVIOUS
  <2>2. IsFiniteSet(({"lcp"} \cup {"inp"}) \cup {"cls"})
    <3>1. IsFiniteSet({"lcp"}) /\ IsFiniteSet({"inp"}) /\ IsFiniteSet({"cls"})
      BY FS_Singleton
    <3>2. IsFiniteSet({"lcp"} \cup {"inp"})
      BY <3>1, FS_Union
    <3> QED BY <3>1, <3>2, FS_Union
  <2>3. Vitals = ({"lcp"} \cup {"inp"}) \cup {"cls"}
    BY DEF Vitals
  <2>4. IsFiniteSet(Vitals)
    BY <2>2, <2>3
  <2> HIDE DEF V
  <2> QED BY <2>1, <2>4, ValuesAreFinite
<1>4. IsFiniteSet({E[e] : e \in Errors})
  <2>1. E \in [Errors -> {E[e] : e \in Errors}]
    OBVIOUS
  <2>2. IsFiniteSet({"js_error"} \cup {"resource_error"})
    <3>1. IsFiniteSet({"js_error"}) /\ IsFiniteSet({"resource_error"})
      BY FS_Singleton
    <3> QED BY <3>1, FS_Union
  <2>3. Errors = {"js_error"} \cup {"resource_error"}
    BY DEF Errors
  <2>4. IsFiniteSet(Errors)
    BY <2>2, <2>3
  <2> HIDE DEF E
  <2> QED BY <2>1, <2>4, ValuesAreFinite
<1>5. Findings(now, was, stopped, goals) =
        (({T} \cup {G[g] : g \in DOMAIN goals}) \cup {V[v] : v \in Vitals}) \cup {E[e] : e \in Errors}
  BY DEF Findings, T
<1> HIDE DEF G, V, E
<1>6. IsFiniteSet({T} \cup {G[g] : g \in DOMAIN goals})
  BY <1>1, <1>2, FS_Union
<1>7. IsFiniteSet(({T} \cup {G[g] : g \in DOMAIN goals}) \cup {V[v] : v \in Vitals})
  BY <1>3, <1>6, FS_Union
<1>8. IsFiniteSet(Findings(now, was, stopped, goals))
  <2>1. IsFiniteSet((({T} \cup {G[g] : g \in DOMAIN goals}) \cup {V[v] : v \in Vitals})
                     \cup {E[e] : e \in Errors})
    BY <1>4, <1>7, FS_Union
  <2> QED BY <1>5, <2>1
<1>9. Issues(now, was, stopped, goals) \in SUBSET Findings(now, was, stopped, goals)
  BY DEF Issues
<1> QED BY <1>8, <1>9, FS_Subset

\* The status of the report tells of every problem found, of those too that are cut
\* off after the first ten: it is critical exactly when one was, and neither healthy
\* nor short of data when there was any.
THEOREM StatusTellsAll ==
    ASSUME NEW now, NEW was, NEW stopped, NEW goals, IsFiniteSet(DOMAIN goals),
           NEW shown, Listed(shown, Issues(now, was, stopped, goals))
    PROVE  LET issues == Issues(now, was, stopped, goals)
           IN /\ Status(shown, now, was) = "critical" <=> \E i \in issues : i.severity = "critical"
              /\ Status(shown, now, was) \in {"healthy", "insufficient_data"} <=> issues = {}
<1> DEFINE issues == Issues(now, was, stopped, goals)
<1>1. IsFiniteSet(issues)
  BY IssuesAreFinite
<1>2. \A i \in issues : i.severity \in {"warning", "critical"}
  <2>1. ASSUME NEW f \in Findings(now, was, stopped, goals)
        PROVE  f.severity \in {"none", "warning", "critical"}
    <3>1. Traffic(now, was, stopped) \in {"none", "warning", "critical"}
      BY DEF Traffic
    <3>2. \A e : Conversion(now, was, e) \in {"none", "warning", "critical"}
      BY DEF Conversion
    <3>3. \A v : Performance(now, v) \in {"none", "warning", "critical"}
      BY DEF Performance
    <3>4. \A e : Failing(now, e) \in {"none", "warning", "critical"}
      BY DEF Failing
    <3>5. CASE f = [about |-> <<"traffic", "">>, severity |-> Traffic(now, was, stopped)]
      BY <3>1, <3>5
    <3>6. ASSUME NEW g \in DOMAIN goals,
                 f = [about |-> <<"goal", g>>, severity |-> Conversion(now, was, goals[g])]
          PROVE  f.severity \in {"none", "warning", "critical"}
      BY <3>2, <3>6
    <3>7. ASSUME NEW v \in Vitals,
                 f = [about |-> <<"vital", v>>, severity |-> Performance(now, v)]
          PROVE  f.severity \in {"none", "warning", "critical"}
      BY <3>3, <3>7
    <3>8. ASSUME NEW e \in Errors,
                 f = [about |-> <<"error", e>>, severity |-> Failing(now, e)]
          PROVE  f.severity \in {"none", "warning", "critical"}
      BY <3>4, <3>8
    <3> HIDE DEF issues
    <3> QED BY <3>5, <3>6, <3>7, <3>8 DEF Findings
  <2> QED BY <2>1 DEF Issues
<1>3. /\ shown \subseteq issues
      /\ Cardinality(issues) <= MaxShown => shown = issues
      /\ Cardinality(issues) > MaxShown => Cardinality(shown) = MaxShown
      /\ \A i \in shown, j \in issues \ shown : Rank[i.severity] >= Rank[j.severity]
  BY DEF Listed
<1> HIDE DEF issues
<1>4. issues # {} => shown # {}
  <2>1. CASE Cardinality(issues) <= MaxShown
    BY <1>3, <2>1
  <2>2. CASE ~(Cardinality(issues) <= MaxShown)
    <3>1. Cardinality(issues) \in Nat
      BY <1>1, FS_CardinalityType
    <3>2. Cardinality(shown) = MaxShown
      BY <1>3, <2>2, <3>1, FiguresAssumption
    <3>3. Cardinality({}) = 0
      BY FS_EmptySet
    <3> QED BY <3>2, <3>3, FiguresAssumption
  <2> QED BY <2>1, <2>2
<1>5. ASSUME NEW j \in issues, j.severity = "critical"
      PROVE  \E i \in shown : i.severity = "critical"
  <2>1. CASE j \in shown
    BY <1>5, <2>1
  <2>2. CASE j \notin shown
    <3>1. PICK i \in shown : TRUE
      BY <1>4
    <3>2. Rank[i.severity] >= 2
      BY <1>3, <1>5, <2>2, Ranks
    <3>3. i.severity \in {"warning", "critical"}
      BY <1>2, <1>3
    <3> QED BY <3>2, <3>3, Ranks
  <2> QED BY <2>1, <2>2
<1>6. (\E i \in shown : i.severity = "critical") <=> (\E i \in issues : i.severity = "critical")
  BY <1>3, <1>5
<1>7. shown = {} <=> issues = {}
  BY <1>3, <1>4
<1> QED BY <1>6, <1>7 DEF Status, issues

\* A site that had 20 views in the period before and has none in this one is reported
\* as critical, though only the day of the last view and the views of the period
\* before are looked at: no period is so short that its last day could be the day
\* before this one.
THEOREM SilenceIsReported ==
    ASSUME NEW now \in Totals, NEW was \in Totals, NEW goals, IsFiniteSet(DOMAIN goals),
           NEW today \in Int, NEW days \in Nat, days >= 2,
           NEW views \in [today - 2 * days + 1..today -> Nat],
           \A d \in today - days + 1..today : views[d] = 0,
           was.pv >= 20,
           NEW shown, Listed(shown, Issues(now, was, Stopped(views, today), goals))
    PROVE  Status(shown, now, was) = "critical"
<1>1. Stopped(views, today)
  <2> SUFFICES ASSUME NEW d \in today - 2 * days + 1..today, views[d] > 0
               PROVE  today - d >= 2
    BY DEF Stopped
  <2>1. d \notin today - days + 1..today
    OBVIOUS
  <2> QED BY <2>1
<1> DEFINE f == [about |-> <<"traffic", "">>, severity |-> Traffic(now, was, Stopped(views, today))]
<1>2. f.severity = "critical"
  BY <1>1 DEF Traffic
<1>3. f \in Issues(now, was, Stopped(views, today), goals)
  BY <1>2 DEF Issues, Findings
<1> QED BY <1>2, <1>3, StatusTellsAll

\* What the events report rates as poor the issue report of the same period calls
\* critical, when there are 20 samples of everything that was measured: one has a
\* status of its own, the other a list.
THEOREM PoorIsCritical ==
    ASSUME NEW now \in Totals, NEW was, NEW stopped, NEW goals, IsFiniteSet(DOMAIN goals),
           WebQuality(now) = "poor",
           \A v \in Measured(now) : now.events[v] >= 20,
           NEW shown, Listed(shown, Issues(now, was, stopped, goals))
    PROVE  Status(shown, now, was) = "critical"
<1>1. /\ QualityRank["no_data"] = 0 /\ QualityRank["good"] = 1
      /\ QualityRank["needs_improvement"] = 2 /\ QualityRank["poor"] = 3
  BY DEF QualityRank
<1>2. Ratings(now) \subseteq {"no_data", "good", "needs_improvement", "poor"} /\ "no_data" \in Ratings(now)
  BY DEF Ratings, Rating
<1>3. \E r \in Ratings(now) : \A q \in Ratings(now) : QualityRank[q] <= QualityRank[r]
  <2>1. CASE "poor" \in Ratings(now)
    BY <1>1, <1>2, <2>1
  <2>2. CASE "poor" \notin Ratings(now) /\ "needs_improvement" \in Ratings(now)
    BY <1>1, <1>2, <2>2
  <2>3. CASE "poor" \notin Ratings(now) /\ "needs_improvement" \notin Ratings(now) /\ "good" \in Ratings(now)
    BY <1>1, <1>2, <2>3
  <2>4. CASE "poor" \notin Ratings(now) /\ "needs_improvement" \notin Ratings(now) /\ "good" \notin Ratings(now)
    BY <1>1, <1>2, <2>4
  <2> QED BY <2>1, <2>2, <2>3, <2>4
<1>4. "poor" \in Ratings(now)
  BY <1>3 DEF WebQuality
<1>5. PICK v \in Measured(now) : Rating(v, now) = "poor"
  BY <1>4 DEF Ratings
<1> DEFINE f == [about |-> <<"vital", v>>, severity |-> Performance(now, v)]
<1>6. f.severity = "critical"
  <2>1. v \in Vitals /\ now.events[v] >= 20
    BY DEF Measured
  <2>2. now.events[v] \in Nat
    BY <2>1, FiguresAssumption, TotalsFields
  <2>3. Rating(v, now) # "good"
    BY <1>5
  <2> QED BY <1>5, <2>1, <2>2, <2>3 DEF Performance
<1>7. f \in Issues(now, was, stopped, goals)
  BY <1>6 DEF Issues, Findings, Measured
<1> QED BY <1>6, <1>7, StatusTellsAll
=============================================================================
