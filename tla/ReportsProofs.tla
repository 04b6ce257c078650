--------------------------- MODULE ReportsProofs ---------------------------
(***************************************************************************)
(* Proofs about DailyFlush and Reports, for any visitors, pages, workers,  *)
(* syncs, readers, lengths of a report, faults and length of the two days, *)
(* and any places where others' commands come into a pipeline.             *)
(*                                                                         *)
(*   DailyTypeCorrect     the shape of rounds and rows, and the lock       *)
(*   VisitsCorrect        the visits of a stored day never go back         *)
(*   CountsCorrect        nor do the overwritten columns, while rounds do  *)
(*                        not overlap and Redis keeps its data             *)
(*   RowsCorrect          the session columns of a row come from one       *)
(*                        reading, whose visits were read before their     *)
(*                        pages; uses what SessionsProofs proves of the    *)
(*                        keys                                             *)
(*   ReportsBetweenReadings   a day of a report lies between the views its *)
(*                        keys had and the most they ever had              *)
(*   AnalysisCorrect      an analysis adds no view twice                   *)
(*   QualityReportCorrect a session report has pages for all its visits,   *)
(*                        and no more visits than its days had             *)
(***************************************************************************)
EXTENDS Reports, SessionsProofs, SequenceTheorems

(* What the proofs need to know of the records. *)

Columns == {"pv", "uv", "sessions", "bounces", "duration", "pageviews", "entrances", "exits",
            "flows", "segments"}

IsDay(x) == /\ DOMAIN x = Columns
            /\ x.pv \in Nat /\ IsFiniteSet(x.uv)
            /\ x.sessions \in Nat /\ x.pageviews \in Nat

IsCounts(x) == x.pv \in Nat /\ x.uv \in Nat

IsVisits(x) == DOMAIN x = Quality /\ x.sessions \in Nat /\ x.pageviews \in Nat

IsStats(x) == /\ DOMAIN x = {"done", "counts", "visits"} /\ x.done \in 0..Last
              /\ IsCounts(x.counts) /\ IsVisits(x.visits)

IsRound(x) == /\ DOMAIN x = {"stage", "dates", "stats"}
              /\ x.stage \in {"idle", "read", "write"}
              /\ x.dates \in Seq(Dates) /\ (x.stage # "idle" => x.dates # <<>>)
              /\ IsStats(x.stats)
              /\ x.stage = "read" => x.stats.done < Last
              /\ x.stage = "write" => x.stats.done = Last

DaysOK == DOMAIN day = Dates /\ \A d \in Dates : IsDay(day[d])
RowsOK == DOMAIN row = Dates /\ \A d \in Dates : IsCounts(row[d].counts) /\ IsVisits(row[d].visits)
RoundsOK == DOMAIN round = Flushers /\ \A w \in Flushers : IsRound(round[w])

\* The holder of the lock is in a round.
LockOK ==
    /\ leader \in Workers \cup {Nobody}
    /\ \A w \in Workers : leader = w => Busy(w)

MostOK == \A d \in Dates : most[d] \in Nat /\ day[d].sessions <= most[d]

RoundsInv == DaysOK /\ RowsOK /\ RoundsOK /\ LockOK /\ MostOK /\ spent \subseteq Syncs /\ cut \subseteq Dates

\* Unless one ran beside another without the lock, a round is alone.
Alone == ~overlapped => \A w, x \in Flushers : Busy(w) /\ Busy(x) => w = x

AtMost(x, y) == x.pv <= y.pv /\ x.uv <= y.uv

\* What a reading has of the counts lies between two others.
Between(x, s, y) ==
    /\ s.done >= Place["pv"] => x.pv <= s.counts.pv /\ s.counts.pv <= y.pv
    /\ s.done >= Place["uv"] => x.uv <= s.counts.uv /\ s.counts.uv <= y.uv

\* A row is at most what a round has read of its day, and that at most what the
\* keys hold.
RowBehind(d) ==
    /\ AtMost(row[d].counts, Counts(d))
    /\ \A w \in Flushers : Busy(w) /\ Head(round[w].dates) = d
                             => Between(row[d].counts, round[w].stats, Counts(d))

OrderInv == Alone /\ (~lost /\ ~overlapped => \A d \in Dates : RowBehind(d))

-----------------------------------------------------------------------------
(* Records. *)

LEMMA NoDayShape == IsDay(EmptyDay) /\ EmptyDay.sessions = 0
BY FS_EmptySet DEF IsDay, EmptyDay, Columns

LEMMA NothingRead ==
  /\ IsCounts(NoCounts) /\ IsVisits(NoVisits) /\ IsStats(NoStats)
  /\ NoStats.done = 0 /\ NoStats.counts = NoCounts /\ NoStats.visits = NoVisits
<1>1. IsVisits(NoVisits)
  BY DEF IsVisits, NoVisits, EmptyDay, Quality
<1>2. IsCounts(NoCounts)
  BY DEF IsCounts, NoCounts
<1> QED BY <1>1, <1>2 DEF IsStats, NoStats, Last

LEMMA RestingShape == IsRound(Resting) /\ Resting.stage = "idle"
<1>1. <<>> \in Seq(Dates)
  BY EmptySeq
<1>2. IsStats(NoStats)
  BY NothingRead
<1> QED BY <1>1, <1>2 DEF IsRound, Resting

\* A round may take up any list of days.
LEMMA ReadingShape ==
  ASSUME NEW ds \in Seq(Dates), ds # <<>>
  PROVE  IsRound(Reading(ds)) /\ Reading(ds).stage = "read" /\ Reading(ds).stats = NoStats
<1>1. IsStats(NoStats) /\ NoStats.done = 0
  BY NothingRead
<1> QED BY <1>1 DEF IsRound, Reading, Last

LEMMA ReadShape ==
  ASSUME DaysOK, NEW d \in Dates
  PROVE  /\ IsCounts(Counts(d))
         /\ Counts(d).pv = day[d].pv /\ Counts(d).uv = Cardinality(day[d].uv)
         /\ day[d].sessions \in Nat /\ day[d].pageviews \in Nat
<1>1. Cardinality(day[d].uv) \in Nat
  BY FS_CardinalityType DEF DaysOK, IsDay
<1> QED BY <1>1 DEF DaysOK, IsDay, IsCounts, Counts

LEMMA PlacesAre ==
  /\ Last = 10
  /\ Place["pv"] = 1 /\ Place["uv"] = 2 /\ Place["sessions"] = 3 /\ Place["bounces"] = 4
  /\ Place["duration"] = 5 /\ Place["pageviews"] = 6 /\ Place["entrances"] = 7
  /\ Place["exits"] = 8 /\ Place["flows"] = 9 /\ Place["segments"] = 10
<1>1. Place["pv"] = 1 /\ Place["uv"] = 2 /\ Place["sessions"] = 3 /\ Place["bounces"] = 4
  BY DEF Place
<1>2. Place["duration"] = 5 /\ Place["pageviews"] = 6 /\ Place["entrances"] = 7
  BY DEF Place
<1>3. Place["exits"] = 8 /\ Place["flows"] = 9 /\ Place["segments"] = 10
  BY DEF Place
<1> QED BY <1>1, <1>2, <1>3 DEF Last

\* What more commands of a pipeline answer, figure by figure.
LEMMA AnswersAre ==
  ASSUME NEW x, NEW d, NEW n, NEW y, y = Answers(x, d, n)
  PROVE  /\ DOMAIN y = {"done", "counts", "visits"} /\ y.done = n
         /\ DOMAIN y.visits = Quality
         /\ y.counts.pv = IF x.done < Place["pv"] /\ Place["pv"] <= n
                          THEN Counts(d).pv ELSE x.counts.pv
         /\ y.counts.uv = IF x.done < Place["uv"] /\ Place["uv"] <= n
                          THEN Counts(d).uv ELSE x.counts.uv
         /\ \A f \in Quality : y.visits[f] = IF x.done < Place[f] /\ Place[f] <= n
                                             THEN day[d][f] ELSE x.visits[f]
<1> DEFINE Now(f) == x.done < Place[f] /\ Place[f] <= n
<1>1. y.done = n /\ DOMAIN y = {"done", "counts", "visits"}
  BY DEF Answers
<1>2. y.counts = [f \in DOMAIN NoCounts |-> IF Now(f) THEN Counts(d)[f] ELSE x.counts[f]]
  BY DEF Answers
<1>3. y.visits = [f \in Quality |-> IF Now(f) THEN day[d][f] ELSE x.visits[f]]
  BY DEF Answers
<1> HIDE DEF Now
<1>4. y.counts.pv = (IF Now("pv") THEN Counts(d).pv ELSE x.counts.pv)
      /\ y.counts.uv = IF Now("uv") THEN Counts(d).uv ELSE x.counts.uv
  BY <1>2 DEF NoCounts
<1>5. \A f \in Quality : y.visits[f] = IF Now(f) THEN day[d][f] ELSE x.visits[f]
  BY <1>3
<1>6. DOMAIN y.visits = Quality
  BY <1>3
<1> QED BY <1>1, <1>4, <1>5, <1>6 DEF Now

LEMMA AnswersShape ==
  ASSUME DaysOK, NEW d \in Dates, NEW x, IsStats(x), NEW n \in 1..Last
  PROVE  IsStats(Answers(x, d, n)) /\ Answers(x, d, n).done = n
<1>1. PICK y : y = Answers(x, d, n)
  OBVIOUS
<1>2. IsCounts(Counts(d)) /\ day[d].sessions \in Nat /\ day[d].pageviews \in Nat
  BY ReadShape
<1>3. /\ DOMAIN y = {"done", "counts", "visits"} /\ y.done = n /\ DOMAIN y.visits = Quality
      /\ y.counts.pv = Counts(d).pv \/ y.counts.pv = x.counts.pv
      /\ y.counts.uv = Counts(d).uv \/ y.counts.uv = x.counts.uv
      /\ \A f \in Quality : y.visits[f] = day[d][f] \/ y.visits[f] = x.visits[f]
  BY <1>1, AnswersAre
<1>4. IsCounts(y.counts)
  BY <1>2, <1>3 DEF IsStats, IsCounts
<1>5. IsVisits(y.visits)
  BY <1>2, <1>3 DEF IsStats, IsVisits, Quality
<1>6. n \in 0..Last
  BY PlacesAre
<1> QED BY <1>1, <1>3, <1>4, <1>5, <1>6 DEF IsStats

LEMMA MergeShape ==
  ASSUME NEW x, NEW y, IsVisits(x), IsVisits(y)
  PROVE  IsVisits(Merge(x, y))
BY DEF IsVisits, Merge, Quality

\* The CASEs never choose the older of two readings.
LEMMA MergeNotOlder ==
  ASSUME NEW x, NEW y, IsVisits(x), IsVisits(y)
  PROVE  \/ Merge(x, y).sessions > x.sessions
         \/ Merge(x, y).sessions = x.sessions /\ Merge(x, y).pageviews >= x.pageviews
BY DEF IsVisits, Merge, Newer, Quality

-----------------------------------------------------------------------------
(* Page views only add to a day. *)

LEMMA VisitShape ==
  ASSUME NEW x, NEW h, NEW s, IsDay(x)
  PROVE  /\ IsDay(OpenVisit(x, h)) /\ OpenVisit(x, h).pv = x.pv /\ OpenVisit(x, h).uv = x.uv
         /\ x.sessions <= OpenVisit(x, h).sessions /\ x.pageviews <= OpenVisit(x, h).pageviews
         /\ IsDay(ContinueVisit(x, h, s)) /\ ContinueVisit(x, h, s).pv = x.pv
         /\ ContinueVisit(x, h, s).uv = x.uv
         /\ x.sessions <= ContinueVisit(x, h, s).sessions
         /\ x.pageviews <= ContinueVisit(x, h, s).pageviews
<1>1. /\ IsDay(OpenVisit(x, h)) /\ OpenVisit(x, h).pv = x.pv /\ OpenVisit(x, h).uv = x.uv
      /\ x.sessions <= OpenVisit(x, h).sessions /\ x.pageviews <= OpenVisit(x, h).pageviews
  BY DEF IsDay, OpenVisit, Columns
<1>2. /\ IsDay(ContinueVisit(x, h, s)) /\ ContinueVisit(x, h, s).pv = x.pv
      /\ ContinueVisit(x, h, s).uv = x.uv
      /\ x.sessions <= ContinueVisit(x, h, s).sessions
      /\ x.pageviews <= ContinueVisit(x, h, s).pageviews
  BY DEF IsDay, ContinueVisit, Columns
<1> QED BY <1>1, <1>2

\* A day y of the keys has all that x has, and perhaps more.
NoLess(y, x) ==
    /\ x.pv <= y.pv /\ Cardinality(x.uv) <= Cardinality(y.uv)
    /\ x.sessions <= y.sessions /\ x.pageviews <= y.pageviews

KeysGrow == \A d \in Dates : NoLess(day'[d], day[d])

LEMMA SameIsNoLess ==
  ASSUME NEW x, IsDay(x)
  PROVE  NoLess(x, x)
<1>1. Cardinality(x.uv) \in Nat
  BY FS_CardinalityType DEF IsDay
<1> QED BY <1>1 DEF IsDay, NoLess

LEMMA TrackGrows ==
  ASSUME DaysOK, Track \/ Tick
  PROVE  DaysOK' /\ KeysGrow
<1>1. CASE UNCHANGED day
  BY <1>1, SameIsNoLess DEF DaysOK, KeysGrow
<1>2. ASSUME NEW k \in Trackers, Count(k)
      PROVE  DaysOK' /\ KeysGrow
  <2>1. PICK e \in Dates : e = DateOf(hit[k].at)
    BY DateType
  <2> DEFINE more == IF hit[k].exact THEN day[e].uv \cup {hit[k].who} ELSE day[e].uv
  <2>2. day' = [day EXCEPT ![e] = [day[e] EXCEPT !.pv = day[e].pv + 1, !.uv = more]]
    BY <1>2, <2>1 DEF Count, DaysOK
  <2>3. IsFiniteSet(day[e].uv)
    BY <2>1 DEF DaysOK, IsDay
  <2>4. IsFiniteSet(more) /\ Cardinality(day[e].uv) <= Cardinality(more)
        /\ Cardinality(day[e].uv) \in Nat
    <3>1. IsFiniteSet(more)
      BY <2>3, FS_AddElement
    <3>2. day[e].uv \subseteq more
      OBVIOUS
    <3> QED BY <2>3, <3>1, <3>2, FS_Subset, FS_CardinalityType
  <2> HIDE DEF more
  <2>5. /\ DOMAIN day' = Dates /\ IsDay(day'[e])
        /\ day'[e].pv = day[e].pv + 1 /\ day'[e].uv = more
        /\ day'[e].sessions = day[e].sessions /\ day'[e].pageviews = day[e].pageviews
    BY <2>1, <2>2, <2>4 DEF DaysOK, IsDay, Columns
  <2>6. \A d \in Dates : d # e => day'[d] = day[d]
    BY <2>1, <2>2 DEF DaysOK
  <2>7. DaysOK'
    BY <2>5, <2>6 DEF DaysOK
  <2>8. NoLess(day'[e], day[e])
    BY <2>1, <2>4, <2>5 DEF NoLess, DaysOK, IsDay
  <2>9. \A d \in Dates : d # e => NoLess(day'[d], day[d])
    BY <2>6, SameIsNoLess DEF DaysOK
  <2> QED BY <2>7, <2>8, <2>9 DEF KeysGrow
<1>3. ASSUME NEW k \in Trackers, Update(k)
      PROVE  DaysOK' /\ KeysGrow
  <2>1. PICK e \in Dates : e = DateOf(hit[k].at)
    BY DateType
  <2> DEFINE s == Stored(hit[k].who)
             x == IF IsNew(hit[k], s) THEN OpenVisit(day[e], hit[k])
                                      ELSE ContinueVisit(day[e], hit[k], s)
  <2>2. UNCHANGED day \/ day' = [day EXCEPT ![e] = x]
    BY <1>3, <2>1 DEF Update
  <2>3. /\ IsDay(x) /\ x.pv = day[e].pv /\ x.uv = day[e].uv
        /\ day[e].sessions <= x.sessions /\ day[e].pageviews <= x.pageviews
    BY <2>1, VisitShape DEF DaysOK
  <2> HIDE DEF x, s
  <2>4. NoLess(x, day[e])
    <3>1. NoLess(day[e], day[e])
      BY <2>1, SameIsNoLess DEF DaysOK
    <3> QED BY <2>3, <3>1 DEF NoLess
  <2>5. \A d \in Dates : IsDay(day'[d]) /\ (day'[d] = day[d] \/ (d = e /\ day'[d] = x))
    BY <2>1, <2>2, <2>3 DEF DaysOK
  <2>6. DaysOK'
    BY <2>2, <2>5 DEF DaysOK
  <2>7. KeysGrow
    BY <2>4, <2>5, SameIsNoLess DEF KeysGrow, DaysOK
  <2> QED BY <2>6, <2>7
<1> QED BY <1>1, <1>2, <1>3 DEF Track, Tick, Begin, Reserve, ReserveFails, Abandon

-----------------------------------------------------------------------------
(* Rounds and the lock. *)

LEMMA Moved ==
  ASSUME RoundsOK, NEW w \in Flushers, NEW r, IsRound(r), round' = [round EXCEPT ![w] = r]
  PROVE  /\ RoundsOK' /\ round'[w] = r
         /\ \A x \in Flushers : x # w => round'[x] = round[x]
BY DEF RoundsOK

\* The step of a round, by what it does to the round: it reads on, ends a day without a
\* row, or is one of the actions that do more.
Reads(w, n, s) ==
    /\ round[w].stage = "read" /\ round[w].stats.done < n /\ n \in 1..Last
    /\ s \in {"read", "write"} /\ (s = "write" <=> n = Last)
    /\ round' = [round EXCEPT ![w] = [round[w] EXCEPT !.stage = s,
                      !.stats = Answers(round[w].stats, Head(round[w].dates), n)]]
    /\ UNCHANGED <<vars, row, leader, spent, lost, overlapped, cut, most>>

Skips(w) == Busy(w) /\ NextDay(w) /\ UNCHANGED <<day, row, spent, lost, overlapped, cut, most>>

LEMMA RoundCases ==
  ASSUME RoundsOK, NEW w \in Flushers, RoundStep(w) \/ DayFails(w) \/ LoseLock(w)
  PROVE  \/ StartRound(w) \/ (\E n, s : Reads(w, n, s)) \/ Skips(w) \/ Upsert(w) \/ LoseLock(w)
<1>0. IsRound(round[w]) /\ DOMAIN round[w] = {"stage", "dates", "stats"}
  BY DEF RoundsOK, IsRound
<1>1. CASE ReadSome(w)
  <2>1. PICK n \in Cuts :
          /\ round[w].stage = "read" /\ round[w].stats.done < n
          /\ round' = [round EXCEPT ![w].stats = Answers(@, Head(round[w].dates), n)]
          /\ UNCHANGED <<vars, row, leader, spent, lost, overlapped, cut, most>>
    BY <1>1 DEF ReadSome
  <2>2. n \in 1..Last /\ n # Last
    BY DailyAssumption DEF DailyAssumption, Last
  <2>3. round' = [round EXCEPT ![w] = [round[w] EXCEPT !.stage = "read",
                      !.stats = Answers(round[w].stats, Head(round[w].dates), n)]]
    BY <1>0, <2>1 DEF RoundsOK
  <2>4. Reads(w, n, "read")
    BY <2>1, <2>2, <2>3 DEF Reads
  <2> QED BY <2>4
<1>2. CASE ReadRest(w)
  <2>1. round[w].stage = "read" /\ round[w].stats.done < Last
    BY <1>0, <1>2 DEF ReadRest, IsRound
  <2>2. UNCHANGED <<vars, row, spent, lost, overlapped, cut, most>>
    BY <1>2 DEF ReadRest
  <2>3. CASE NextDay(w)
    BY <2>1, <2>2, <2>3 DEF Skips, Busy, vars
  <2>4. CASE ~NextDay(w)
    <3>1. /\ round' = [round EXCEPT ![w] = [round[w] EXCEPT !.stage = "write",
                        !.stats = Answers(round[w].stats, Head(round[w].dates), Last)]]
          /\ UNCHANGED leader
      BY <1>2, <2>4 DEF ReadRest
    <3>2. Reads(w, Last, "write")
      BY <2>1, <2>2, <3>1, PlacesAre DEF Reads
    <3> QED BY <3>2
  <2> QED BY <2>3, <2>4
<1>3. CASE DayFails(w)
  BY <1>3 DEF DayFails, Skips
<1> QED BY <1>1, <1>2, <1>3 DEF RoundStep

\* The end of a day: the round rests and gives the lock back, or has a next day.
LEMMA NextDayMoves ==
  ASSUME RoundsInv, NEW w \in Flushers, Busy(w), NextDay(w)
  PROVE  /\ RoundsOK' /\ LockOK'
         /\ round'[w].stage \in {"idle", "read"} /\ round'[w].stats = NoStats
         /\ \A x \in Flushers : x # w => round'[x] = round[x]
<1> DEFINE rest == Tail(round[w].dates)
           r == IF rest = <<>> THEN Resting ELSE Reading(rest)
<1>1. rest \in Seq(Dates)
  BY HeadTailProperties DEF RoundsInv, RoundsOK, IsRound, Busy
<1>2. IsRound(r)
  BY <1>1, RestingShape, ReadingShape
<1>3. round' = [round EXCEPT ![w] = r]
  BY DEF NextDay
<1>4. r.stage = (IF rest = <<>> THEN "idle" ELSE "read") /\ r.stats = NoStats
  BY <1>1, RestingShape, ReadingShape DEF Resting
<1> HIDE DEF r
<1>5. RoundsOK' /\ round'[w] = r /\ \A x \in Flushers : x # w => round'[x] = round[x]
  BY <1>2, <1>3, Moved DEF RoundsInv
<1>6. LockOK'
  BY <1>4, <1>5, DailyAssumption
     DEF NextDay, RoundsInv, LockOK, Busy, Flushers, DailyAssumption
<1> QED BY <1>4, <1>5, <1>6

LEMMA StartMoves ==
  ASSUME RoundsInv, NEW w \in Flushers, StartRound(w)
  PROVE  /\ RoundsInv'
         /\ round'[w].stage = "read" /\ round'[w].stats = NoStats
         /\ \A x \in Flushers : x # w => round'[x] = round[x]
         /\ UNCHANGED <<day, row, lost, cut, most>>
<1> DEFINE r == Reading(FlushDates)
<1>1. FlushDates \in Seq(Dates) /\ FlushDates # <<>>
  <2>1. <<1>> \in Seq(Dates) /\ <<2, 1>> \in Seq(Dates)
    BY DEF Dates
  <2> QED BY <2>1 DEF FlushDates
<1>2. IsRound(r) /\ r.stage = "read" /\ r.stats = NoStats
  BY <1>1, ReadingShape
<1>3. round' = [round EXCEPT ![w] = r]
  BY DEF StartRound
<1> HIDE DEF r
<1>4. RoundsOK' /\ round'[w] = r /\ \A x \in Flushers : x # w => round'[x] = round[x]
  BY <1>2, <1>3, Moved DEF RoundsInv
<1>5. LockOK' /\ spent' \subseteq Syncs
  BY <1>2, <1>4, DailyAssumption
     DEF StartRound, LockFree, RoundsInv, LockOK, Busy, Flushers, DailyAssumption
<1>6. UNCHANGED <<day, row, lost, cut, most>>
  BY DEF StartRound, vars
<1>7. DaysOK' /\ RowsOK' /\ MostOK' /\ cut' \subseteq Dates
  BY <1>6 DEF RoundsInv, DaysOK, RowsOK, MostOK
<1> QED BY <1>2, <1>4, <1>5, <1>6, <1>7 DEF RoundsInv

\* A reading goes on in one round.
LEMMA ReadMoves ==
  ASSUME RoundsInv, NEW w \in Flushers, NEW n, NEW s, Reads(w, n, s)
  PROVE  /\ RoundsInv'
         /\ round'[w].stage = s /\ round'[w].dates = round[w].dates
         /\ Head(round[w].dates) \in Dates
         /\ round'[w].stats = Answers(round[w].stats, Head(round[w].dates), n)
         /\ \A x \in Flushers : x # w => round'[x] = round[x]
         /\ UNCHANGED <<day, row, lost, overlapped, cut, most>>
<1>1. PICK d \in Dates : d = Head(round[w].dates)
  BY HeadTailProperties DEF Reads, RoundsInv, RoundsOK, IsRound
<1>2. IsRound(round[w])
  BY DEF RoundsInv, RoundsOK
<1>3. PICK y : y = Answers(round[w].stats, d, n)
  OBVIOUS
<1>4. IsStats(y) /\ y.done = n
  BY <1>2, <1>3, AnswersShape DEF Reads, IsRound, RoundsInv
<1>5. PICK r : r = [round[w] EXCEPT !.stage = s, !.stats = y]
  OBVIOUS
<1>6. /\ r.stage = s /\ r.dates = round[w].dates /\ r.stats = y
      /\ DOMAIN r = {"stage", "dates", "stats"}
  BY <1>2, <1>5 DEF IsRound
<1>7. IsRound(r)
  BY <1>2, <1>4, <1>6, PlacesAre DEF IsRound, Reads
<1>8. round' = [round EXCEPT ![w] = r]
  BY <1>1, <1>3, <1>5 DEF Reads
<1>9. RoundsOK' /\ round'[w] = r /\ \A x \in Flushers : x # w => round'[x] = round[x]
  BY <1>7, <1>8, Moved DEF RoundsInv
<1>10. UNCHANGED <<day, row, leader, spent, lost, overlapped, cut, most>>
  BY DEF Reads, vars
<1>11. LockOK'
  BY <1>6, <1>9, <1>10 DEF RoundsInv, LockOK, Busy, Flushers, Reads
<1>12. RoundsInv'
  BY <1>9, <1>10, <1>11 DEF RoundsInv, DaysOK, RowsOK, MostOK
<1> QED BY <1>1, <1>3, <1>6, <1>9, <1>10, <1>12

\* A failed day, or one without traffic, moves a round to its next day.
LEMMA SkipMoves ==
  ASSUME RoundsInv, NEW w \in Flushers, Skips(w)
  PROVE  /\ RoundsInv' /\ Busy(w)
         /\ round'[w].stage \in {"idle", "read"} /\ round'[w].stats = NoStats
         /\ \A x \in Flushers : x # w => round'[x] = round[x]
         /\ UNCHANGED <<day, row, lost, overlapped, cut, most>>
<1>1. Busy(w) /\ NextDay(w) /\ UNCHANGED <<day, row, spent, lost, overlapped, cut, most>>
  BY DEF Skips
<1> QED BY <1>1, NextDayMoves DEF RoundsInv, DaysOK, RowsOK, MostOK

LEMMA UpsertMoves ==
  ASSUME RoundsInv, NEW w \in Flushers, Upsert(w)
  PROVE  /\ RoundsInv' /\ Busy(w) /\ round[w].stage = "write"
         /\ round'[w].stage \in {"idle", "read"} /\ round'[w].stats = NoStats
         /\ \A x \in Flushers : x # w => round'[x] = round[x]
         /\ UNCHANGED <<day, lost, overlapped, cut, most>>
         /\ \E d \in Dates :
              /\ d = Head(round[w].dates)
              /\ row'[d].counts = round[w].stats.counts
              /\ row'[d].visits = Merge(row[d].visits, round[w].stats.visits)
              /\ \A e \in Dates : e # d => row'[e] = row[e]
<1>1. PICK d \in Dates : d = Head(round[w].dates)
  BY HeadTailProperties DEF Upsert, RoundsInv, RoundsOK, IsRound
<1>2. /\ Busy(w) /\ round[w].stage = "write" /\ NextDay(w)
      /\ UNCHANGED <<day, spent, lost, overlapped, cut, most>>
  BY DEF Upsert, Busy, vars
<1>3. IsCounts(round[w].stats.counts) /\ IsVisits(Merge(row[d].visits, round[w].stats.visits))
  BY MergeShape DEF RoundsInv, RoundsOK, RowsOK, IsRound, IsStats
<1>4. /\ DOMAIN row' = Dates
      /\ row'[d].counts = round[w].stats.counts
      /\ row'[d].visits = Merge(row[d].visits, round[w].stats.visits)
      /\ \A e \in Dates : e # d => row'[e] = row[e]
  BY <1>1 DEF Upsert, RoundsInv, RowsOK
<1>5. RowsOK'
  BY <1>3, <1>4 DEF RoundsInv, RowsOK
<1>6. DaysOK' /\ MostOK'
  BY <1>2 DEF RoundsInv, DaysOK, MostOK
<1> QED BY <1>1, <1>2, <1>4, <1>5, <1>6, NextDayMoves DEF RoundsInv

LEMMA UnlockMoves ==
  ASSUME RoundsInv, NEW w \in Flushers, LoseLock(w)
  PROVE  RoundsInv' /\ UNCHANGED <<day, row, round, lost, overlapped, cut, most>>
<1>1. UNCHANGED <<day, row, round, spent, lost, overlapped, cut, most>> /\ leader' = Nobody
  BY DEF LoseLock
<1>2. LockOK'
  BY <1>1, DailyAssumption DEF LockOK, Flushers, DailyAssumption
<1> QED BY <1>1, <1>2 DEF RoundsInv, DaysOK, RowsOK, RoundsOK, MostOK

-----------------------------------------------------------------------------
(* The shape is kept, and the visits of a row never go back. *)

LEMMA RoundsInit == DailyInit => RoundsInv
<1> SUFFICES ASSUME DailyInit PROVE RoundsInv
  OBVIOUS
<1>1. DaysOK /\ MostOK
  BY NoDayShape DEF DailyInit, Init, DaysOK, MostOK
<1>2. RowsOK /\ RoundsOK
  BY RestingShape, NothingRead DEF DailyInit, RowsOK, RoundsOK, NoRow
<1>3. LockOK /\ spent \subseteq Syncs /\ cut \subseteq Dates
  BY DailyAssumption DEF DailyInit, LockOK, Busy, Resting, Flushers, DailyAssumption
<1> QED BY <1>1, <1>2, <1>3 DEF RoundsInv

LEMMA MaxOfTwo ==
  ASSUME NEW a \in Nat, NEW b \in Nat
  PROVE  /\ Max({a, b}) \in Nat /\ a <= Max({a, b}) /\ b <= Max({a, b})
         /\ Max({a, b}) = a \/ Max({a, b}) = b
<1>1. \E x \in {a, b} : \A y \in {a, b} : x >= y
  OBVIOUS
<1> QED BY <1>1 DEF Max

\* A step of the views or of the clock.
ViewsGoOn ==
    /\ Track \/ Tick
    /\ most' = [d \in Dates |-> Max({most[d], day'[d].sessions})]
    /\ UNCHANGED dailyVars

MostRises == \A d \in Dates : most[d] \in Nat /\ most'[d] \in Nat /\ most[d] <= most'[d]

LEMMA ViewsMove ==
  ASSUME RoundsInv, ViewsGoOn
  PROVE  RoundsInv' /\ KeysGrow /\ MostRises /\ UNCHANGED <<row, round, lost, overlapped, cut>>
<1>1. UNCHANGED <<row, round, leader, spent, lost, overlapped, cut>>
  BY DEF ViewsGoOn, dailyVars
<1>2. DaysOK' /\ KeysGrow
  BY TrackGrows DEF ViewsGoOn, RoundsInv
<1>3. MostOK' /\ MostRises
  <2> SUFFICES ASSUME NEW d \in Dates
               PROVE  /\ most[d] \in Nat /\ most'[d] \in Nat /\ most[d] <= most'[d]
                      /\ day'[d].sessions <= most'[d]
    BY DEF MostOK, MostRises
  <2>1. PICK n \in Nat : n = day'[d].sessions
    BY <1>2 DEF DaysOK, IsDay
  <2>2. most[d] \in Nat
    BY DEF RoundsInv, MostOK
  <2>3. most'[d] = Max({most[d], n})
    BY <2>1 DEF ViewsGoOn
  <2> QED BY <2>1, <2>2, <2>3, MaxOfTwo
<1> QED BY <1>1, <1>2, <1>3 DEF RoundsInv, RowsOK, RoundsOK, LockOK, Busy

LEMMA LossMoves ==
  ASSUME RoundsInv, RedisRestarts
  PROVE  /\ RoundsInv' /\ lost' /\ cut \subseteq cut' /\ UNCHANGED <<row, round, overlapped, most>>
         /\ \A d \in Dates : day'[d] = EmptyDay
         /\ \A w \in Flushers : round[w].stage = "read" /\ round[w].stats.done >= 3
                                  => Head(round[w].dates) \in cut'
<1>1. /\ UNCHANGED <<row, round, leader, spent, overlapped, most>> /\ lost'
      /\ day' = [d \in Dates |-> EmptyDay]
      /\ cut' = cut \cup {Head(round[w].dates) : w \in
                   {w \in Flushers : round[w].stage = "read" /\ round[w].stats.done >= 3}}
  BY PlacesAre DEF RedisRestarts, LoseRedis
<1>2. DaysOK' /\ MostOK'
  BY <1>1, NoDayShape DEF DaysOK, MostOK, RoundsInv
<1>3. cut' \subseteq Dates
  <2>1. ASSUME NEW w \in Flushers, round[w].stage = "read" PROVE Head(round[w].dates) \in Dates
    BY <2>1, HeadTailProperties DEF RoundsInv, RoundsOK, IsRound
  <2> QED BY <1>1, <2>1 DEF RoundsInv
<1> QED BY <1>1, <1>2, <1>3 DEF RoundsInv, RowsOK, RoundsOK, LockOK, Busy

LEMMA StillMoves ==
  ASSUME RoundsInv, UNCHANGED allVars
  PROVE  RoundsInv' /\ UNCHANGED <<day, row, round, lost, overlapped, cut, most>>
<1>1. UNCHANGED <<day, row, round, leader, spent, lost, overlapped, cut, most>>
  BY DEF allVars, vars, dailyVars
<1> QED BY <1>1 DEF RoundsInv, DaysOK, RowsOK, RoundsOK, LockOK, Busy, MostOK

\* All that can happen to the rounds, the rows and the keys.
DailyCase ==
    \/ ViewsGoOn \/ RedisRestarts \/ UNCHANGED allVars
    \/ \E w \in Flushers : \/ StartRound(w) \/ (\E n, s : Reads(w, n, s))
                           \/ Skips(w) \/ Upsert(w) \/ LoseLock(w)

LEMMA DailyCases == RoundsInv /\ [DailyNext]_allVars => DailyCase
BY RoundCases DEF DailyNext, DailyWork, DailyCase, ViewsGoOn, RoundsInv

LEMMA RoundsNext == RoundsInv /\ [DailyNext]_allVars => RoundsInv'
<1> SUFFICES ASSUME RoundsInv, DailyCase PROVE RoundsInv'
  BY DailyCases
<1>1. ASSUME NEW w \in Flushers,
             StartRound(w) \/ (\E n, s : Reads(w, n, s)) \/ Skips(w) \/ Upsert(w) \/ LoseLock(w)
      PROVE  RoundsInv'
  BY <1>1, StartMoves, ReadMoves, SkipMoves, UpsertMoves, UnlockMoves
<1> QED BY <1>1, ViewsMove, LossMoves, StillMoves DEF DailyCase

\* The lock is held by a worker in a round, and rounds and rows keep their shape:
\* flushIfLeader, for any number of workers and syncs.
THEOREM DailyTypeCorrect == DailySpec => []DailyTypeOK
<1>1. DailyInit => RoundsInv
  BY RoundsInit
<1>2. RoundsInv /\ [DailyNext]_allVars => RoundsInv'
  BY RoundsNext
<1>3. RoundsInv => DailyTypeOK
  BY DEF RoundsInv, RowsOK, IsVisits, RoundsOK, IsRound, LockOK, MostOK, Flushers, DailyTypeOK
<1> QED BY <1>1, <1>2, <1>3, PTL DEF DailySpec

\* The CASEs of upsertDailyStats: whatever a round has read, and however long
\* ago, the visits of a stored day do not go back.
THEOREM VisitsCorrect == DailySpec => VisitsNeverGoBack
<1> DEFINE NotOlder(d) == \/ row'[d].visits.sessions > row[d].visits.sessions
                          \/ /\ row'[d].visits.sessions = row[d].visits.sessions
                             /\ row'[d].visits.pageviews >= row[d].visits.pageviews
           Step == \A d \in Dates : NotOlder(d)
<1>1. RoundsInv /\ [DailyNext]_allVars => [Step]_allVars
  <2> SUFFICES ASSUME RoundsInv, DailyCase, NEW d \in Dates PROVE NotOlder(d)
    BY DailyCases
  <2>1. IsVisits(row[d].visits)
    BY DEF RoundsInv, RowsOK
  <2>2. CASE row'[d].visits = row[d].visits
    BY <2>1, <2>2 DEF IsVisits
  <2>3. ASSUME NEW w \in Flushers, Upsert(w)
        PROVE  NotOlder(d)
    <3>1. IsVisits(round[w].stats.visits)
      BY DEF RoundsInv, RoundsOK, IsRound, IsStats
    <3>2. \/ row'[d].visits = Merge(row[d].visits, round[w].stats.visits)
          \/ row'[d] = row[d]
      BY <2>3, UpsertMoves
    <3> QED BY <2>1, <2>2, <3>1, <3>2, MergeNotOlder
  <2>4. ASSUME NEW w \in Flushers,
               StartRound(w) \/ (\E n, s : Reads(w, n, s)) \/ Skips(w) \/ LoseLock(w)
        PROVE  UNCHANGED row
    BY <2>4, StartMoves, ReadMoves, SkipMoves, UnlockMoves
  <2> QED BY <2>2, <2>3, <2>4, ViewsMove, LossMoves, StillMoves DEF DailyCase
<1>2. DailySpec => [][Step]_allVars
  BY <1>1, RoundsInit, RoundsNext, PTL DEF DailySpec
<1> QED BY <1>2 DEF VisitsNeverGoBack

-----------------------------------------------------------------------------
(* A round that is alone writes what is newer than the row. *)

LEMMA CountsTyped ==
  ASSUME RoundsInv
  PROVE  /\ \A d \in Dates : IsCounts(row[d].counts) /\ IsCounts(Counts(d))
         /\ \A w \in Flushers : IsStats(round[w].stats) /\ IsCounts(round[w].stats.counts)
BY ReadShape DEF RoundsInv, RowsOK, RoundsOK, IsRound, IsStats

LEMMA OrderInit == DailyInit => OrderInv
<1> SUFFICES ASSUME DailyInit PROVE OrderInv
  OBVIOUS
<1>1. Alone
  BY DEF DailyInit, Alone, Busy, Resting, Flushers
<1>2. ASSUME NEW d \in Dates PROVE RowBehind(d)
  <2>1. row[d].counts = NoCounts /\ \A w \in Flushers : ~Busy(w)
    BY DEF DailyInit, NoRow, Resting, Busy
  <2>2. Counts(d) = NoCounts
    BY FS_EmptySet DEF DailyInit, Init, EmptyDay, Counts, NoCounts
  <2> QED BY <2>1, <2>2 DEF RowBehind, AtMost, NoCounts
<1> QED BY <1>1, <1>2 DEF OrderInv

\* What lies between an old count and the present lies so later.
LEMMA BetweenLater ==
  ASSUME NEW x, NEW s, NEW y, NEW z, IsCounts(x), IsCounts(y), IsCounts(z), IsStats(s),
         Between(x, s, y), AtMost(y, z)
  PROVE  Between(x, s, z)
BY PlacesAre DEF Between, AtMost, IsCounts, IsStats

\* So does what a reading adds.
LEMMA BetweenReads ==
  ASSUME RoundsInv, NEW d \in Dates, NEW x, IsCounts(x), NEW s, IsStats(s), NEW n \in 1..Last,
         s.done < n, AtMost(x, Counts(d)), Between(x, s, Counts(d))
  PROVE  Between(x, Answers(s, d, n), Counts(d))
<1>1. PICK t : t = Answers(s, d, n)
  OBVIOUS
<1>2. PICK c : c = Counts(d)
  OBVIOUS
<1>3. /\ t.done = n
      /\ t.counts.pv = IF s.done < 1 /\ 1 <= n THEN c.pv ELSE s.counts.pv
      /\ t.counts.uv = IF s.done < 2 /\ 2 <= n THEN c.uv ELSE s.counts.uv
  BY <1>1, <1>2, AnswersAre, PlacesAre
<1>4. IsCounts(c) /\ AtMost(x, c)
  BY <1>2, CountsTyped
<1>5. s.done \in Nat /\ n \in Nat /\ IsCounts(s.counts)
  BY PlacesAre DEF IsStats
<1>6. Between(x, s, c)
  BY <1>2
<1>7. Between(x, t, c)
  BY <1>3, <1>4, <1>5, <1>6, PlacesAre DEF Between, AtMost, IsCounts
<1> QED BY <1>1, <1>2, <1>7

LEMMA NothingBetween == \A x, y : Between(x, NoStats, y)
BY NothingRead, PlacesAre DEF Between

LEMMA OrderStart ==
  ASSUME RoundsInv, OrderInv, NEW w \in Flushers, StartRound(w)
  PROVE  OrderInv'
<1>1. /\ round'[w].stats = NoStats /\ UNCHANGED <<day, row, lost>>
      /\ \A x \in Flushers : x # w => round'[x] = round[x]
  BY StartMoves
<1>2. ~overlapped' => \A x \in Flushers : ~Busy(x)
  BY DailyAssumption
     DEF StartRound, LockFree, RoundsInv, LockOK, Flushers, DailyAssumption
<1>3. Alone'
  BY <1>1, <1>2 DEF Alone, Busy
<1>4. ASSUME NEW d \in Dates, RowBehind(d) PROVE RowBehind(d)'
  BY <1>1, <1>4, NothingBetween DEF RowBehind, Counts, Busy
<1>5. overlapped => overlapped'
  BY DEF StartRound
<1> QED BY <1>1, <1>3, <1>4, <1>5 DEF OrderInv

LEMMA OrderRead ==
  ASSUME RoundsInv, OrderInv, NEW w \in Flushers, NEW n, NEW s, Reads(w, n, s)
  PROVE  OrderInv'
<1>1. /\ round'[w].dates = round[w].dates
      /\ round'[w].stats = Answers(round[w].stats, Head(round[w].dates), n)
      /\ \A x \in Flushers : x # w => round'[x] = round[x]
      /\ UNCHANGED <<day, row, lost, overlapped>>
  BY ReadMoves
<1>2. Busy(w) /\ round[w].stats.done < n /\ n \in 1..Last
  BY DEF Reads, Busy
<1>3. Alone'
  BY <1>1, <1>2 DEF OrderInv, Alone, Busy
<1>4. ASSUME NEW d \in Dates, RowBehind(d) PROVE RowBehind(d)'
  <2>1. UNCHANGED <<Counts(d), row[d]>>
    BY <1>1 DEF Counts
  <2>2. AtMost(row[d].counts, Counts(d)) /\ IsCounts(row[d].counts) /\ IsStats(round[w].stats)
    BY <1>4, CountsTyped DEF RowBehind
  <2>3. ASSUME Head(round[w].dates) = d
        PROVE  Between(row[d].counts, round'[w].stats, Counts(d))
    BY <1>1, <1>2, <1>4, <2>2, <2>3, BetweenReads DEF RowBehind
  <2>4. ASSUME NEW x \in Flushers, Busy(x)', Head(round'[x].dates) = d
        PROVE  Between(row[d].counts, round'[x].stats, Counts(d))
    <3>1. CASE x = w
      BY <1>1, <2>3, <2>4, <3>1
    <3>2. CASE x # w
      BY <1>1, <1>4, <2>4, <3>2 DEF RowBehind, Busy
    <3> QED BY <3>1, <3>2
  <2> QED BY <2>1, <2>2, <2>4 DEF RowBehind
<1> QED BY <1>1, <1>3, <1>4 DEF OrderInv

LEMMA OrderSkip ==
  ASSUME RoundsInv, OrderInv, NEW w \in Flushers, Skips(w)
  PROVE  OrderInv'
<1>1. /\ Busy(w) /\ round'[w].stats = NoStats
      /\ \A x \in Flushers : x # w => round'[x] = round[x]
      /\ UNCHANGED <<day, row, lost, overlapped>>
  BY SkipMoves
<1>2. Alone'
  BY <1>1 DEF OrderInv, Alone, Busy
<1>3. ASSUME NEW d \in Dates, RowBehind(d) PROVE RowBehind(d)'
  BY <1>1, <1>3, NothingBetween DEF RowBehind, Counts, Busy
<1> QED BY <1>1, <1>2, <1>3 DEF OrderInv

LEMMA OrderUpsert ==
  ASSUME RoundsInv, OrderInv, NEW w \in Flushers, Upsert(w)
  PROVE  /\ OrderInv'
         /\ ~lost /\ ~overlapped => \A d \in Dates : AtMost(row[d].counts, row'[d].counts)
<1>1. /\ Busy(w) /\ round'[w].stats = NoStats
      /\ \A x \in Flushers : x # w => round'[x] = round[x]
      /\ UNCHANGED <<day, lost, overlapped>>
  BY UpsertMoves
<1>2. PICK d \in Dates : /\ d = Head(round[w].dates)
                         /\ row'[d].counts = round[w].stats.counts
                         /\ \A e \in Dates : e # d => row'[e] = row[e]
  BY UpsertMoves
<1>3. Alone'
  BY <1>1 DEF OrderInv, Alone, Busy
<1>4. round[w].stats.done = Last
  BY DEF RoundsInv, RoundsOK, IsRound, Upsert
<1>5. ASSUME ~lost, ~overlapped, NEW e \in Dates
      PROVE  RowBehind(e)' /\ AtMost(row[e].counts, row'[e].counts)
  <2>1. RowBehind(e) /\ Counts(e)' = Counts(e)
    BY <1>1, <1>5 DEF OrderInv, Counts
  <2>2. \A x \in Flushers : Busy(x)' => round'[x].stats = NoStats
    BY <1>1, <1>5 DEF OrderInv, Alone, Busy
  <2>3. AtMost(row[e].counts, row'[e].counts) /\ AtMost(row'[e].counts, Counts(e))
    <3>1. CASE e = d
      <4>1. Between(row[e].counts, round[w].stats, Counts(e))
        BY <1>1, <1>2, <2>1, <3>1 DEF RowBehind
      <4>2. row'[e].counts = round[w].stats.counts
        BY <1>2, <3>1
      <4> QED BY <1>4, <4>1, <4>2, PlacesAre DEF Between, AtMost
    <3>2. CASE e # d
      BY <1>2, <2>1, <3>2, CountsTyped DEF RowBehind, AtMost, IsCounts
    <3> QED BY <3>1, <3>2
  <2> QED BY <2>1, <2>2, <2>3, NothingBetween DEF RowBehind
<1> QED BY <1>1, <1>3, <1>5 DEF OrderInv

LEMMA OrderNext == RoundsInv /\ OrderInv /\ [DailyNext]_allVars => OrderInv'
<1> SUFFICES ASSUME RoundsInv, OrderInv, DailyCase PROVE OrderInv'
  BY DailyCases
<1>1. CASE ViewsGoOn
  <2>1. KeysGrow /\ RoundsInv' /\ UNCHANGED <<row, round, lost, overlapped>>
    BY <1>1, ViewsMove
  <2>2. ASSUME NEW d \in Dates, RowBehind(d) PROVE RowBehind(d)'
    <3>1. AtMost(Counts(d), Counts(d)')
      BY <2>1 DEF KeysGrow, NoLess, AtMost, Counts
    <3>2. IsCounts(Counts(d)')
      <4>1. IsFiniteSet(day'[d].uv) /\ day'[d].pv \in Nat
        BY <2>1 DEF RoundsInv, DaysOK, IsDay
      <4> QED BY <4>1, FS_CardinalityType DEF IsCounts, Counts
    <3>3. AtMost(row[d].counts, Counts(d)')
      BY <2>2, <3>1, <3>2, CountsTyped DEF RowBehind, AtMost, IsCounts
    <3>4. ASSUME NEW w \in Flushers, Busy(w), Head(round[w].dates) = d
          PROVE  Between(row[d].counts, round[w].stats, Counts(d)')
      BY <2>2, <3>1, <3>2, <3>4, CountsTyped, BetweenLater DEF RowBehind
    <3> QED BY <2>1, <3>3, <3>4 DEF RowBehind, Busy
  <2> QED BY <2>1, <2>2 DEF OrderInv, Alone, Busy
<1>2. CASE UNCHANGED allVars
  BY <1>2, StillMoves DEF OrderInv, Alone, Busy, RowBehind, Counts
<1>3. CASE RedisRestarts
  BY <1>3, LossMoves DEF OrderInv, Alone, Busy
<1>4. ASSUME NEW w \in Flushers, LoseLock(w) PROVE OrderInv'
  BY <1>4, UnlockMoves DEF OrderInv, Alone, Busy, RowBehind, Counts
<1> QED BY <1>1, <1>2, <1>3, <1>4, OrderStart, OrderRead, OrderSkip, OrderUpsert DEF DailyCase

\* The lock of flushIfLeader is what protects the columns upsertDailyStats
\* overwrites: page views and visitors of a stored day never go back while no
\* round runs beside one that does not hold the lock, of cmd/sync or of a worker whose
\* connection broke, and Redis keeps its data.
THEOREM CountsCorrect == DailySpec => CountsNeverGoBack
<1> DEFINE Step == \A d \in Dates : \/ lost \/ overlapped
                                    \/ /\ row'[d].counts.pv >= row[d].counts.pv
                                       /\ row'[d].counts.uv >= row[d].counts.uv
<1>1. RoundsInv /\ OrderInv /\ [DailyNext]_allVars => [Step]_allVars
  <2> SUFFICES ASSUME RoundsInv, RoundsInv', OrderInv, DailyCase, ~lost, ~overlapped, NEW d \in Dates
               PROVE  /\ row'[d].counts.pv >= row[d].counts.pv
                      /\ row'[d].counts.uv >= row[d].counts.uv
    BY DailyCases, RoundsNext
  <2>1. IsCounts(row[d].counts) /\ IsCounts(row'[d].counts)
    BY DEF RoundsInv, RowsOK
  <2>2. CASE row'[d] = row[d]
    BY <2>1, <2>2 DEF IsCounts
  <2>3. ASSUME NEW w \in Flushers, Upsert(w)
        PROVE  AtMost(row[d].counts, row'[d].counts)
    BY <2>3, OrderUpsert
  <2>4. ASSUME NEW w \in Flushers,
               StartRound(w) \/ (\E n, s : Reads(w, n, s)) \/ Skips(w) \/ LoseLock(w)
        PROVE  UNCHANGED row
    BY <2>4, StartMoves, ReadMoves, SkipMoves, UnlockMoves
  <2> QED BY <2>1, <2>2, <2>3, <2>4, ViewsMove, LossMoves, StillMoves DEF DailyCase, AtMost, IsCounts
<1>2. DailySpec => [][Step]_allVars
  BY <1>1, RoundsInit, RoundsNext, OrderInit, OrderNext, PTL DEF DailySpec
<1> QED BY <1>2 DEF CountsNeverGoBack

-----------------------------------------------------------------------------
(* The session columns of a row. *)

\* To the views a step of the rounds is no step, but for the failures counted.
LEMMA ViewsAside ==
  ASSUME DailyNext
  PROVE  \/ [Next]_vars
         \/ /\ faults < MaxFaults /\ faults' = faults + 1
            /\ UNCHANGED <<now, hit, guard, day, sess, views, seen, late, capped, torn>>
BY DEF DailyNext, DailyWork, RedisRestarts, Next, RoundStep, StartRound, ReadSome, ReadRest,
       Upsert, DayFails, LoseLock

LEMMA ViewsKeep ==
  ASSUME ShapeInv, FiguresInv, [DailyNext]_allVars
  PROVE  ShapeInv' /\ FiguresInv'
<1>1. CASE [Next]_vars
  BY <1>1, ShapeStep, FiguresStep
<1>2. CASE /\ faults < MaxFaults /\ faults' = faults + 1
           /\ UNCHANGED <<now, hit, guard, day, sess, views, seen, late, capped, torn>>
  <2>1. ClockInv'
    <3>1. faults \in 0..MaxFaults /\ now \in 0..MaxTime /\ views \in 0..MaxViews
      BY DEF ShapeInv, ClockInv
    <3>2. faults' \in 0..MaxFaults
      BY <1>2, <3>1, Numbers
    <3> QED BY <1>2, <3>1, <3>2 DEF ClockInv
  <2>2. HitInv' /\ SessInv' /\ DayInv' /\ GuardInv'
    BY <1>2 DEF ShapeInv, HitInv, SessInv, DayInv, GuardInv
  <2>3. FiguresInv'
    BY <1>2 DEF FiguresInv
  <2> QED BY <2>1, <2>2, <2>3 DEF ShapeInv
<1>3. CASE UNCHANGED allVars
  <2>1. [Next]_vars
    BY <1>3 DEF allVars
  <2> QED BY <2>1, ShapeStep, FiguresStep
<1> QED BY <1>1, <1>2, <1>3, ViewsAside

\* Figures that are numbers and hashes of pages.
FiguresShape(x) ==
    /\ x.sessions \in Int /\ x.bounces \in Int /\ x.duration \in Int /\ x.pageviews \in Int
    /\ IsHash(x.entrances, Paths, Int) /\ IsHash(x.exits, Paths, Int)

\* Those of at most m visits; with the pages of all of them, if no loss came between.
FiguresFit(x, m, kept) ==
    /\ DOMAIN x = Quality /\ FiguresShape(x) /\ OfVisits(x, m)
    /\ kept => HavePages(x)

\* A record with the same figures fits as well.
LEMMA SameFigures ==
  ASSUME NEW x, NEW y, NEW m, NEW kept, FiguresFit(x, m, kept),
         \A f \in Quality : y[f] = x[f], DOMAIN y = Quality
  PROVE  FiguresFit(y, m, kept)
<1>1. /\ y.sessions = x.sessions /\ y.bounces = x.bounces /\ y.duration = x.duration
      /\ y.pageviews = x.pageviews /\ y.entrances = x.entrances /\ y.exits = x.exits
  BY DEF Quality
<1>2. FiguresShape(y)
  BY <1>1 DEF FiguresShape, FiguresFit
<1>3. OfVisits(y, m)
  BY <1>1 DEF OfVisits, FiguresFit
<1>4. kept => HavePages(y)
  BY <1>1 DEF HavePages, FiguresFit
<1> QED BY <1>2, <1>3, <1>4 DEF FiguresFit

\* The CASEs take every column from the same reading.
LEMMA MergeFits ==
  ASSUME NEW x, NEW y, NEW m, NEW kept, FiguresFit(x, m, kept), FiguresFit(y, m, kept)
  PROVE  FiguresFit(Merge(x, y), m, kept)
<1>1. DOMAIN Merge(x, y) = Quality
  BY DEF Merge
<1>2. CASE Newer(y, x)
  <2>1. \A f \in Quality : Merge(x, y)[f] = y[f]
    BY <1>2 DEF Merge
  <2> QED BY <1>1, <2>1, SameFigures
<1>3. CASE ~Newer(y, x)
  <2>1. \A f \in Quality : Merge(x, y)[f] = x[f]
    BY <1>3 DEF Merge
  <2> QED BY <1>1, <2>1, SameFigures
<1> QED BY <1>2, <1>3

\* A pause of more pages may be longer.
LEMMA LongerPause ==
  ASSUME NEW t \in Nat, NEW m \in Int, NEW n \in Int, m <= n
  PROVE  t * m \in Int /\ t * n \in Int /\ t * m <= t * n
<1>1. PICK k \in Nat : n = m + k
  <2>1. n - m \in Nat /\ n = m + (n - m)
    OBVIOUS
  <2> QED BY <2>1
<1>2. t * k \in Int /\ 0 <= t * k
  BY SMT
<1>3. t * m \in Int /\ t * n \in Int /\ t * (m + k) = t * m + t * k
  BY SMT
<1> QED BY <1>1, <1>2, <1>3

LEMMA TotalNumber ==
  ASSUME NEW h, IsHash(h, Paths, Int)
  PROVE  Total(h) \in Int
<1>1. \A p \in Paths : Values(h, Paths)[p] \in Int
  BY ValueType DEF Values
<1>2. Total(h) = SumOf(Values(h, Paths), Paths)
  BY Finite, TotalIs
<1> QED BY <1>1, <1>2, Finite, SumType

\* Figures of at most m visits are of at most n.
LEMMA FitsMore ==
  ASSUME NEW x, NEW m \in Nat, NEW n \in Nat, m <= n, NEW kept, NEW still, still => kept,
         FiguresFit(x, m, kept)
  PROVE  FiguresFit(x, n, still)
<1>1. Total(x.entrances) \in Int /\ Total(x.exits) \in Int
  BY TotalNumber DEF FiguresFit, FiguresShape
<1>2. OfVisits(x, n)
  BY <1>1 DEF FiguresFit, FiguresShape, OfVisits
<1> QED BY <1>2 DEF FiguresFit

LEMMA NoVisitsFit ==
  ASSUME NEW m \in Nat, NEW kept
  PROVE  FiguresFit(NoVisits, m, kept)
<1>1. /\ NoVisits.sessions = 0 /\ NoVisits.bounces = 0 /\ NoVisits.duration = 0
      /\ NoVisits.pageviews = 0 /\ NoVisits.entrances = Empty /\ NoVisits.exits = Empty
  BY DEF NoVisits, EmptyDay, Quality
<1>2. IsHash(Empty, Paths, Int)
  BY EmptyHash
<1>3. Total(Empty) = 0
  <2>1. \A p \in Paths : Values(Empty, Paths)[p] = 0
    BY EmptyHash DEF Values
  <2>2. Total(Empty) = SumOf(Values(Empty, Paths), Paths)
    BY <1>2, Finite, TotalIs
  <2> QED BY <2>1, <2>2, Finite, SumZero
<1>4. OfVisits(NoVisits, m) /\ HavePages(NoVisits)
  BY <1>1, <1>3, Numbers DEF OfVisits, HavePages
<1>5. FiguresShape(NoVisits) /\ DOMAIN NoVisits = Quality
  BY <1>1, <1>2 DEF FiguresShape, NoVisits
<1> QED BY <1>4, <1>5 DEF FiguresFit

\* The figures of a day that a reading takes.
DayFits(y, m) ==
    /\ FiguresShape(y) /\ QualityMakesSense(y) /\ m \in Nat /\ y.sessions <= m
    /\ y.sessions \in Nat /\ y.pageviews \in Nat

LEMMA DayIsFit ==
  ASSUME RoundsInv, ShapeInv, FiguresInv, NEW d \in Dates
  PROVE  DayFits(day[d], most[d])
<1>1. FiguresShape(day[d])
  <2>1. DayShape(day[d])
    BY DEF ShapeInv, DayInv
  <2>2. IsHash(day[d].entrances, Paths, Int) /\ IsHash(day[d].exits, Paths, Int)
    BY <2>1, NatIsInt DEF DayShape
  <2> QED BY <2>1, <2>2 DEF DayShape, FiguresShape
<1> QED BY <1>1, FiguresSense DEF DayFits, RoundsInv, MostOK, DaysOK, IsDay

\* What the commands answered so far mean for a day whose keys are y: the visits were
\* read before their pages, so y has the pages of all of them.
PagesSoFar(s, y) ==
    /\ s.done \in 3..5 => s.visits.sessions <= y.sessions
    /\ s.done \in 4..5 => 2 * s.visits.sessions - s.visits.bounces <= y.pageviews
    /\ s.done = 5 => /\ 0 <= s.visits.duration
                     /\ s.visits.duration <= Timeout * (y.pageviews - s.visits.sessions)
    /\ s.done >= 6 => HavePages(s.visits)

\* A reading of a day with the keys y, which had at most m visits.
ReadingFits(s, y, m, kept) ==
    /\ IsStats(s) /\ FiguresFit(s.visits, m, FALSE)
    /\ kept => PagesSoFar(s, y)

LEMMA NothingFits ==
  ASSUME NEW m \in Nat, NEW y, NEW kept
  PROVE  ReadingFits(NoStats, y, m, kept)
<1>1. IsStats(NoStats) /\ NoStats.done = 0 /\ NoStats.visits = NoVisits
  BY NothingRead
<1>2. PagesSoFar(NoStats, y)
  BY <1>1 DEF PagesSoFar
<1>3. FiguresFit(NoStats.visits, m, FALSE)
  BY <1>1, NoVisitsFit
<1> QED BY <1>1, <1>2, <1>3 DEF ReadingFits

LEMMA WholeReadingFits ==
  ASSUME NEW s, NEW y, NEW m, NEW kept, ReadingFits(s, y, m, kept), s.done = Last
  PROVE  FiguresFit(s.visits, m, kept)
BY PlacesAre DEF ReadingFits, FiguresFit, PagesSoFar

\* The day goes on.
LEMMA ReadingLater ==
  ASSUME NEW s, NEW y, NEW z, NEW m \in Nat, NEW n \in Nat, m <= n, NEW kept,
         ReadingFits(s, y, m, kept),
         y.sessions \in Nat, y.pageviews \in Nat, z.sessions \in Nat, z.pageviews \in Nat,
         y.sessions <= z.sessions, y.pageviews <= z.pageviews
  PROVE  ReadingFits(s, z, n, kept)
<1>1. FiguresFit(s.visits, n, FALSE)
  BY FitsMore DEF ReadingFits
<1>2. /\ s.visits.sessions \in Int /\ s.visits.bounces \in Int /\ s.visits.duration \in Int
      /\ s.done \in Int
  BY PlacesAre DEF ReadingFits, FiguresFit, FiguresShape, IsStats
<1>3. Timeout * (y.pageviews - s.visits.sessions) <= Timeout * (z.pageviews - s.visits.sessions)
      /\ Timeout * (y.pageviews - s.visits.sessions) \in Int
      /\ Timeout * (z.pageviews - s.visits.sessions) \in Int
  <2>1. PICK a \in Int : a = y.pageviews - s.visits.sessions
    BY <1>2
  <2>2. PICK b \in Int : b = z.pageviews - s.visits.sessions
    BY <1>2
  <2>3. a <= b
    BY <1>2, <2>1, <2>2
  <2> QED BY <2>1, <2>2, <2>3, LongerPause, Numbers
<1>4. ASSUME PagesSoFar(s, y) PROVE PagesSoFar(s, z)
  <2>1. s.done \in 3..5 => s.visits.sessions <= z.sessions
    BY <1>2, <1>4 DEF PagesSoFar
  <2>2. s.done \in 4..5 => 2 * s.visits.sessions - s.visits.bounces <= z.pageviews
    BY <1>2, <1>4 DEF PagesSoFar
  <2>3. PICK i \in Int, j \in Int : /\ i = Timeout * (y.pageviews - s.visits.sessions)
                                    /\ j = Timeout * (z.pageviews - s.visits.sessions)
    BY <1>3
  <2>4. s.done = 5 => 0 <= s.visits.duration /\ s.visits.duration <= j
    BY <1>2, <1>3, <1>4, <2>3 DEF PagesSoFar
  <2> QED BY <1>4, <2>1, <2>2, <2>3, <2>4 DEF PagesSoFar
<1> QED BY <1>1, <1>4 DEF ReadingFits

\* t goes on to the n-th command from s, answered from y.
Answered(s, t, n, y) ==
    /\ t.done = n
    /\ \A f \in Quality : t.visits[f] = IF s.done < Place[f] /\ Place[f] <= n
                                         THEN y[f] ELSE s.visits[f]

\* Between the commands the day went on, so that the pages read cover the visits read.
LEMMA PagesAnswered ==
  ASSUME NEW y, NEW m, DayFits(y, m), NEW s, IsStats(s), FiguresFit(s.visits, m, FALSE),
         PagesSoFar(s, y), NEW n \in 1..Last, s.done < n, NEW t, Answered(s, t, n, y)
  PROVE  PagesSoFar(t, y)
<1>1. s.done \in Nat /\ n \in Nat /\ s.done < n /\ t.done = n
  BY PlacesAre DEF IsStats, Answered
<1>2. PICK a \in Int, b \in Int, c \in Int, p \in Int :
        a = s.visits.sessions /\ b = s.visits.bounces /\ c = s.visits.duration /\ p = s.visits.pageviews
  BY DEF FiguresFit, FiguresShape
<1>3. PICK e \in Int, f \in Int, g \in Int, h \in Int :
        e = y.sessions /\ f = y.bounces /\ g = y.duration /\ h = y.pageviews
  BY DEF DayFits, FiguresShape
<1>4. /\ t.visits.sessions = IF s.done < 3 /\ 3 <= n THEN e ELSE a
      /\ t.visits.bounces = IF s.done < 4 /\ 4 <= n THEN f ELSE b
      /\ t.visits.duration = IF s.done < 5 /\ 5 <= n THEN g ELSE c
      /\ t.visits.pageviews = IF s.done < 6 /\ 6 <= n THEN h ELSE p
  <2>1. {"sessions", "bounces", "duration", "pageviews"} \subseteq Quality
    BY DEF Quality
  <2> QED BY <1>2, <1>3, <2>1, PlacesAre DEF Answered
<1>5. f <= e /\ 2 * e - f <= h /\ 0 <= g /\ g <= Timeout * (h - e)
  BY <1>3 DEF DayFits, QualityMakesSense
<1>6. CASE s.done >= 6
  <2>1. t.visits.sessions = a /\ t.visits.bounces = b /\ t.visits.duration = c /\ t.visits.pageviews = p
    BY <1>1, <1>4, <1>6
  <2>2. HavePages(s.visits)
    BY <1>6 DEF PagesSoFar
  <2>3. HavePages(t.visits)
    BY <1>2, <2>1, <2>2 DEF HavePages
  <2> QED BY <1>1, <1>6, <2>3 DEF PagesSoFar
<1>7. CASE s.done < 6
  <2>1. PICK i \in Int, j \in Int, k \in Int, q \in Int :
          i = t.visits.sessions /\ j = t.visits.bounces /\ k = t.visits.duration /\ q = t.visits.pageviews
    BY <1>4
  <2>2. n >= 3 => i <= e
    <3>1. s.done \in 3..5 => a <= e
      BY <1>2, <1>3 DEF PagesSoFar
    <3> QED BY <1>1, <1>4, <1>7, <2>1, <3>1
  <2>3. n >= 4 => 2 * i - j <= h
    <3>1. s.done \in 4..5 => 2 * a - b <= h
      BY <1>2, <1>3 DEF PagesSoFar
    <3> QED BY <1>1, <1>4, <1>5, <1>7, <2>1, <2>2, <3>1
  <2>4. n >= 5 => 0 <= k /\ k <= Timeout * (h - i)
    <3>1. s.done = 5 => 0 <= c /\ c <= Timeout * (h - a)
      BY <1>2, <1>3 DEF PagesSoFar
    <3>2. CASE s.done = 5
      BY <1>1, <1>4, <2>1, <3>1, <3>2
    <3>3. CASE s.done < 5 /\ n >= 5
      <4>1. k = g /\ i <= e
        BY <1>1, <1>4, <2>1, <2>2, <3>3
      <4>2. PICK u \in Int, v \in Int : u = h - e /\ v = h - i
        OBVIOUS
      <4>3. Timeout * u \in Int /\ Timeout * v \in Int /\ Timeout * u <= Timeout * v
        BY <4>1, <4>2, LongerPause, Numbers
      <4>4. g <= Timeout * u
        BY <1>5, <4>2
      <4>5. g <= Timeout * v
        BY <4>3, <4>4
      <4> QED BY <1>5, <4>1, <4>2, <4>5
    <3> QED BY <1>1, <1>7, <3>2, <3>3
  <2>5. n >= 6 => q = h
    BY <1>1, <1>4, <1>7, <2>1
  <2>6. n >= 6 => HavePages(t.visits)
    BY <1>1, <2>1, <2>3, <2>4, <2>5 DEF HavePages
  <2>7. t.done \in 3..5 => t.visits.sessions <= y.sessions
    BY <1>1, <1>3, <2>1, <2>2
  <2>8. t.done \in 4..5 => 2 * t.visits.sessions - t.visits.bounces <= y.pageviews
    BY <1>1, <1>3, <2>1, <2>3
  <2>9. t.done = 5 => /\ 0 <= t.visits.duration
                      /\ t.visits.duration <= Timeout * (y.pageviews - t.visits.sessions)
    <3>1. y.pageviews - t.visits.sessions = h - i
      BY <1>3, <2>1
    <3> QED BY <1>1, <2>1, <2>4, <3>1
  <2>10. t.done >= 6 => HavePages(t.visits)
    BY <1>1, <2>6
  <2> QED BY <2>7, <2>8, <2>9, <2>10 DEF PagesSoFar
<1> QED BY <1>1, <1>6, <1>7

LEMMA AnswersFit ==
  ASSUME RoundsInv, NEW d \in Dates, NEW m, DayFits(day[d], m), NEW s, NEW kept,
         ReadingFits(s, day[d], m, kept), NEW n \in 1..Last, s.done < n
  PROVE  ReadingFits(Answers(s, d, n), day[d], m, kept)
<1>1. PICK t : t = Answers(s, d, n)
  OBVIOUS
<1>2. IsStats(s) /\ FiguresFit(s.visits, m, FALSE)
  BY DEF ReadingFits
<1>3. IsStats(t) /\ t.done = n
  BY <1>1, <1>2, AnswersShape DEF RoundsInv
<1>4. PICK y : y = day[d]
  OBVIOUS
<1>5. /\ DOMAIN t.visits = Quality
      /\ \A f \in Quality : t.visits[f] = IF s.done < Place[f] /\ Place[f] <= n
                                          THEN y[f] ELSE s.visits[f]
  BY <1>1, <1>4, AnswersAre
<1>6. DayFits(y, m)
  BY <1>4
<1>7. FiguresFit(t.visits, m, FALSE)
  <2>1. \A f \in Quality : t.visits[f] = y[f] \/ t.visits[f] = s.visits[f]
    BY <1>5
  <2>2. FiguresShape(t.visits)
    <3>1. {"sessions", "bounces", "duration", "pageviews", "entrances", "exits"} \subseteq Quality
      BY DEF Quality
    <3>2. FiguresShape(y) /\ FiguresShape(s.visits)
      BY <1>2, <1>6 DEF DayFits, FiguresFit
    <3> QED BY <2>1, <3>1, <3>2 DEF FiguresShape
  <2>3. OfVisits(y, m)
    <3>1. Total(y.entrances) \in Int /\ Total(y.exits) \in Int
      BY <1>6, TotalNumber DEF DayFits, FiguresShape
    <3>2. /\ y.sessions \in Nat /\ y.sessions <= m /\ m \in Nat /\ y.bounces \in Int
          /\ 0 <= y.bounces /\ y.bounces <= y.sessions
          /\ Total(y.entrances) <= y.sessions /\ Total(y.exits) <= y.sessions
      BY <1>6 DEF DayFits, FiguresShape, QualityMakesSense
    <3> QED BY <3>1, <3>2 DEF OfVisits
  <2>4. OfVisits(s.visits, m)
    BY <1>2 DEF FiguresFit
  <2>5. OfVisits(t.visits, m)
    <3>1. /\ t.visits.sessions = y.sessions \/ t.visits.sessions = s.visits.sessions
          /\ t.visits.bounces = y.bounces \/ t.visits.bounces = s.visits.bounces
          /\ t.visits.entrances = y.entrances \/ t.visits.entrances = s.visits.entrances
          /\ t.visits.exits = y.exits \/ t.visits.exits = s.visits.exits
      BY <2>1 DEF Quality
    <3> QED BY <2>3, <2>4, <3>1 DEF OfVisits
  <2> QED BY <1>5, <2>2, <2>5 DEF FiguresFit
<1>8. ASSUME PagesSoFar(s, y) PROVE PagesSoFar(t, y)
  <2>1. Answered(s, t, n, y)
    BY <1>3, <1>5 DEF Answered
  <2> QED BY <1>2, <1>6, <1>8, <2>1, PagesAnswered
<1> QED BY <1>1, <1>3, <1>4, <1>7, <1>8 DEF ReadingFits

\* What a round has read fits its day, and so does what is stored.
ReadingsInv ==
    /\ \A d \in Dates : FiguresFit(row[d].visits, most[d], d \notin cut)
    /\ \A w \in Flushers, d \in Dates : Busy(w) /\ Head(round[w].dates) = d
         => ReadingFits(round[w].stats, day[d], most[d], d \notin cut)

LEMMA ReadingsInit ==
  ASSUME DailyInit
  PROVE  ReadingsInv
<1>1. \A d \in Dates : row[d].visits = NoVisits /\ most[d] \in Nat
  BY DEF DailyInit, NoRow
<1>2. \A w \in Flushers : ~Busy(w)
  BY DEF DailyInit, Resting, Busy
<1> QED BY <1>1, <1>2, NoVisitsFit DEF ReadingsInv

\* A round that has read nothing yet.
LEMMA ReadingsFresh ==
  ASSUME RoundsInv, ReadingsInv, NEW w \in Flushers, round'[w].stats = NoStats,
         \A x \in Flushers : x # w => round'[x] = round[x],
         UNCHANGED <<day, cut, most>>,
         \A d \in Dates : FiguresFit(row'[d].visits, most[d], d \notin cut)
  PROVE  ReadingsInv'
<1>1. ASSUME NEW x \in Flushers, NEW d \in Dates, Busy(x)', Head(round'[x].dates) = d
      PROVE  ReadingFits(round'[x].stats, day[d], most[d], d \notin cut)
  <2>1. CASE x = w
    BY <2>1, NothingFits DEF RoundsInv, MostOK
  <2>2. CASE x # w
    BY <1>1, <2>2 DEF ReadingsInv, Busy
  <2> QED BY <2>1, <2>2
<1> QED BY <1>1 DEF ReadingsInv

LEMMA ReadingsRead ==
  ASSUME RoundsInv, ShapeInv, FiguresInv, ReadingsInv, NEW w \in Flushers, NEW n, NEW s, Reads(w, n, s)
  PROVE  ReadingsInv'
<1>1. PICK d \in Dates : d = Head(round[w].dates)
  BY ReadMoves
<1>2. /\ round'[w].dates = round[w].dates
      /\ round'[w].stats = Answers(round[w].stats, d, n)
      /\ \A x \in Flushers : x # w => round'[x] = round[x]
      /\ UNCHANGED <<day, row, cut, most>>
  BY <1>1, ReadMoves
<1>3. Busy(w) /\ n \in 1..Last /\ round[w].stats.done < n
  BY DEF Reads, Busy
<1>4. ReadingFits(round[w].stats, day[d], most[d], d \notin cut)
  BY <1>1, <1>3 DEF ReadingsInv
<1>5. ReadingFits(round'[w].stats, day[d], most[d], d \notin cut)
  BY <1>2, <1>3, <1>4, DayIsFit, AnswersFit
<1>6. ASSUME NEW x \in Flushers, NEW e \in Dates, Busy(x)', Head(round'[x].dates) = e
      PROVE  ReadingFits(round'[x].stats, day[e], most[e], e \notin cut)
  <2>1. CASE x = w
    BY <1>1, <1>2, <1>5, <1>6, <2>1
  <2>2. CASE x # w
    BY <1>2, <1>6, <2>2 DEF ReadingsInv, Busy
  <2> QED BY <2>1, <2>2
<1> QED BY <1>2, <1>6 DEF ReadingsInv

LEMMA ReadingsStep ==
  ASSUME RoundsInv, ShapeInv, FiguresInv, ReadingsInv, [DailyNext]_allVars
  PROVE  ReadingsInv'
<1>0. DailyCase
  BY DailyCases
<1>1. CASE UNCHANGED <<day, row, round, cut, most>>
  BY <1>1 DEF ReadingsInv, Busy
<1>2. CASE ViewsGoOn
  <2>1. RoundsInv' /\ KeysGrow /\ MostRises /\ UNCHANGED <<row, round, cut>>
    BY <1>2, ViewsMove
  <2>2. \A d \in Dates : FiguresFit(row[d].visits, most'[d], d \notin cut)
    BY <2>1, FitsMore DEF ReadingsInv, MostRises
  <2>3. ASSUME NEW w \in Flushers, NEW d \in Dates, Busy(w), Head(round[w].dates) = d
        PROVE  ReadingFits(round[w].stats, day'[d], most'[d], d \notin cut)
    <3>1. ReadingFits(round[w].stats, day[d], most[d], d \notin cut)
      BY <2>3 DEF ReadingsInv
    <3>2. IsDay(day[d]) /\ IsDay(day'[d]) /\ NoLess(day'[d], day[d])
      BY <2>1 DEF RoundsInv, DaysOK, KeysGrow
    <3>3. most[d] \in Nat /\ most'[d] \in Nat /\ most[d] <= most'[d]
      BY <2>1 DEF MostRises
    <3> QED BY <3>1, <3>2, <3>3, ReadingLater DEF IsDay, NoLess
  <2> QED BY <2>1, <2>2, <2>3 DEF ReadingsInv, Busy
<1>3. CASE RedisRestarts
  <2>1. /\ RoundsInv' /\ cut \subseteq cut' /\ UNCHANGED <<row, round, most>>
        /\ \A d \in Dates : day'[d] = EmptyDay
        /\ \A w \in Flushers : round[w].stage = "read" /\ round[w].stats.done >= 3
                                 => Head(round[w].dates) \in cut'
    BY <1>3, LossMoves
  <2>2. \A d \in Dates : FiguresFit(row[d].visits, most[d], d \notin cut')
    BY <2>1 DEF ReadingsInv, FiguresFit
  <2>3. ASSUME NEW w \in Flushers, NEW d \in Dates, Busy(w), Head(round[w].dates) = d
        PROVE  ReadingFits(round[w].stats, day'[d], most[d], d \notin cut')
    <3>1. ReadingFits(round[w].stats, day[d], most[d], d \notin cut)
      BY <2>3 DEF ReadingsInv
    <3>2. /\ round[w].stage \in {"read", "write"} /\ round[w].stats.done \in Nat
          /\ round[w].stage = "write" => round[w].stats.done = 10
      <4>1. IsRound(round[w]) /\ IsStats(round[w].stats)
        BY DEF RoundsInv, RoundsOK, IsRound
      <4>2. round[w].stats.done \in Nat
        BY <4>1, PlacesAre DEF IsStats
      <4> QED BY <2>3, <4>1, <4>2, PlacesAre DEF IsRound, Busy
    <3>3. ASSUME d \notin cut' PROVE PagesSoFar(round[w].stats, day'[d])
      <4>1. d \notin cut /\ PagesSoFar(round[w].stats, day[d])
        BY <2>1, <3>1, <3>3 DEF ReadingFits
      <4>2. CASE round[w].stats.done < 3
        BY <3>2, <4>2 DEF PagesSoFar
      <4>3. CASE round[w].stage = "write"
        BY <3>2, <4>1, <4>3 DEF PagesSoFar
      <4> QED BY <2>1, <2>3, <3>2, <3>3, <4>2, <4>3
    <3> QED BY <3>1, <3>3 DEF ReadingFits
  <2> QED BY <2>1, <2>2, <2>3 DEF ReadingsInv, Busy
<1>4. ASSUME NEW w \in Flushers, StartRound(w) PROVE ReadingsInv'
  <2>1. /\ round'[w].stats = NoStats /\ UNCHANGED <<day, row, cut, most>>
        /\ \A x \in Flushers : x # w => round'[x] = round[x]
    BY <1>4, StartMoves
  <2> QED BY <2>1, ReadingsFresh DEF ReadingsInv
<1>5. ASSUME NEW w \in Flushers, Skips(w) PROVE ReadingsInv'
  <2>1. /\ round'[w].stats = NoStats /\ UNCHANGED <<day, row, cut, most>>
        /\ \A x \in Flushers : x # w => round'[x] = round[x]
    BY <1>5, SkipMoves
  <2> QED BY <2>1, ReadingsFresh DEF ReadingsInv
<1>6. ASSUME NEW w \in Flushers, Upsert(w) PROVE ReadingsInv'
  <2>1. PICK d \in Dates : /\ d = Head(round[w].dates)
                           /\ row'[d].visits = Merge(row[d].visits, round[w].stats.visits)
                           /\ \A e \in Dates : e # d => row'[e] = row[e]
    BY <1>6, UpsertMoves
  <2>2. /\ round'[w].stats = NoStats /\ UNCHANGED <<day, cut, most>> /\ Busy(w)
        /\ \A x \in Flushers : x # w => round'[x] = round[x]
    BY <1>6, UpsertMoves
  <2>3. FiguresFit(round[w].stats.visits, most[d], d \notin cut)
    <3>1. round[w].stats.done = Last
      BY <1>6 DEF Upsert, RoundsInv, RoundsOK, IsRound
    <3>2. ReadingFits(round[w].stats, day[d], most[d], d \notin cut)
      BY <2>1, <2>2 DEF ReadingsInv
    <3> QED BY <3>1, <3>2, WholeReadingFits
  <2>4. FiguresFit(row'[d].visits, most[d], d \notin cut)
    BY <2>1, <2>3, MergeFits DEF ReadingsInv
  <2>5. \A e \in Dates : FiguresFit(row'[e].visits, most[e], e \notin cut)
    BY <2>1, <2>4 DEF ReadingsInv
  <2> QED BY <2>2, <2>5, ReadingsFresh
<1> QED BY <1>0, <1>1, <1>2, <1>3, <1>4, <1>5, <1>6, StillMoves, UnlockMoves, ReadingsRead DEF DailyCase

\* The session columns of a stored day come from one reading of its keys, between whose
\* commands views go on: it has read the visits before their pages, so there are two pages
\* for every visit that is no bounce and a pause for every longer one, unless Redis lost
\* its data meanwhile, and nothing exceeds the visits the day ever had (RowsMakeSense).
THEOREM RowsCorrect == DailySpec => []RowsMakeSense
<1>1. DailyInit => RoundsInv /\ ShapeInv /\ FiguresInv /\ ReadingsInv
  BY RoundsInit, ShapeInit, FiguresInit, ReadingsInit DEF DailyInit
<1>2. RoundsInv /\ ShapeInv /\ FiguresInv /\ ReadingsInv /\ [DailyNext]_allVars
        => RoundsInv' /\ ShapeInv' /\ FiguresInv' /\ ReadingsInv'
  BY RoundsNext, ViewsKeep, ReadingsStep
<1>3. ReadingsInv => RowsMakeSense
  BY DEF ReadingsInv, RowsMakeSense, FiguresFit
<1> QED BY <1>1, <1>2, <1>3, PTL DEF DailySpec

-----------------------------------------------------------------------------
(* Sums of figures (Reports). *)

LEMMA PlusHashIs ==
  ASSUME NEW a, NEW b, IsHash(a, Paths, Int), IsHash(b, Paths, Int)
  PROVE  /\ IsHash(PlusHash(a, b), Paths, Int)
         /\ Total(PlusHash(a, b)) = Total(a) + Total(b)
         /\ Total(a) \in Int /\ Total(b) \in Int
<1>1. PICK c : c = PlusHash(a, b)
  OBVIOUS
<1>2. DOMAIN c = DOMAIN a \cup DOMAIN b /\ \A p \in DOMAIN c : c[p] = Value(a, p) + Value(b, p)
  BY <1>1 DEF PlusHash
<1>3. \A p : Value(a, p) \in Int /\ Value(b, p) \in Int
  BY ValueType
<1>4. IsHash(c, Paths, Int)
  <2>1. IsFiniteSet(DOMAIN a \cup DOMAIN b)
    BY FS_Union DEF IsHash
  <2>2. c = [p \in DOMAIN c |-> c[p]]
    BY <1>1 DEF PlusHash
  <2>3. \A p \in DOMAIN c : c[p] \in Int
    BY <1>2, <1>3
  <2> QED BY <1>2, <2>1, <2>2, <2>3 DEF IsHash
<1>5. \A p \in Paths : Values(c, Paths)[p] = Values(a, Paths)[p] + Values(b, Paths)[p]
  <2>1. \A p \in Paths : Value(c, p) = Value(a, p) + Value(b, p)
    BY <1>2 DEF Value
  <2> QED BY <2>1 DEF Values
<1>6. \A p \in Paths : Values(a, Paths)[p] \in Int /\ Values(b, Paths)[p] \in Int
  BY <1>3 DEF Values
<1>7. /\ SumOf(Values(c, Paths), Paths) = SumOf(Values(a, Paths), Paths) + SumOf(Values(b, Paths), Paths)
      /\ SumOf(Values(a, Paths), Paths) \in Int /\ SumOf(Values(b, Paths), Paths) \in Int
  BY <1>5, <1>6, Finite, SumPlus
<1>8. /\ Total(a) = SumOf(Values(a, Paths), Paths) /\ Total(b) = SumOf(Values(b, Paths), Paths)
      /\ Total(c) = SumOf(Values(c, Paths), Paths)
  BY <1>4, Finite, TotalIs
<1> QED BY <1>1, <1>4, <1>7, <1>8

\* Durations that are short enough are so together.
LEMMA ShortTogether ==
  ASSUME NEW t \in Nat, NEW m \in Int, NEW n \in Int
  PROVE  t * m \in Int /\ t * n \in Int /\ t * (m + n) = t * m + t * n
BY SMT

LEMMA PlusVisitsFits ==
  ASSUME NEW a, NEW b, NEW m \in Nat, NEW n \in Nat, NEW kept,
         FiguresFit(a, m, kept), FiguresFit(b, n, kept)
  PROVE  FiguresFit(PlusVisits(a, b), m + n, kept)
<1>1. PICK c : c = PlusVisits(a, b)
  OBVIOUS
<1>2. /\ DOMAIN c = Quality
      /\ c.sessions = a.sessions + b.sessions /\ c.bounces = a.bounces + b.bounces
      /\ c.duration = a.duration + b.duration /\ c.pageviews = a.pageviews + b.pageviews
      /\ c.entrances = PlusHash(a.entrances, b.entrances) /\ c.exits = PlusHash(a.exits, b.exits)
  BY <1>1 DEF PlusVisits, Quality
<1>3. FiguresShape(a) /\ FiguresShape(b) /\ OfVisits(a, m) /\ OfVisits(b, n)
  BY DEF FiguresFit
<1>4. /\ IsHash(c.entrances, Paths, Int) /\ IsHash(c.exits, Paths, Int)
      /\ Total(c.entrances) = Total(a.entrances) + Total(b.entrances)
      /\ Total(c.exits) = Total(a.exits) + Total(b.exits)
      /\ Total(a.entrances) \in Int /\ Total(b.entrances) \in Int
      /\ Total(a.exits) \in Int /\ Total(b.exits) \in Int
  BY <1>2, <1>3, PlusHashIs DEF FiguresShape
<1>5. FiguresShape(c)
  BY <1>2, <1>3, <1>4 DEF FiguresShape
<1>6. ASSUME HavePages(a), HavePages(b)
      PROVE  0 <= c.duration /\ c.duration <= Timeout * (c.pageviews - c.sessions)
  <2>1. PICK i \in Int : i = a.pageviews - a.sessions
    BY <1>3 DEF FiguresShape
  <2>2. PICK j \in Int : j = b.pageviews - b.sessions
    BY <1>3 DEF FiguresShape
  <2>3. c.pageviews - c.sessions = i + j
    BY <1>2, <1>3, <2>1, <2>2 DEF FiguresShape
  <2>4. Timeout * i \in Int /\ Timeout * j \in Int /\ Timeout * (i + j) = Timeout * i + Timeout * j
    BY Numbers, ShortTogether
  <2>5. /\ 0 <= a.duration /\ a.duration <= Timeout * i
        /\ 0 <= b.duration /\ b.duration <= Timeout * j
    BY <1>6, <2>1, <2>2 DEF HavePages
  <2>6. a.duration \in Int /\ b.duration \in Int /\ c.duration = a.duration + b.duration
    BY <1>2, <1>3 DEF FiguresShape
  <2>7. PICK x \in Int, y \in Int : x = Timeout * i /\ y = Timeout * j
    BY <2>4
  <2>8. Timeout * (c.pageviews - c.sessions) = x + y
    BY <2>3, <2>4, <2>7
  <2> QED BY <2>5, <2>6, <2>7, <2>8
<1>7. ASSUME HavePages(a), HavePages(b)
      PROVE  2 * c.sessions - c.bounces <= c.pageviews
  BY <1>2, <1>3, <1>7 DEF FiguresShape, HavePages
<1>8. OfVisits(c, m + n)
  BY <1>2, <1>3, <1>4 DEF FiguresShape, OfVisits
<1>9. kept => HavePages(c)
  <2> SUFFICES ASSUME kept PROVE HavePages(c)
    OBVIOUS
  <2>1. HavePages(a) /\ HavePages(b)
    BY DEF FiguresFit
  <2> QED BY <1>6, <1>7, <2>1 DEF HavePages
<1> QED BY <1>1, <1>2, <1>5, <1>8, <1>9 DEF FiguresFit

\* g joins the days of report q on the sets of U.
Joins(g, q, U) ==
    g = [s \in U |-> IF s = {} THEN NoVisits
                     ELSE PlusVisits(g[s \ {Some(s)}], VisitsOf(q, Some(s)))]

\* The sets of up to n days.
UpTo(S, n) == {s \in SUBSET S : Cardinality(s) <= n}

\* What is left of a set of days.
LEMMA OneDayLess ==
  ASSUME NEW S, IsFiniteSet(S)
  PROVE  /\ UpTo(S, 0) = {{}} /\ UpTo(S, Cardinality(S)) = SUBSET S
         /\ \A n \in Nat : UpTo(S, n) \subseteq UpTo(S, n + 1)
         /\ \A n \in Nat : \A s \in UpTo(S, n + 1) \ {{}} : Some(s) \in s /\ s \ {Some(s)} \in UpTo(S, n)
<1>1. \A s \in SUBSET S : IsFiniteSet(s) /\ Cardinality(s) \in Nat /\ Cardinality(s) <= Cardinality(S)
  BY FS_Subset, FS_CardinalityType
<1>2. UpTo(S, 0) = {{}}
  BY <1>1, FS_EmptySet DEF UpTo
<1>3. ASSUME NEW n \in Nat, NEW s \in UpTo(S, n + 1) \ {{}}
      PROVE  Some(s) \in s /\ s \ {Some(s)} \in UpTo(S, n)
  <2>1. PICK x \in s : x = Some(s)
    BY <1>3 DEF Some
  <2>2. IsFiniteSet(s) /\ Cardinality(s) \in Nat /\ Cardinality(s) <= n + 1
    BY <1>1, <1>3 DEF UpTo
  <2>3. Cardinality(s \ {x}) = Cardinality(s) - 1
    BY <2>1, <2>2, FS_RemoveElement
  <2>4. s \ {x} \in SUBSET S
    BY <1>3 DEF UpTo
  <2> QED BY <2>1, <2>2, <2>3, <2>4 DEF UpTo
<1> QED BY <1>1, <1>2, <1>3 DEF UpTo

LEMMA JoinsExists ==
  ASSUME NEW q, NEW S, IsFiniteSet(S)
  PROVE  \E g : Joins(g, q, SUBSET S)
<1> DEFINE P == {n \in Nat : \E g : Joins(g, q, UpTo(S, n))}
<1>1. 0 \in P
  <2>1. \A s \in UpTo(S, 0) : s = {}
    BY OneDayLess
  <2>2. Joins([s \in UpTo(S, 0) |-> NoVisits], q, UpTo(S, 0))
    BY <2>1 DEF Joins
  <2> QED BY <2>2
<1>2. ASSUME NEW n \in Nat, n \in P PROVE n + 1 \in P
  <2>1. PICK g : Joins(g, q, UpTo(S, n))
    BY <1>2
  <2>2. PICK h : h = [s \in UpTo(S, n + 1) |-> IF s = {} THEN NoVisits
                        ELSE PlusVisits(g[s \ {Some(s)}], VisitsOf(q, Some(s)))]
    OBVIOUS
  <2>3. /\ UpTo(S, n) \subseteq UpTo(S, n + 1)
        /\ \A s \in UpTo(S, n + 1) : s # {} => s \ {Some(s)} \in UpTo(S, n)
    BY OneDayLess
  <2>4. \A s \in UpTo(S, n) : h[s] = g[s]
    BY <2>1, <2>2, <2>3 DEF Joins
  <2>5. Joins(h, q, UpTo(S, n + 1))
    BY <2>2, <2>3, <2>4 DEF Joins
  <2> QED BY <2>5
<1>3. Cardinality(S) \in P
  <2>1. \A n \in Nat : n \in P
    <3> HIDE DEF P
    <3> QED BY <1>1, <1>2, NatSetInduction
  <2> QED BY <2>1, FS_CardinalityType
<1>4. \E g : Joins(g, q, UpTo(S, Cardinality(S)))
  BY <1>3
<1>5. UpTo(S, Cardinality(S)) = SUBSET S
  BY OneDayLess
<1> QED BY <1>4, <1>5

LEMMA QualityIsFold ==
  ASSUME NEW q, NEW days, IsFiniteSet(Period(q, days))
  PROVE  \E g : Joins(g, q, SUBSET Period(q, days)) /\ SessionQuality(q, days) = g[Period(q, days)]
<1> DEFINE g == CHOOSE g : Joins(g, q, SUBSET Period(q, days))
<1>1. Joins(g, q, SUBSET Period(q, days))
  BY JoinsExists
<1>2. SessionQuality(q, days) = g[Period(q, days)]
  BY DEF SessionQuality, FoldSet, MapThenFoldSet, Joins, Some
<1> QED BY <1>1, <1>2

\* What fits the single days fits them together, however many.
LEMMA QualityOfDays ==
  ASSUME NEW q, NEW days, IsFiniteSet(Period(q, days)), NEW high, NEW kept,
         \A d \in Period(q, days) : high[d] \in Nat /\ FiguresFit(VisitsOf(q, d), high[d], kept)
  PROVE  FiguresFit(SessionQuality(q, days), SumOf(high, Period(q, days)), kept)
<1> DEFINE S == Period(q, days)
<1>1. PICK g : Joins(g, q, SUBSET S) /\ SessionQuality(q, days) = g[S]
  BY QualityIsFold
<1> DEFINE P == {n \in Nat : \A s \in UpTo(S, n) : FiguresFit(g[s], SumOf(high, s), kept)}
<1>2. \A s \in SUBSET S :
        g[s] = IF s = {} THEN NoVisits ELSE PlusVisits(g[s \ {Some(s)}], VisitsOf(q, Some(s)))
  BY <1>1 DEF Joins
<1> HIDE DEF S
<1>0. IsFiniteSet(S) /\ \A d \in S : high[d] \in Nat /\ FiguresFit(VisitsOf(q, d), high[d], kept)
  BY DEF S
<1>3. 0 \in P
  <2>1. \A s \in UpTo(S, 0) : s = {} /\ s \in SUBSET S
    BY <1>0, OneDayLess
  <2>2. SumOf(high, {}) \in Nat
    BY SumEmpty
  <2> QED BY <1>2, <2>1, <2>2, NoVisitsFit
<1>4. ASSUME NEW n \in Nat, n \in P PROVE n + 1 \in P
  <2> SUFFICES ASSUME NEW s \in UpTo(S, n + 1) PROVE FiguresFit(g[s], SumOf(high, s), kept)
    OBVIOUS
  <2>1. s \in SUBSET S
    BY DEF UpTo
  <2>2. CASE s = {}
    <3>1. SumOf(high, {}) \in Nat
      BY SumEmpty
    <3> QED BY <1>2, <2>1, <2>2, <3>1, NoVisitsFit
  <2>3. CASE s # {}
    <3>1. PICK x \in s : x = Some(s) /\ s \ {x} \in UpTo(S, n)
      BY <1>0, <2>3, OneDayLess
    <3>2. FiguresFit(g[s \ {x}], SumOf(high, s \ {x}), kept)
      BY <1>4, <3>1
    <3>3. FiguresFit(VisitsOf(q, x), high[x], kept) /\ high[x] \in Nat
      BY <1>0, <2>1
    <3>4. g[s] = PlusVisits(g[s \ {x}], VisitsOf(q, x))
      BY <1>2, <2>1, <2>3, <3>1
    <3>5. IsFiniteSet(s) /\ IsFiniteSet(s \ {x})
      BY <1>0, <2>1, FS_Subset
    <3>6. \A d \in s : high[d] \in Nat /\ high[d] \in Int
      BY <1>0, <2>1
    <3>7. SumOf(high, s \ {x}) \in Nat
      BY <3>5, <3>6, SumNat
    <3>8. SumOf(high, s) = high[x] + SumOf(high, s \ {x})
      BY <3>5, <3>6, SumRemove
    <3>9. SumOf(high, s) = SumOf(high, s \ {x}) + high[x]
      BY <3>3, <3>7, <3>8
    <3> QED BY <3>2, <3>3, <3>4, <3>7, <3>9, PlusVisitsFits
  <2> QED BY <2>2, <2>3
<1>5. \A n \in Nat : n \in P
  <2> HIDE DEF P
  <2> QED BY <1>3, <1>4, NatSetInduction
<1>6. S \in UpTo(S, Cardinality(S)) /\ Cardinality(S) \in Nat
  BY <1>0, OneDayLess, FS_CardinalityType
<1> QED BY <1>1, <1>5, <1>6 DEF S

-----------------------------------------------------------------------------
(* The most views of a day (Reports). *)

\* Counts of day d that were right at some time, each at its own, p being the peaks of
\* the days.
Fits(c, d, p) == IsCounts(c) /\ c.pv <= p[d] /\ c.uv <= p[d]

RoundsFit(p) ==
    \A w \in Flushers, d \in Dates : Busy(w) /\ Head(round[w].dates) = d
        => Fits(round[w].stats.counts, d, p)

PeakInv ==
    /\ DOMAIN peak = Dates /\ \A d \in Dates : peak[d] \in Nat
    /\ \A d \in Dates : Cardinality(day[d].uv) <= day[d].pv /\ day[d].pv <= peak[d]
    /\ \A d \in Dates : Fits(row[d].counts, d, peak)
    /\ RoundsFit(peak)

LEMMA FitsLater ==
  ASSUME NEW c, NEW d \in Dates, NEW p, NEW q, Fits(c, d, p), p[d] \in Nat, q[d] \in Nat, p[d] <= q[d]
  PROVE  Fits(c, d, q)
BY DEF Fits, IsCounts

LEMMA CountsFit ==
  ASSUME RoundsInv, PeakInv, NEW d \in Dates
  PROVE  Fits(Counts(d), d, peak)
<1>1. IsCounts(Counts(d)) /\ Counts(d).pv = day[d].pv /\ Counts(d).uv = Cardinality(day[d].uv)
  BY ReadShape DEF RoundsInv
<1>2. Cardinality(day[d].uv) <= day[d].pv /\ day[d].pv <= peak[d] /\ peak[d] \in Nat
  BY DEF PeakInv
<1> QED BY <1>1, <1>2 DEF Fits, IsCounts

LEMMA NothingCounted ==
  ASSUME NEW d \in Dates, NEW p, p[d] \in Nat
  PROVE  Fits(NoStats.counts, d, p) /\ Fits(NoCounts, d, p)
BY NothingRead DEF Fits, IsCounts, NoCounts

LEMMA AnswersCount ==
  ASSUME RoundsInv, PeakInv, NEW d \in Dates, NEW s, IsStats(s), Fits(s.counts, d, peak), NEW n \in 1..Last
  PROVE  Fits(Answers(s, d, n).counts, d, peak)
<1>1. PICK t : t = Answers(s, d, n)
  OBVIOUS
<1>2. IsStats(t)
  BY <1>1, AnswersShape DEF RoundsInv
<1>3. /\ t.counts.pv = Counts(d).pv \/ t.counts.pv = s.counts.pv
      /\ t.counts.uv = Counts(d).uv \/ t.counts.uv = s.counts.uv
  BY <1>1, AnswersAre
<1>4. Fits(Counts(d), d, peak)
  BY CountsFit
<1> QED BY <1>1, <1>2, <1>3, <1>4 DEF Fits, IsStats

\* A day has at most as many visitors as views.
LEMMA ViewersAreViews ==
  ASSUME RoundsInv, ShapeInv, DailyNext, NEW d \in Dates, Cardinality(day[d].uv) <= day[d].pv
  PROVE  Cardinality(day'[d].uv) <= day'[d].pv
<1>0. IsFiniteSet(day[d].uv) /\ Cardinality(day[d].uv) \in Nat /\ day[d].pv \in Nat
  BY FS_CardinalityType DEF RoundsInv, DaysOK, IsDay
<1>1. CASE day'[d].pv = day[d].pv /\ day'[d].uv = day[d].uv
  BY <1>1
<1>2. ASSUME NEW k \in Trackers, Count(k)
      PROVE  Cardinality(day'[d].uv) <= day'[d].pv
  <2>1. CountOf(k)
    BY <1>2, CountCases
  <2>2. CASE d # DateOf(hit[k].at)
    BY <2>1, <2>2 DEF CountOf
  <2>3. CASE d = DateOf(hit[k].at)
    <3>1. /\ day'[d].pv = day[d].pv + 1
          /\ day'[d].uv = day[d].uv \/ day'[d].uv = day[d].uv \cup {hit[k].who}
      BY <2>1, <2>3 DEF CountOf
    <3>2. CASE day'[d].uv = day[d].uv \cup {hit[k].who}
      <4>1. Cardinality(day[d].uv \cup {hit[k].who}) <= Cardinality(day[d].uv) + 1
        <5>1. Cardinality(day[d].uv \cup {hit[k].who}) =
                IF hit[k].who \in day[d].uv THEN Cardinality(day[d].uv) ELSE Cardinality(day[d].uv) + 1
          BY <1>0, FS_AddElement
        <5> QED BY <1>0, <5>1
      <4>2. Cardinality(day[d].uv \cup {hit[k].who}) \in Nat
        BY <1>0, FS_AddElement, FS_CardinalityType
      <4> QED BY <1>0, <3>1, <3>2, <4>1, <4>2
    <3> QED BY <1>0, <3>1, <3>2
  <2> QED BY <2>2, <2>3
<1>3. ASSUME NEW k \in Trackers, Update(k)
      PROVE  day'[d].pv = day[d].pv /\ day'[d].uv = day[d].uv
  <2>1. PICK e \in Dates : e = DateOf(hit[k].at)
    BY DateType
  <2> DEFINE s == Stored(hit[k].who)
             x == IF IsNew(hit[k], s) THEN OpenVisit(day[e], hit[k])
                                      ELSE ContinueVisit(day[e], hit[k], s)
  <2>2. UNCHANGED day \/ day' = [day EXCEPT ![e] = x]
    BY <1>3, <2>1 DEF Update
  <2>3. x.pv = day[e].pv /\ x.uv = day[e].uv
    BY <2>1, VisitShape DEF RoundsInv, DaysOK
  <2> HIDE DEF x, s
  <2> QED BY <2>1, <2>2, <2>3 DEF RoundsInv, DaysOK
<1>4. CASE RedisRestarts
  <2>1. day'[d] = EmptyDay
    BY <1>4, LossMoves
  <2>2. EmptyDay.uv = {} /\ EmptyDay.pv = 0
    BY DEF EmptyDay
  <2> QED BY <2>1, <2>2, FS_EmptySet
<1>5. CASE UNCHANGED day
  BY <1>1, <1>5
<1>6. ASSUME NEW w \in Flushers, RoundStep(w) \/ DayFails(w) \/ LoseLock(w)
      PROVE  UNCHANGED day
  BY <1>6 DEF RoundStep, StartRound, ReadSome, ReadRest, Upsert, DayFails, LoseLock, vars
<1> QED BY <1>1, <1>2, <1>3, <1>4, <1>5, <1>6
        DEF DailyNext, DailyWork, Track, Tick, Begin, Reserve, ReserveFails, Abandon

PeaksRise == \A d \in Dates : peak[d] \in Nat /\ peak'[d] \in Nat /\ peak[d] <= peak'[d]

LEMMA PeakRises ==
  ASSUME RoundsInv', PeakInv, peak' = [d \in Dates |-> Max({peak[d], day'[d].pv})]
  PROVE  /\ PeaksRise
         /\ DOMAIN peak' = Dates /\ \A d \in Dates : day'[d].pv \in Nat /\ day'[d].pv <= peak'[d]
<1> SUFFICES ASSUME NEW d \in Dates
             PROVE  /\ peak[d] \in Nat /\ peak'[d] \in Nat /\ peak[d] <= peak'[d]
                    /\ day'[d].pv \in Nat /\ day'[d].pv <= peak'[d]
  BY DEF PeaksRise
<1>1. day'[d].pv \in Nat
  BY DEF RoundsInv, DaysOK, IsDay
<1>2. peak[d] \in Nat
  BY DEF PeakInv
<1> QED BY <1>1, <1>2, MaxOfTwo

\* Rounds and rows hold what they held, or what a round has just read.
LEMMA HeldCounts ==
  ASSUME RoundsInv, PeakInv, DailyCase
  PROVE  /\ \A d \in Dates : Fits(row'[d].counts, d, peak)
         /\ \A w \in Flushers, d \in Dates : Busy(w)' /\ Head(round'[w].dates) = d
              => Fits(round'[w].stats.counts, d, peak)
<1> DEFINE Rows == \A d \in Dates : Fits(row'[d].counts, d, peak)
           Held == \A w \in Flushers, d \in Dates : Busy(w)' /\ Head(round'[w].dates) = d
                     => Fits(round'[w].stats.counts, d, peak)
<1>1. CASE UNCHANGED <<row, round>>
  BY <1>1 DEF PeakInv, RoundsFit, Busy
<1>2. ASSUME NEW w \in Flushers, round'[w].stats = NoStats,
             \A x \in Flushers : x # w => round'[x] = round[x]
      PROVE  Held
  <2> SUFFICES ASSUME NEW x \in Flushers, NEW d \in Dates, Busy(x)', Head(round'[x].dates) = d
               PROVE  Fits(round'[x].stats.counts, d, peak)
    OBVIOUS
  <2>1. CASE x = w
    BY <1>2, <2>1, NothingCounted DEF PeakInv
  <2>2. CASE x # w
    BY <1>2, <2>2 DEF PeakInv, RoundsFit, Busy
  <2> QED BY <2>1, <2>2
<1>3. ASSUME NEW w \in Flushers, NEW n, NEW s, Reads(w, n, s)
      PROVE  Rows /\ Held
  <2>1. PICK e \in Dates : e = Head(round[w].dates)
    BY <1>3, ReadMoves
  <2>2. /\ round'[w].dates = round[w].dates /\ UNCHANGED row
        /\ round'[w].stats = Answers(round[w].stats, e, n)
        /\ \A x \in Flushers : x # w => round'[x] = round[x]
    BY <1>3, <2>1, ReadMoves
  <2>3. IsStats(round[w].stats) /\ n \in 1..Last /\ Busy(w)
    BY <1>3, CountsTyped DEF Reads, Busy
  <2>4. Fits(round[w].stats.counts, e, peak)
    BY <2>1, <2>3 DEF PeakInv, RoundsFit
  <2>5. Fits(round'[w].stats.counts, e, peak)
    BY <2>2, <2>3, <2>4, AnswersCount
  <2>6. ASSUME NEW x \in Flushers, NEW d \in Dates, Busy(x)', Head(round'[x].dates) = d
        PROVE  Fits(round'[x].stats.counts, d, peak)
    <3>1. CASE x = w
      BY <2>1, <2>2, <2>5, <2>6, <3>1
    <3>2. CASE x # w
      BY <2>2, <2>6, <3>2 DEF PeakInv, RoundsFit, Busy
    <3> QED BY <3>1, <3>2
  <2> QED BY <2>2, <2>6 DEF PeakInv
<1>4. ASSUME NEW w \in Flushers, Upsert(w)
      PROVE  Rows /\ Held
  <2>1. PICK e \in Dates : /\ e = Head(round[w].dates)
                           /\ row'[e].counts = round[w].stats.counts
                           /\ \A f \in Dates : f # e => row'[f] = row[f]
    BY <1>4, UpsertMoves
  <2>2. Fits(round[w].stats.counts, e, peak)
    BY <1>4, <2>1, UpsertMoves DEF PeakInv, RoundsFit
  <2>3. Rows
    BY <2>1, <2>2 DEF PeakInv
  <2> QED BY <1>2, <1>4, <2>3, UpsertMoves
<1>5. ASSUME NEW w \in Flushers, StartRound(w) \/ Skips(w)
      PROVE  Rows /\ Held
  <2>1. /\ round'[w].stats = NoStats /\ UNCHANGED row
        /\ \A x \in Flushers : x # w => round'[x] = round[x]
    BY <1>5, StartMoves, SkipMoves
  <2> QED BY <1>2, <2>1 DEF PeakInv
<1>6. Rows /\ Held
  BY <1>1, <1>3, <1>4, <1>5, ViewsMove, LossMoves, StillMoves, UnlockMoves DEF DailyCase
<1> QED BY <1>6

LEMMA PeakStep ==
  ASSUME RoundsInv, ShapeInv, PeakInv, DailyNext,
         peak' = [d \in Dates |-> Max({peak[d], day'[d].pv})]
  PROVE  PeakInv' /\ PeaksRise
<1>1. RoundsInv' /\ DailyCase
  BY RoundsNext, DailyCases
<1>2. /\ PeaksRise
      /\ DOMAIN peak' = Dates /\ \A d \in Dates : day'[d].pv \in Nat /\ day'[d].pv <= peak'[d]
  BY <1>1, PeakRises
<1>3. \A c : \A d \in Dates : Fits(c, d, peak) => Fits(c, d, peak')
  BY <1>2, FitsLater DEF PeaksRise
<1>4. \A d \in Dates : Cardinality(day'[d].uv) <= day'[d].pv
  BY ViewersAreViews DEF PeakInv
<1>5. \A d \in Dates : Fits(row'[d].counts, d, peak')
  BY <1>1, <1>3, HeldCounts
<1>6. RoundsFit(peak)'
  BY <1>1, <1>3, HeldCounts DEF RoundsFit, Busy
<1> QED BY <1>2, <1>4, <1>5, <1>6 DEF PeakInv, PeaksRise

LEMMA PeakInit == ReportsInit => PeakInv
<1> SUFFICES ASSUME ReportsInit PROVE PeakInv
  OBVIOUS
<1>1. DOMAIN peak = Dates /\ \A d \in Dates : peak[d] = 0
  BY DEF ReportsInit
<1>2. \A d \in Dates : day[d].pv = 0 /\ Cardinality(day[d].uv) = 0
  <2>1. \A d \in Dates : day[d] = EmptyDay
    BY DEF ReportsInit, DailyInit, Init
  <2>2. EmptyDay.pv = 0 /\ EmptyDay.uv = {}
    BY DEF EmptyDay
  <2> QED BY <2>1, <2>2, FS_EmptySet
<1>3. \A d \in Dates : row[d].counts = NoCounts
  BY DEF ReportsInit, DailyInit, NoRow
<1>4. \A w \in Flushers : ~Busy(w)
  BY DEF ReportsInit, DailyInit, Resting, Busy
<1>5. \A d \in Dates : Fits(NoCounts, d, peak)
  BY <1>1, NothingCounted
<1> QED BY <1>1, <1>2, <1>3, <1>4, <1>5 DEF PeakInv, RoundsFit

-----------------------------------------------------------------------------
(* What a report has read (Reports). *)

ReportFields == {"stage", "kind", "end", "rows", "from", "live", "floor", "whole"}

\* The overview and the installation status read the rows last.
HasRows(q) == q.stage = "answer" \/ (q.stage \in {"live", "read"} /\ ~LiveFirst(q.kind))

\* Nothing has been asked of Redis.
NotAsked(q) == q.stage = "live" \/ (q.stage = "rows" /\ ~LiveFirst(q.kind))

\* x, p, m and c are the keys of the days, their peaks, their most visits and the cut days.
RowsFit(q, p, m, c) ==
    HasRows(q) => /\ DOMAIN q.rows = Dates
                  /\ \A d \in Dates : IF q.kind = "quality" THEN FiguresFit(q.rows[d], m[d], d \notin c)
                                                            ELSE Fits(q.rows[d], d, p)

LiveFits(q, x, p, m) ==
    /\ IsStats(q.live)
    /\ q.kind \in {"traffic", "overview"} =>
         IF q.from = 0 THEN q.live.counts = NoCounts ELSE Fits(q.live.counts, q.from, p)
    /\ q.kind = "installation" /\ q.live.counts.pv > 0 => \E d \in Dates : p[d] > 0
    /\ q.kind = "quality" /\ q.from # 0 =>
         /\ ReadingFits(q.live, x[q.from], m[q.from], q.whole)
         /\ q.stage = "answer" => q.live.done = Last

\* The views there were when it began are still in the keys, and in what it read.
FloorKept(q, x) ==
    q.whole => /\ q.floor <= x[q.end].pv
               /\ q.from = q.end /\ q.kind # "quality" /\ (q.stage = "read" => q.live.done # 0)
                    => q.floor <= q.live.counts.pv

ReportOK(q, x, p, m, c) ==
    /\ DOMAIN q = ReportFields /\ q.stage \in {"idle", "rows", "live", "read", "answer"}
    /\ q.stage # "idle" =>
         /\ q.kind \in Kinds /\ q.end \in Dates /\ q.from \in Dates \cup {0} /\ q.floor \in Nat
         /\ NotAsked(q) => q.from = 0 /\ q.live = NoStats
         /\ q.stage = "read" => /\ q.from # 0 /\ q.kind # "installation"
                                /\ q.live.done < LastNeeded(q.kind)
         /\ RowsFit(q, p, m, c) /\ LiveFits(q, x, p, m) /\ FloorKept(q, x)

ReportsInv == DOMAIN report = Readers /\ \A r \in Readers : ReportOK(report[r], day, peak, most, cut)

\* What is known of the days later: more was counted, and if Redis kept its data the keys grew.
Later(x, y, p, u, m, n, c, e, kept) ==
    /\ \A d \in Dates : p[d] \in Nat /\ u[d] \in Nat /\ p[d] <= u[d]
    /\ \A d \in Dates : m[d] \in Nat /\ n[d] \in Nat /\ m[d] <= n[d]
    /\ \A d \in Dates : IsDay(x[d]) /\ IsDay(y[d])
    /\ c \subseteq e
    /\ kept => \A d \in Dates : NoLess(y[d], x[d])

\* A report stays right while more is counted, and knows of a loss.
LEMMA ReportLater ==
  ASSUME NEW q, NEW x, NEW y, NEW p, NEW u, NEW m, NEW n, NEW c, NEW e, NEW z,
         ReportOK(q, x, p, m, c), z = q \/ z = [q EXCEPT !.whole = FALSE],
         Later(x, y, p, u, m, n, c, e, q.stage # "idle" /\ z.whole)
  PROVE  ReportOK(z, y, u, n, e)
<1>1. /\ DOMAIN z = ReportFields
      /\ z.stage = q.stage /\ z.kind = q.kind /\ z.end = q.end /\ z.rows = q.rows
      /\ z.from = q.from /\ z.live = q.live /\ z.floor = q.floor
      /\ z.whole => q.whole
  BY DEF ReportOK, ReportFields
<1>2. CASE z.stage = "idle"
  BY <1>1, <1>2 DEF ReportOK
<1>3. CASE z.stage # "idle"
  <2>1. /\ q.kind \in Kinds /\ q.end \in Dates /\ q.from \in Dates \cup {0} /\ q.floor \in Nat
        /\ NotAsked(q) => q.from = 0 /\ q.live = NoStats
        /\ q.stage = "read" => q.from # 0 /\ q.kind # "installation" /\ q.live.done < LastNeeded(q.kind)
        /\ RowsFit(q, p, m, c) /\ LiveFits(q, x, p, m) /\ FloorKept(q, x)
    BY <1>1, <1>3 DEF ReportOK
  <2>2. ASSUME z.whole PROVE \A d \in Dates : NoLess(y[d], x[d])
    BY <1>1, <1>3, <2>2 DEF Later
  <2>3. ASSUME NEW k, NEW d \in Dates, Fits(k, d, p) PROVE Fits(k, d, u)
    BY <2>3, FitsLater DEF Later
  <2>4. RowsFit(z, u, n, e)
    <3>1. ASSUME NEW d \in Dates, NEW f, FiguresFit(f, m[d], d \notin c)
          PROVE  FiguresFit(f, n[d], d \notin e)
      BY <3>1, FitsMore DEF Later
    <3> QED BY <1>1, <2>1, <2>3, <3>1 DEF RowsFit, HasRows
  <2>5. LiveFits(z, y, u, n)
    <3>1. CASE q.kind \in {"traffic", "overview"}
      BY <1>1, <2>1, <2>3, <3>1 DEF LiveFits
    <3>2. CASE q.kind = "installation"
      <4>1. ASSUME \E d \in Dates : p[d] > 0 PROVE \E d \in Dates : u[d] > 0
        BY <4>1 DEF Later
      <4> QED BY <1>1, <2>1, <3>2, <4>1 DEF LiveFits
    <3>3. CASE q.kind = "quality"
      <4>1. ASSUME q.from # 0 PROVE ReadingFits(z.live, y[z.from], n[z.from], z.whole)
        <5>1. PICK d \in Dates : d = q.from
          BY <2>1, <4>1
        <5>2. ReadingFits(q.live, x[d], m[d], q.whole)
          BY <2>1, <3>3, <4>1, <5>1 DEF LiveFits
        <5>3. m[d] \in Nat /\ n[d] \in Nat /\ m[d] <= n[d] /\ IsDay(x[d]) /\ IsDay(y[d])
          BY DEF Later
        <5>4. CASE z.whole
          <6>1. ReadingFits(q.live, x[d], m[d], z.whole)
            BY <1>1, <5>2, <5>4 DEF ReadingFits
          <6>2. NoLess(y[d], x[d])
            BY <2>2, <5>4
          <6> QED BY <1>1, <5>1, <5>3, <6>1, <6>2, ReadingLater DEF IsDay, NoLess
        <5>5. CASE ~z.whole
          <6>1. FiguresFit(q.live.visits, n[d], FALSE)
            BY <5>2, <5>3, FitsMore DEF ReadingFits
          <6> QED BY <1>1, <5>1, <5>2, <5>5, <6>1 DEF ReadingFits
        <5> QED BY <5>4, <5>5
      <4> QED BY <1>1, <2>1, <3>3, <4>1 DEF LiveFits
    <3> QED BY <2>1, <3>1, <3>2, <3>3 DEF Kinds
  <2>6. FloorKept(z, y)
    <3> SUFFICES ASSUME z.whole PROVE FloorKept(z, y)
      BY DEF FloorKept
    <3>1. q.whole
      BY <1>1
    <3>2. x[q.end].pv <= y[q.end].pv /\ x[q.end].pv \in Nat /\ y[q.end].pv \in Nat
      BY <2>1, <2>2 DEF Later, IsDay, NoLess
    <3> QED BY <1>1, <2>1, <3>1, <3>2 DEF FloorKept
  <2>7. NotAsked(z) <=> NotAsked(q)
    BY <1>1 DEF NotAsked
  <2> QED BY <1>1, <2>1, <2>4, <2>5, <2>6, <2>7 DEF ReportOK
<1> QED BY <1>2, <1>3

LEMMA NoReportIs ==
  /\ DOMAIN NoReport = ReportFields /\ NoReport.stage = "idle" /\ NoReport.from = 0
  /\ NoReport.live = NoStats /\ \A x, p, m, c : ReportOK(NoReport, x, p, m, c)
BY DEF NoReport, ReportFields, ReportOK

\* A reader goes on.
LEMMA ReaderMoves ==
  ASSUME ReportsInv, NEW r \in Readers, NEW z, report' = [report EXCEPT ![r] = z],
         ReportOK(z, day, peak, most, cut), UNCHANGED <<day, peak, most, cut>>
  PROVE  ReportsInv'
BY DEF ReportsInv

LEMMA QuietIs == Quiet => UNCHANGED <<day, peak, most, cut>>
BY DEF Quiet, allVars, vars, dailyVars

LEMMA AskStep ==
  ASSUME ReportsInv, RoundsInv, NEW r \in Readers, NEW kind \in Kinds, Ask(r, kind)
  PROVE  ReportsInv'
<1>1. PICK d \in Dates : d = DateOf(now)
  BY DateType
<1>2. PICK s \in {"live", "rows"} : s = IF LiveFirst(kind) THEN "live" ELSE "rows"
  OBVIOUS
<1>3. PICK z : z = [NoReport EXCEPT !.stage = s, !.kind = kind, !.end = d, !.floor = day[d].pv]
  OBVIOUS
<1>4. report' = [report EXCEPT ![r] = z] /\ UNCHANGED <<day, peak, most, cut>>
  BY <1>1, <1>2, <1>3, QuietIs DEF Ask
<1>5. /\ DOMAIN z = ReportFields /\ z.stage = s /\ z.kind = kind /\ z.end = d
      /\ z.floor = day[d].pv /\ z.live = NoStats /\ z.from = 0
  BY <1>3, NoReportIs DEF ReportFields
<1>6. day[d].pv \in Nat
  BY DEF RoundsInv, DaysOK, IsDay
<1>7. ~HasRows(z)
  BY <1>2, <1>5 DEF HasRows
<1>8. LiveFits(z, day, peak, most)
  <2>1. z.live.counts = NoCounts /\ IsStats(z.live) /\ ~(NoCounts.pv > 0)
    BY <1>5, NothingRead DEF NoCounts
  <2> QED BY <1>5, <2>1 DEF LiveFits
<1>9. FloorKept(z, day)
  <2>1. z.from # z.end
    BY <1>5 DEF Dates
  <2> QED BY <1>5, <1>6, <2>1 DEF FloorKept
<1>10. ReportOK(z, day, peak, most, cut)
  BY <1>5, <1>6, <1>7, <1>8, <1>9 DEF ReportOK, RowsFit
<1> QED BY <1>4, <1>10, ReaderMoves

LEMMA ReadRowsStep ==
  ASSUME ReportsInv, PeakInv, ReadingsInv, NEW r \in Readers, ReadRows(r)
  PROVE  ReportsInv'
<1>1. PICK q : q = report[r]
  OBVIOUS
<1>2. ReportOK(q, day, peak, most, cut) /\ q.stage = "rows"
  BY <1>1 DEF ReadRows, ReportsInv
<1>3. PICK f : f = [d \in Dates |-> IF q.kind = "quality" THEN row[d].visits ELSE row[d].counts]
  OBVIOUS
<1>4. PICK s \in {"answer", "live"} : s = IF LiveFirst(q.kind) THEN "answer" ELSE "live"
  OBVIOUS
<1>5. PICK z : z = [q EXCEPT !.rows = f, !.stage = s]
  OBVIOUS
<1>6. report' = [report EXCEPT ![r] = z] /\ UNCHANGED <<day, peak, most, cut>>
  BY <1>1, <1>3, <1>4, <1>5, QuietIs DEF ReadRows, ReportsInv
<1>7. /\ DOMAIN z = ReportFields /\ z.stage = s /\ z.kind = q.kind /\ z.end = q.end
      /\ z.floor = q.floor /\ z.live = q.live /\ z.from = q.from /\ z.rows = f /\ z.whole = q.whole
  BY <1>2, <1>5 DEF ReportOK, ReportFields
<1>8. /\ q.kind \in Kinds /\ q.end \in Dates /\ q.from \in Dates \cup {0} /\ q.floor \in Nat
      /\ ~LiveFirst(q.kind) => q.from = 0 /\ q.live = NoStats
      /\ LiveFits(q, day, peak, most) /\ FloorKept(q, day)
  BY <1>2 DEF ReportOK, NotAsked
<1>9. RowsFit(z, peak, most, cut)
  BY <1>3, <1>7 DEF RowsFit, PeakInv, ReadingsInv
<1>10. FloorKept(z, day)
  BY <1>2, <1>4, <1>7, <1>8 DEF FloorKept
<1>11. LiveFits(z, day, peak, most)
  <2>1. z.kind = "quality" => z.from = 0
    BY <1>7, <1>8 DEF LiveFirst
  <2> QED BY <1>7, <1>8, <2>1 DEF LiveFits
<1>12. ReportOK(z, day, peak, most, cut)
  BY <1>4, <1>7, <1>8, <1>9, <1>10, <1>11 DEF ReportOK, NotAsked
<1> QED BY <1>6, <1>12, ReaderMoves

LEMMA DatesFinite == IsFiniteSet(Dates)
<1>1. IsFiniteSet(({} \cup {1}) \cup {2})
  BY FS_EmptySet, FS_AddElement
<1> QED BY <1>1 DEF Dates

\* Something was viewed if all days together have views.
LEMMA TotalViews ==
  ASSUME RoundsInv
  PROVE  /\ AllViews \in Nat
         /\ \A d \in Dates : day[d].pv <= AllViews
         /\ AllViews > 0 => \E d \in Dates : day[d].pv > 0
<1> DEFINE f == [d \in Dates |-> day[d].pv]
<1>1. AllViews = Total(f)
  BY DEF AllViews
<1>2. DOMAIN f = Dates /\ \A d \in Dates : f[d] = day[d].pv
  OBVIOUS
<1>0. \A d \in Dates : day[d].pv \in Nat
  BY DEF RoundsInv, DaysOK, IsDay
<1> HIDE DEF f
<1>3. Total(f) = SumOf(f, Dates)
  BY <1>2 DEF Total, SumOf
<1>4. IsFiniteSet(Dates)
  BY DatesFinite
<1>5. SumOf(f, Dates) \in Nat /\ \A d \in Dates : f[d] <= SumOf(f, Dates)
  BY <1>0, <1>2, <1>4, SumNat
<1>6. ASSUME \A d \in Dates : f[d] = 0 PROVE SumOf(f, Dates) = 0
  BY <1>4, <1>6, SumZero
<1> QED BY <1>0, <1>1, <1>2, <1>3, <1>5, <1>6

LEMMA LastNeededIs ==
  ASSUME NEW kind \in Kinds
  PROVE  /\ LastNeeded(kind) \in 2..Last /\ Before(kind) \in {0, 2} /\ Before(kind) < LastNeeded(kind)
         /\ kind = "quality" => LastNeeded(kind) = Last
         /\ kind # "quality" => Before(kind) = 0
BY PlacesAre DEF LastNeeded, Before

\* Now it is asked of the day the clock shows.
LEMMA AskLiveStep ==
  ASSUME ReportsInv, RoundsInv, PeakInv, NEW r \in Readers, AskLive(r)
  PROVE  ReportsInv'
<1>1. PICK q : q = report[r]
  OBVIOUS
<1>2. ReportOK(q, day, peak, most, cut) /\ q.stage = "live" /\ q.kind # "installation"
  BY <1>1 DEF AskLive, ReportsInv
<1>3. /\ q.kind \in Kinds /\ q.end \in Dates /\ q.from = 0 /\ q.live = NoStats /\ q.floor \in Nat
      /\ RowsFit(q, peak, most, cut) /\ FloorKept(q, day)
  BY <1>2 DEF ReportOK, NotAsked
<1>4. PICK d \in Dates : d = DateOf(now)
  BY DateType
<1>5. PICK b \in {0, 2} : b = Before(q.kind) /\ b < LastNeeded(q.kind)
  BY <1>3, LastNeededIs
<1>6. PICK l : l = [NoStats EXCEPT !.done = b]
  OBVIOUS
<1>7. /\ IsStats(l) /\ l.done = b /\ l.counts = NoCounts /\ l.visits = NoVisits
  BY <1>6, NothingRead, PlacesAre DEF IsStats
<1>8. PICK z : z = [q EXCEPT !.stage = "read", !.from = d, !.live = l]
  OBVIOUS
<1>9. report' = [report EXCEPT ![r] = z] /\ UNCHANGED <<day, peak, most, cut>>
  <2>1. report' = [report EXCEPT ![r] = [q EXCEPT !.stage = "read", !.from = d,
                                                  !.live = [q.live EXCEPT !.done = b]]]
    BY <1>1, <1>2, <1>4, <1>5 DEF AskLive, ReportsInv, ReportOK, ReportFields
  <2> QED BY <1>3, <1>6, <1>8, <2>1, QuietIs DEF AskLive
<1>10. /\ DOMAIN z = ReportFields /\ z.stage = "read" /\ z.kind = q.kind /\ z.end = q.end
       /\ z.floor = q.floor /\ z.live = l /\ z.from = d /\ z.rows = q.rows /\ z.whole = q.whole
  BY <1>2, <1>8 DEF ReportOK, ReportFields
<1>11. RowsFit(z, peak, most, cut)
  BY <1>2, <1>3, <1>10 DEF RowsFit, HasRows
<1>12. LiveFits(z, day, peak, most)
  <2>1. Fits(NoCounts, d, peak)
    BY NothingCounted DEF PeakInv
  <2>2. ReadingFits(l, day[d], most[d], q.whole)
    <3>1. PagesSoFar(l, day[d])
      BY <1>5, <1>7 DEF PagesSoFar
    <3>2. FiguresFit(l.visits, most[d], FALSE)
      BY <1>7, NoVisitsFit DEF RoundsInv, MostOK
    <3> QED BY <1>7, <3>1, <3>2 DEF ReadingFits
  <2>3. d # 0 /\ z.stage # "answer"
    BY <1>10 DEF Dates
  <2> QED BY <1>2, <1>7, <1>10, <2>1, <2>2, <2>3 DEF LiveFits
<1>13. FloorKept(z, day)
  <2>1. q.kind # "quality" => l.done = 0
    BY <1>3, <1>5, <1>7, LastNeededIs
  <2> QED BY <1>3, <1>10, <2>1 DEF FloorKept
<1>14. ReportOK(z, day, peak, most, cut)
  <2>1. d # 0 /\ ~NotAsked(z)
    BY <1>10 DEF Dates, NotAsked
  <2> QED BY <1>2, <1>3, <1>5, <1>7, <1>10, <1>11, <1>12, <1>13, <2>1 DEF ReportOK
<1> QED BY <1>9, <1>14, ReaderMoves

LEMMA ReadLiveStep ==
  ASSUME ReportsInv, RoundsInv, ShapeInv, FiguresInv, PeakInv, NEW r \in Readers, ReadLive(r)
  PROVE  ReportsInv'
<1>1. PICK q : q = report[r]
  OBVIOUS
<1>2. ReportOK(q, day, peak, most, cut) /\ q.stage = "read"
  BY <1>1 DEF ReadLive, ReportsInv
<1>3. /\ q.kind \in Kinds /\ q.end \in Dates /\ q.from \in Dates \cup {0} /\ q.floor \in Nat
      /\ q.from # 0 /\ q.kind # "installation" /\ q.live.done < LastNeeded(q.kind)
      /\ RowsFit(q, peak, most, cut) /\ LiveFits(q, day, peak, most) /\ FloorKept(q, day)
  BY <1>2 DEF ReportOK
<1>4. PICK d \in Dates : d = q.from
  BY <1>3
<1>5. PICK n \in Cuts \cup {LastNeeded(q.kind)} :
        /\ q.live.done < n /\ n <= LastNeeded(q.kind)
        /\ report' = [report EXCEPT
             ![r].live = Answers(@, d, n),
             ![r].stage = IF n = LastNeeded(q.kind) THEN AfterLive(q.kind) ELSE "read"]
  BY <1>1, <1>4 DEF ReadLive
<1>6. n \in 1..Last
  BY <1>3, LastNeededIs, DailyAssumption, PlacesAre DEF DailyAssumption
<1>7. PICK s \in {"read", "rows", "answer"} :
        s = IF n = LastNeeded(q.kind) THEN AfterLive(q.kind) ELSE "read"
  BY DEF AfterLive
<1>8. PICK l : l = Answers(q.live, d, n)
  OBVIOUS
<1>9. PICK z : z = [q EXCEPT !.live = l, !.stage = s]
  OBVIOUS
<1>10. report' = [report EXCEPT ![r] = z] /\ UNCHANGED <<day, peak, most, cut>>
  BY <1>1, <1>2, <1>5, <1>7, <1>8, <1>9, QuietIs DEF ReadLive, ReportsInv, ReportOK, ReportFields
<1>11. /\ DOMAIN z = ReportFields /\ z.stage = s /\ z.kind = q.kind /\ z.end = q.end
       /\ z.floor = q.floor /\ z.live = l /\ z.from = d /\ z.rows = q.rows /\ z.whole = q.whole
  BY <1>2, <1>4, <1>9 DEF ReportOK, ReportFields
<1>12. IsStats(q.live) /\ IsStats(l) /\ l.done = n
  <2>1. IsStats(q.live) /\ DaysOK
    BY <1>3 DEF LiveFits, RoundsInv
  <2> QED BY <1>6, <1>8, <2>1, AnswersShape
<1>13. d # 0 /\ n # 0
  BY <1>6, PlacesAre DEF Dates
<1>14. s = "rows" => LiveFirst(q.kind)
  BY <1>7 DEF AfterLive
<1>15. RowsFit(z, peak, most, cut)
  <2>1. HasRows(z) => HasRows(q)
    <3>1. s = "answer" => ~LiveFirst(q.kind)
      BY <1>7 DEF AfterLive
    <3> QED BY <1>2, <1>11, <3>1 DEF HasRows
  <2> QED BY <1>3, <1>11, <2>1 DEF RowsFit
<1>16. LiveFits(z, day, peak, most)
  <2>1. CASE q.kind = "quality"
    <3>1. ReadingFits(q.live, day[d], most[d], q.whole)
      BY <1>3, <1>4, <2>1 DEF LiveFits
    <3>2. ReadingFits(l, day[d], most[d], q.whole)
      BY <1>5, <1>6, <1>8, <3>1, DayIsFit, AnswersFit
    <3>3. s = "answer" => n = Last
      BY <1>3, <1>7, <2>1, LastNeededIs
    <3> QED BY <1>11, <1>12, <2>1, <3>2, <3>3 DEF LiveFits
  <2>2. CASE q.kind \in {"traffic", "overview"}
    <3>1. Fits(q.live.counts, d, peak)
      BY <1>3, <1>4, <2>2 DEF LiveFits
    <3>2. Fits(l.counts, d, peak)
      BY <1>6, <1>8, <1>12, <3>1, AnswersCount
    <3> QED BY <1>11, <1>12, <1>13, <2>2, <3>2 DEF LiveFits
  <2> QED BY <1>3, <2>1, <2>2 DEF Kinds
<1>17. FloorKept(z, day)
  <2> SUFFICES ASSUME q.whole, d = q.end, q.kind # "quality"
               PROVE  q.floor <= l.counts.pv
    BY <1>3, <1>11 DEF FloorKept
  <2>1. q.floor <= day[d].pv
    BY <1>3 DEF FloorKept
  <2>2. l.counts.pv = IF q.live.done < 1 /\ 1 <= n THEN Counts(d).pv ELSE q.live.counts.pv
    BY <1>8, AnswersAre, PlacesAre
  <2>3. Counts(d).pv = day[d].pv
    BY DEF Counts
  <2>4. q.live.done \in Nat /\ n \in Nat /\ 1 <= n
    BY <1>6, <1>12, PlacesAre DEF IsStats
  <2>5. CASE q.live.done = 0
    BY <2>1, <2>2, <2>3, <2>4, <2>5
  <2>6. CASE q.live.done # 0
    BY <1>3, <1>4, <2>2, <2>4, <2>6 DEF FloorKept
  <2> QED BY <2>5, <2>6
<1>18. ReportOK(z, day, peak, most, cut)
  <2>1. s = "read" => n < LastNeeded(q.kind)
    <3>1. LastNeeded(q.kind) \in Nat /\ n \in Nat
      BY <1>3, <1>6, LastNeededIs, PlacesAre
    <3>2. s = "read" => n # LastNeeded(q.kind)
      BY <1>7 DEF AfterLive
    <3> QED BY <1>5, <3>1, <3>2
  <2>2. ~NotAsked(z)
    BY <1>7, <1>11, <1>14 DEF NotAsked
  <2> QED BY <1>3, <1>11, <1>12, <1>13, <1>15, <1>16, <1>17, <2>1, <2>2 DEF ReportOK
<1> QED BY <1>10, <1>18, ReaderMoves

LEMMA ReadInstallationStep ==
  ASSUME ReportsInv, RoundsInv, PeakInv, NEW r \in Readers, ReadInstallation(r)
  PROVE  ReportsInv'
<1>1. PICK q : q = report[r]
  OBVIOUS
<1>2. ReportOK(q, day, peak, most, cut) /\ q.stage = "live" /\ q.kind = "installation"
  BY <1>1 DEF ReadInstallation, ReportsInv
<1>3. /\ q.kind \in Kinds /\ q.end \in Dates /\ q.live = NoStats /\ q.floor \in Nat
      /\ FloorKept(q, day)
  BY <1>2 DEF ReportOK, NotAsked
<1>4. PICK n : n = AllViews
  OBVIOUS
<1>5. n \in Nat /\ (\A e \in Dates : day[e].pv <= n) /\ (n > 0 => \E e \in Dates : day[e].pv > 0)
  BY <1>4, TotalViews
<1>6. PICK l : l = [NoStats EXCEPT !.counts = [NoCounts EXCEPT !.pv = n]]
  OBVIOUS
<1>7. IsStats(l) /\ l.counts.pv = n
  <2>1. PICK c : c = [NoCounts EXCEPT !.pv = n]
    OBVIOUS
  <2>2. IsCounts(c) /\ c.pv = n
    BY <1>5, <2>1 DEF IsCounts, NoCounts
  <2>3. DOMAIN l = {"done", "counts", "visits"} /\ l.done = 0 /\ l.counts = c /\ l.visits = NoVisits
    BY <1>6, <2>1, NothingRead DEF IsStats
  <2> QED BY <2>2, <2>3, NothingRead, PlacesAre DEF IsStats
<1>8. PICK z : z = [q EXCEPT !.stage = "rows", !.from = q.end, !.live = l]
  OBVIOUS
<1>9. report' = [report EXCEPT ![r] = z] /\ UNCHANGED <<day, peak, most, cut>>
  <2>1. report' = [report EXCEPT ![r] = [q EXCEPT !.stage = "rows", !.from = q.end,
                       !.live = [NoStats EXCEPT !.counts = [NoStats.counts EXCEPT !.pv = n]]]]
    BY <1>1, <1>2, <1>3, <1>4, NothingRead
       DEF ReadInstallation, ReportsInv, ReportOK, ReportFields, IsStats, NoCounts
  <2> QED BY <1>6, <1>8, <2>1, NothingRead, QuietIs DEF ReadInstallation
<1>10. /\ DOMAIN z = ReportFields /\ z.stage = "rows" /\ z.kind = q.kind /\ z.end = q.end
       /\ z.floor = q.floor /\ z.live = l /\ z.from = q.end /\ z.whole = q.whole
  BY <1>2, <1>8 DEF ReportOK, ReportFields
<1>11. LiveFits(z, day, peak, most)
  <2>1. \A e \in Dates : day[e].pv \in Nat /\ peak[e] \in Nat /\ day[e].pv <= peak[e]
    BY DEF PeakInv, RoundsInv, DaysOK, IsDay
  <2>2. n > 0 => \E e \in Dates : peak[e] > 0
    BY <1>5, <2>1
  <2> QED BY <1>2, <1>7, <1>10, <2>2 DEF LiveFits
<1>12. FloorKept(z, day)
  <2>1. q.whole => q.floor <= day[q.end].pv
    BY <1>3 DEF FloorKept
  <2>2. day[q.end].pv \in Nat /\ day[q.end].pv <= n
    BY <1>3, <1>5 DEF RoundsInv, DaysOK, IsDay
  <2> QED BY <1>3, <1>5, <1>7, <1>10, <2>1, <2>2 DEF FloorKept
<1>13. ReportOK(z, day, peak, most, cut)
  <2>1. ~NotAsked(z) /\ ~HasRows(z)
    BY <1>2, <1>10 DEF NotAsked, HasRows, LiveFirst
  <2> QED BY <1>3, <1>10, <1>11, <1>12, <2>1 DEF ReportOK, RowsFit
<1> QED BY <1>9, <1>13, ReaderMoves

LEMMA ReadLiveFailsStep ==
  ASSUME ReportsInv, NEW r \in Readers, ReadLiveFails(r)
  PROVE  ReportsInv'
<1>1. PICK q : q = report[r]
  OBVIOUS
<1>2. ReportOK(q, day, peak, most, cut) /\ q.stage \in {"live", "read"} /\ UNCHANGED <<day, peak, most, cut>>
  BY <1>1 DEF ReadLiveFails, ReportsInv, dailyVars
<1>3. CASE q.kind = "overview"
  <2>1. report' = [report EXCEPT ![r] = NoReport]
    BY <1>1, <1>3 DEF ReadLiveFails, ReportsInv
  <2> QED BY <1>2, <2>1, NoReportIs, ReaderMoves
<1>4. CASE q.kind # "overview"
  <2>1. PICK s \in {"rows", "answer"} : s = AfterLive(q.kind)
    BY DEF AfterLive
  <2>2. PICK z : z = [q EXCEPT !.stage = s, !.from = 0, !.live = NoStats]
    OBVIOUS
  <2>3. report' = [report EXCEPT ![r] = z]
    BY <1>1, <1>4, <2>1, <2>2 DEF ReadLiveFails, ReportsInv
  <2>4. /\ DOMAIN z = ReportFields /\ z.stage = s /\ z.kind = q.kind /\ z.end = q.end
        /\ z.floor = q.floor /\ z.live = NoStats /\ z.from = 0 /\ z.rows = q.rows
        /\ z.whole = q.whole
    BY <1>2, <2>2 DEF ReportOK, ReportFields
  <2>5. /\ q.kind \in Kinds /\ q.end \in Dates /\ q.floor \in Nat
        /\ RowsFit(q, peak, most, cut) /\ FloorKept(q, day)
    BY <1>2 DEF ReportOK
  <2>6. RowsFit(z, peak, most, cut)
    <3>1. s = "answer" => ~LiveFirst(q.kind)
      BY <2>1 DEF AfterLive
    <3>2. HasRows(z) => HasRows(q)
      BY <1>2, <2>4, <3>1 DEF HasRows
    <3> QED BY <2>4, <2>5, <3>2 DEF RowsFit
  <2>7. FloorKept(z, day)
    <3>1. z.from # z.end
      BY <2>4, <2>5 DEF Dates
    <3> QED BY <2>4, <2>5, <3>1 DEF FloorKept
  <2>8. LiveFits(z, day, peak, most)
    <3>1. IsStats(NoStats) /\ NoStats.counts = NoCounts /\ ~(NoCounts.pv > 0)
      BY NothingRead DEF NoCounts
    <3> QED BY <2>4, <3>1 DEF LiveFits
  <2>9. ReportOK(z, day, peak, most, cut)
    BY <2>1, <2>4, <2>5, <2>6, <2>7, <2>8 DEF ReportOK
  <2> QED BY <1>2, <2>3, <2>9, ReaderMoves
<1> QED BY <1>3, <1>4

LEMMA ReportStep ==
  ASSUME ReportsInv, RoundsInv, ShapeInv, FiguresInv, ReadingsInv, PeakInv,
         NEW r \in Readers, Report(r)
  PROVE  ReportsInv'
<1>1. CASE ReadRowsFails(r) \/ Answer(r)
  <2>1. report' = [report EXCEPT ![r] = NoReport] /\ UNCHANGED <<day, peak, most, cut>>
    BY <1>1, QuietIs DEF ReadRowsFails, Answer, dailyVars
  <2> QED BY <2>1, NoReportIs, ReaderMoves
<1> QED BY <1>1, AskStep, ReadRowsStep, AskLiveStep, ReadLiveStep, ReadInstallationStep,
           ReadLiveFailsStep DEF Report

\* What the rounds and the views leave of a report.
LEMMA ReportsAside ==
  ASSUME ReportsInv, RoundsInv, RoundsInv', PeaksRise, MostRises, cut \subseteq cut',
         \/ KeysGrow /\ UNCHANGED report
         \/ report' = [r \in Readers |-> IF report[r].stage = "idle" THEN report[r]
                                         ELSE [report[r] EXCEPT !.whole = FALSE]]
  PROVE  ReportsInv'
<1>1. DOMAIN report' = Readers
  BY DEF ReportsInv
<1> SUFFICES ASSUME NEW r \in Readers PROVE ReportOK(report'[r], day', peak', most', cut')
  BY <1>1 DEF ReportsInv
<1>2. PICK q : q = report[r]
  OBVIOUS
<1>3. ReportOK(q, day, peak, most, cut)
  BY <1>2 DEF ReportsInv
<1>4. PICK z : z = report'[r]
  OBVIOUS
<1>5. \/ KeysGrow /\ z = q
      \/ z = IF q.stage = "idle" THEN q ELSE [q EXCEPT !.whole = FALSE]
  BY <1>2, <1>4
<1>6. ASSUME q.stage # "idle", z.whole PROVE KeysGrow
  BY <1>3, <1>5, <1>6 DEF ReportOK, ReportFields
<1>7. z = q \/ z = [q EXCEPT !.whole = FALSE]
  BY <1>5
<1>8. Later(day, day', peak, peak', most, most', cut, cut', q.stage # "idle" /\ z.whole)
  <2>1. \A d \in Dates : IsDay(day[d]) /\ IsDay(day'[d])
    BY DEF RoundsInv, DaysOK
  <2>2. q.stage # "idle" /\ z.whole => \A d \in Dates : NoLess(day'[d], day[d])
    BY <1>6 DEF KeysGrow
  <2> QED BY <2>1, <2>2 DEF Later, PeaksRise, MostRises
<1>9. ReportOK(z, day', peak', most', cut')
  BY <1>3, <1>7, <1>8, ReportLater
<1> QED BY <1>4, <1>9

-----------------------------------------------------------------------------
(* The readers beside everything else. *)

ReadersInv == /\ RoundsInv /\ ShapeInv /\ FiguresInv /\ ReadingsInv
              /\ PeakInv /\ ReportsInv

\* A report writes nothing, but a failure of it is counted.
LEMMA ReportAside ==
  ASSUME NEW r, Report(r)
  PROVE  /\ UNCHANGED <<now, hit, guard, day, sess, views, seen, late, capped, torn, dailyVars,
                        most, peak>>
         /\ faults' = faults \/ (faults < MaxFaults /\ faults' = faults + 1)
BY DEF Report, Ask, ReadRows, ReadRowsFails, AskLive, ReadLive, ReadInstallation, ReadLiveFails,
       Answer, Quiet, allVars, vars

LEMMA RestAside ==
  ASSUME RoundsInv, ShapeInv, FiguresInv, ReadingsInv, PeakInv,
         UNCHANGED <<now, hit, guard, day, sess, views, seen, late, capped, torn, dailyVars,
                     most, peak>>,
         faults' = faults \/ (faults < MaxFaults /\ faults' = faults + 1)
  PROVE  RoundsInv' /\ ShapeInv' /\ FiguresInv' /\ ReadingsInv' /\ PeakInv'
<1>1. UNCHANGED <<row, round, leader, spent, lost, overlapped, cut>>
  BY DEF dailyVars
<1>2. RoundsInv'
  BY <1>1 DEF RoundsInv, DaysOK, RowsOK, RoundsOK, LockOK, MostOK, Busy
<1>3. ReadingsInv'
  BY <1>1 DEF ReadingsInv, Busy
<1>7. PeakInv'
  BY <1>1 DEF PeakInv, RoundsFit, Busy
<1>4. ClockInv'
  <2>1. faults \in 0..MaxFaults /\ now \in 0..MaxTime /\ views \in 0..MaxViews
    BY DEF ShapeInv, ClockInv
  <2>2. faults' \in 0..MaxFaults
    BY <2>1, Numbers
  <2> QED BY <2>1, <2>2 DEF ClockInv
<1>5. HitInv' /\ SessInv' /\ DayInv' /\ GuardInv'
  BY DEF ShapeInv, HitInv, SessInv, DayInv, GuardInv
<1>6. FiguresInv'
  BY DEF FiguresInv
<1> QED BY <1>2, <1>3, <1>4, <1>5, <1>6, <1>7 DEF ShapeInv

LEMMA ReadersInit == ReportsInit => ReadersInv
<1> SUFFICES ASSUME ReportsInit PROVE ReadersInv
  OBVIOUS
<1>1. RoundsInv /\ ShapeInv /\ FiguresInv /\ ReadingsInv
  BY RoundsInit, ShapeInit, FiguresInit, ReadingsInit DEF ReportsInit, DailyInit
<1>2. DOMAIN report = Readers /\ \A r \in Readers : report[r] = NoReport
  BY DEF ReportsInit
<1> QED BY <1>1, <1>2, PeakInit, NoReportIs DEF ReadersInv, ReportsInv

\* Of the keys and what is known of them: work adds, only a loss of Redis takes away.
LEMMA WorkAside ==
  ASSUME RoundsInv, DailyNext
  PROVE  MostRises /\ cut \subseteq cut' /\ (DailyWork => KeysGrow)
<1>1. DailyCase
  BY DailyCases
<1>2. ASSUME NEW w \in Flushers, RoundStep(w) \/ DayFails(w) \/ LoseLock(w)
      PROVE  UNCHANGED <<day, cut, most>>
  BY <1>2 DEF RoundStep, StartRound, ReadSome, ReadRest, Upsert, DayFails, LoseLock, vars
<1>3. UNCHANGED <<day, cut, most>> => MostRises /\ cut \subseteq cut' /\ KeysGrow
  BY SameIsNoLess DEF RoundsInv, DaysOK, MostOK, MostRises, KeysGrow
<1>4. CASE ViewsGoOn
  BY <1>4, ViewsMove
<1>5. CASE RedisRestarts
  <2>1. cut \subseteq cut' /\ UNCHANGED most
    BY <1>5, LossMoves
  <2>2. MostRises
    BY <2>1 DEF RoundsInv, MostOK, MostRises
  <2>3. DailyWork => KeysGrow
    BY <1>2, <1>3, ViewsMove DEF DailyWork, ViewsGoOn
  <2> QED BY <2>1, <2>2, <2>3
<1> QED BY <1>2, <1>3, <1>4, <1>5 DEF DailyNext, DailyWork, ViewsGoOn

LEMMA ReadersNext ==
  ASSUME ReadersInv, [ReportsNext]_<<allVars, reportVars>>
  PROVE  ReadersInv'
<1>0. RoundsInv /\ ShapeInv /\ FiguresInv /\ ReadingsInv /\ PeakInv /\ ReportsInv
  BY DEF ReadersInv
<1>1. CASE /\ \/ DailyWork /\ UNCHANGED report
              \/ /\ RedisRestarts
                 /\ report' = [r \in Readers |-> IF report[r].stage = "idle" THEN report[r]
                                                 ELSE [report[r] EXCEPT !.whole = FALSE]]
           /\ peak' = [d \in Dates |-> Max({peak[d], day'[d].pv})]
  <2>0. DailyNext
    BY <1>1 DEF DailyNext
  <2>1. RoundsInv' /\ ShapeInv' /\ FiguresInv' /\ ReadingsInv'
    BY <1>0, <2>0, RoundsNext, ViewsKeep, ReadingsStep
  <2>2. PeakInv' /\ PeaksRise
    BY <1>0, <1>1, <2>0, PeakStep
  <2>3. MostRises /\ cut \subseteq cut' /\ (DailyWork => KeysGrow)
    BY <1>0, <2>0, WorkAside
  <2>4. ReportsInv'
    BY <1>0, <1>1, <2>1, <2>2, <2>3, ReportsAside
  <2> QED BY <2>1, <2>2, <2>4 DEF ReadersInv
<1>2. ASSUME NEW r \in Readers, Report(r)
      PROVE  ReadersInv'
  <2>1. RoundsInv' /\ ShapeInv' /\ FiguresInv' /\ ReadingsInv' /\ PeakInv'
    BY <1>0, <1>2, ReportAside, RestAside
  <2>2. ReportsInv'
    BY <1>0, <1>2, ReportStep
  <2> QED BY <2>1, <2>2 DEF ReadersInv
<1>3. CASE UNCHANGED <<allVars, reportVars>>
  <2>1. UNCHANGED <<now, hit, guard, day, sess, views, seen, late, capped, torn, dailyVars, most, peak>>
        /\ faults' = faults /\ report' = report
    BY <1>3 DEF allVars, vars, reportVars
  <2>2. RoundsInv' /\ ShapeInv' /\ FiguresInv' /\ ReadingsInv' /\ PeakInv'
    BY <1>0, <2>1, RestAside
  <2>3. ReportsInv'
    BY <1>0, <2>1 DEF ReportsInv, dailyVars
  <2> QED BY <2>2, <2>3 DEF ReadersInv
<1> QED BY <1>1, <1>2, <1>3 DEF ReportsNext

LEMMA ReadersHold == ReportsSpec => []ReadersInv
BY ReadersInit, ReadersNext, PTL DEF ReportsSpec

-----------------------------------------------------------------------------
(* What a report shows. *)

LEMMA LastDayShown ==
  ASSUME PeakInv, NEW q, ReportOK(q, day, peak, most, cut), q.stage = "answer", q.kind = "traffic"
  PROVE  /\ IsCounts(Today(q))
         /\ FloorOfToday(q) \in Nat /\ FloorOfToday(q) <= Today(q).pv
         /\ PeakOfToday(q) \in Nat /\ Today(q).pv <= PeakOfToday(q) /\ Today(q).uv <= PeakOfToday(q)
<1>1. /\ q.end \in Dates /\ q.from \in Dates \cup {0} /\ q.floor \in Nat
      /\ Fits(q.rows[q.end], q.end, peak) /\ LiveFits(q, day, peak, most) /\ FloorKept(q, day)
  BY DEF ReportOK, RowsFit, HasRows
<1>2. PICK a : a = q.rows[q.end]
  OBVIOUS
<1>3. IsCounts(a) /\ a.pv <= peak[q.end] /\ a.uv <= peak[q.end] /\ peak[q.end] \in Nat
  BY <1>1, <1>2 DEF Fits, PeakInv
<1>4. CASE q.from = 0
  <2>1. Today(q) = a /\ PeakOfToday(q) = peak[q.end] /\ FloorOfToday(q) = 0
    BY <1>1, <1>2, <1>4 DEF Today, PeakOfToday, HighestOfToday, FloorOfToday, Dates
  <2> QED BY <1>3, <2>1 DEF IsCounts
<1>5. CASE q.from # 0
  <2>1. PICK b : b = q.live.counts
    OBVIOUS
  <2>2. PICK d \in Dates : d = q.from
    BY <1>1, <1>5
  <2>3. IsCounts(b) /\ b.pv <= peak[d] /\ b.uv <= peak[d] /\ peak[d] \in Nat
    BY <1>1, <1>5, <2>1, <2>2 DEF LiveFits, Fits, PeakInv
  <2>4. PICK m : m = MaxPoint(a, b)
    OBVIOUS
  <2>5. m.pv = Max({a.pv, b.pv}) /\ m.uv = Max({a.uv, b.uv})
    BY <2>4 DEF MaxPoint
  <2>6. /\ m.pv \in Nat /\ a.pv <= m.pv /\ b.pv <= m.pv /\ (m.pv = a.pv \/ m.pv = b.pv)
        /\ m.uv \in Nat /\ (m.uv = a.uv \/ m.uv = b.uv)
    <3>1. a.pv \in Nat /\ b.pv \in Nat /\ a.uv \in Nat /\ b.uv \in Nat
      BY <1>3, <2>3 DEF IsCounts
    <3>2. /\ Max({a.pv, b.pv}) \in Nat /\ a.pv <= Max({a.pv, b.pv}) /\ b.pv <= Max({a.pv, b.pv})
          /\ Max({a.pv, b.pv}) = a.pv \/ Max({a.pv, b.pv}) = b.pv
      BY <3>1, MaxOfTwo
    <3>3. /\ Max({a.uv, b.uv}) \in Nat /\ (Max({a.uv, b.uv}) = a.uv \/ Max({a.uv, b.uv}) = b.uv)
      BY <3>1, MaxOfTwo
    <3> QED BY <2>5, <3>2, <3>3
  <2>7. PICK n : n = Max({peak[q.end], peak[d]})
    OBVIOUS
  <2>8. n \in Nat /\ peak[q.end] <= n /\ peak[d] <= n
    BY <1>3, <2>3, <2>7, MaxOfTwo
  <2>9. Today(q) = m /\ PeakOfToday(q) = n
    BY <1>2, <1>5, <2>1, <2>2, <2>4, <2>7 DEF Today, PeakOfToday, HighestOfToday
  <2>10. m.pv <= n /\ m.uv <= n
    BY <1>3, <2>3, <2>6, <2>8 DEF IsCounts
  <2>11. FloorOfToday(q) \in Nat /\ FloorOfToday(q) <= m.pv
    <3>1. CASE q.whole /\ q.from = q.end
      <4>1. FloorOfToday(q) = q.floor /\ q.floor <= b.pv
        BY <1>1, <2>1, <3>1 DEF FloorOfToday, FloorKept
      <4> QED BY <1>1, <2>3, <2>6, <4>1 DEF IsCounts
    <3>2. CASE ~(q.whole /\ q.from = q.end)
      BY <2>6, <3>2 DEF FloorOfToday
    <3> QED BY <3>1, <3>2
  <2> QED BY <2>6, <2>8, <2>9, <2>10, <2>11 DEF IsCounts
<1> QED BY <1>4, <1>5

LEMMA TrendShown ==
  ASSUME PeakInv, NEW q, ReportOK(q, day, peak, most, cut), q.stage = "answer", q.kind = "traffic",
         NEW days \in Ranges
  PROVE  /\ FloorOfToday(q) <= Trend(q, days)[q.end].pv /\ Trend(q, days)[q.end].pv <= PeakOfToday(q)
         /\ Trend(q, days)[q.end].uv <= PeakOfToday(q)
         /\ \A d \in EarlierDays(q, days) : /\ Trend(q, days)[d].pv <= peak[d]
                                            /\ Trend(q, days)[d].uv <= peak[d]
<1>1. days \in Nat \ {0}
  BY ReportsAssumption DEF ReportsAssumption
<1>2. q.end \in Dates /\ \A d \in Dates : Fits(q.rows[d], d, peak)
  BY DEF ReportOK, RowsFit, HasRows
<1>3. q.end \in Period(q, days) /\ Period(q, days) \subseteq Dates
  BY <1>1, <1>2 DEF Period, Dates
<1>4. \A d \in Period(q, days) : Trend(q, days)[d] = IF d = q.end THEN Today(q) ELSE q.rows[d]
  BY DEF Trend
<1>5. EarlierDays(q, days) = Period(q, days) \ {q.end}
  BY DEF EarlierDays
<1> QED BY <1>2, <1>3, <1>4, <1>5, LastDayShown DEF Fits

LEMMA OverviewShown ==
  ASSUME PeakInv, NEW q, ReportOK(q, day, peak, most, cut), q.stage = "answer", q.kind = "overview"
  PROVE  /\ FloorOfToday(q) <= Overview(q).today.pv
         /\ Overview(q).today.pv <= PeakOfToday(q)
         /\ Overview(q).today.uv <= PeakOfToday(q)
         /\ q.end = 2 => Overview(q).yesterday.pv <= peak[1]
<1>1. /\ q.end \in Dates /\ q.from \in Dates \cup {0} /\ q.floor \in Nat
      /\ LiveFits(q, day, peak, most) /\ FloorKept(q, day)
      /\ \A d \in Dates : Fits(q.rows[d], d, peak)
  BY DEF ReportOK, RowsFit, HasRows
<1>2. \A d \in Dates : peak[d] \in Nat
  BY DEF PeakInv
<1>3. PICK c : c = q.live.counts /\ Overview(q).today = c
  BY DEF Overview
<1>4. ASSUME q.end = 2 PROVE Overview(q).yesterday.pv <= peak[1]
  <2>1. PICK d \in Dates : d = 1
    BY DEF Dates
  <2>2. Overview(q).yesterday = q.rows[d]
    BY <1>4, <2>1 DEF Overview
  <2> QED BY <1>1, <2>1, <2>2 DEF Fits
<1>5. CASE q.from = 0
  <2>1. c = NoCounts /\ PeakOfToday(q) = peak[q.end] /\ FloorOfToday(q) = 0
    BY <1>1, <1>3, <1>5 DEF LiveFits, PeakOfToday, HighestOfToday, FloorOfToday, Dates
  <2> QED BY <1>1, <1>2, <1>3, <1>4, <2>1 DEF NoCounts
<1>6. CASE q.from # 0
  <2>1. PICK d \in Dates : d = q.from
    BY <1>1, <1>6
  <2>2. IsCounts(c) /\ c.pv <= peak[d] /\ c.uv <= peak[d]
    BY <1>1, <1>3, <1>6, <2>1 DEF LiveFits, Fits
  <2>3. PICK n : n = Max({peak[q.end], peak[d]})
    OBVIOUS
  <2>4. n \in Nat /\ peak[d] <= n
    BY <1>1, <1>2, <2>3, MaxOfTwo
  <2>5. PeakOfToday(q) = n
    BY <1>6, <2>1, <2>3 DEF PeakOfToday, HighestOfToday
  <2>6. c.pv <= n /\ c.uv <= n
    BY <1>2, <2>2, <2>4 DEF IsCounts
  <2>7. FloorOfToday(q) <= c.pv
    BY <1>1, <1>3, <2>2 DEF FloorOfToday, FloorKept, IsCounts
  <2> QED BY <1>3, <1>4, <2>5, <2>6, <2>7
<1> QED BY <1>5, <1>6

LEMMA InstallationShown ==
  ASSUME PeakInv, NEW q, ReportOK(q, day, peak, most, cut), q.stage = "answer", q.kind = "installation"
  PROVE  /\ Installed(q) => \E d \in Dates : peak[d] > 0
         /\ FloorOfToday(q) > 0 => Installed(q)
<1>1. /\ q.end \in Dates /\ q.from \in Dates \cup {0} /\ q.floor \in Nat
      /\ LiveFits(q, day, peak, most) /\ FloorKept(q, day)
      /\ \A d \in Dates : Fits(q.rows[d], d, peak)
  BY DEF ReportOK, RowsFit, HasRows
<1>2. \A d \in Dates : peak[d] \in Nat
  BY DEF PeakInv
<1>3. ASSUME Installed(q) PROVE \E d \in Dates : peak[d] > 0
  <2>1. CASE q.live.counts.pv > 0
    BY <1>1, <2>1 DEF LiveFits
  <2>2. CASE \E d \in Dates : q.rows[d].pv > 0
    BY <1>1, <1>2, <2>2 DEF Fits, IsCounts
  <2> QED BY <1>3, <2>1, <2>2 DEF Installed
<1>4. ASSUME FloorOfToday(q) > 0 PROVE Installed(q)
  <2>1. q.whole /\ q.from = q.end /\ q.floor > 0
    BY <1>4 DEF FloorOfToday
  <2>2. q.floor <= q.live.counts.pv /\ q.live.counts.pv \in Nat
    BY <1>1, <2>1 DEF FloorKept, LiveFits, IsStats, IsCounts
  <2> QED BY <1>1, <2>1, <2>2 DEF Installed
<1> QED BY <1>3, <1>4

\* Every report shows, for the last day, no fewer views than there were when it was
\* asked for while Redis answers, and on no day more views or visitors than the views
\* that were ever counted at once, wherever views, rounds, syncs and losses of Redis
\* come into its readings and between them (ReportsBracketed).
THEOREM ReportsBetweenReadings == ReportsSpec => []ReportsBracketed
<1>1. ReadersInv => ReportsBracketed
  <2> SUFFICES ASSUME ReadersInv, NEW r \in Readers
               PROVE  LET q == report[r]
                      IN /\ Answering(r, "traffic") => \A days \in Ranges :
                              LET trend == Trend(q, days)
                              IN /\ FloorOfToday(q) <= trend[q.end].pv
                                 /\ trend[q.end].pv <= PeakOfToday(q)
                                 /\ trend[q.end].uv <= PeakOfToday(q)
                                 /\ \A d \in EarlierDays(q, days) :
                                      trend[d].pv <= peak[d] /\ trend[d].uv <= peak[d]
                         /\ Answering(r, "overview") =>
                              /\ FloorOfToday(q) <= Overview(q).today.pv
                              /\ Overview(q).today.pv <= PeakOfToday(q)
                              /\ Overview(q).today.uv <= PeakOfToday(q)
                              /\ q.end = 2 => Overview(q).yesterday.pv <= peak[1]
                         /\ Answering(r, "installation") =>
                              /\ Installed(q) => \E d \in Dates : peak[d] > 0
                              /\ FloorOfToday(q) > 0 => Installed(q)
    BY DEF ReportsBracketed
  <2>1. PICK q : q = report[r]
    OBVIOUS
  <2>2. PeakInv /\ ReportOK(q, day, peak, most, cut)
    BY <2>1 DEF ReadersInv, ReportsInv
  <2>3. ASSUME Answering(r, "traffic"), NEW days \in Ranges
        PROVE  LET trend == Trend(q, days)
               IN /\ FloorOfToday(q) <= trend[q.end].pv /\ trend[q.end].pv <= PeakOfToday(q)
                  /\ trend[q.end].uv <= PeakOfToday(q)
                  /\ \A d \in EarlierDays(q, days) :
                       trend[d].pv <= peak[d] /\ trend[d].uv <= peak[d]
    BY <2>1, <2>2, <2>3, TrendShown DEF Answering
  <2>4. ASSUME Answering(r, "overview")
        PROVE  /\ FloorOfToday(q) <= Overview(q).today.pv
               /\ Overview(q).today.pv <= PeakOfToday(q)
               /\ Overview(q).today.uv <= PeakOfToday(q)
               /\ q.end = 2 => Overview(q).yesterday.pv <= peak[1]
    BY <2>1, <2>2, <2>4, OverviewShown DEF Answering
  <2>5. ASSUME Answering(r, "installation")
        PROVE  /\ Installed(q) => \E d \in Dates : peak[d] > 0
               /\ FloorOfToday(q) > 0 => Installed(q)
    BY <2>1, <2>2, <2>5, InstallationShown DEF Answering
  <2> QED BY <2>1, <2>3, <2>4, <2>5
<1> QED BY <1>1, ReadersHold, PTL

\* What the rows of some days show together.
LEMMA RowsBelowPeaks ==
  ASSUME PeakInv, NEW q, NEW dates \in SUBSET Dates, \A d \in Dates : Fits(q.rows[d], d, peak)
  PROVE  /\ RowsTotal(q, dates).pv \in Nat /\ RowsTotal(q, dates).uv \in Nat
         /\ SumOf(peak, dates) \in Nat /\ RowsTotal(q, dates).pv <= SumOf(peak, dates)
<1> DEFINE f == [d \in dates |-> q.rows[d].pv]
           e == [d \in dates |-> q.rows[d].uv]
<1>1. IsFiniteSet(dates)
  BY DatesFinite, FS_Subset
<1>2. RowsTotal(q, dates).pv = Total(f) /\ RowsTotal(q, dates).uv = Total(e)
  BY DEF RowsTotal
<1>3. DOMAIN f = dates /\ DOMAIN e = dates /\ \A d \in dates : f[d] = q.rows[d].pv /\ e[d] = q.rows[d].uv
  OBVIOUS
<1> HIDE DEF f, e
<1>4. Total(f) = SumOf(f, dates) /\ Total(e) = SumOf(e, dates)
  BY <1>3 DEF Total, SumOf
<1>5. \A d \in dates : f[d] \in Nat /\ e[d] \in Nat /\ peak[d] \in Nat /\ f[d] <= peak[d]
  BY <1>3 DEF Fits, IsCounts, PeakInv
<1>6. SumOf(f, dates) \in Nat /\ SumOf(e, dates) \in Nat /\ SumOf(peak, dates) \in Nat
  BY <1>1, <1>5, SumNat
<1>7. SumOf(f, dates) <= SumOf(peak, dates)
  <2>1. \A d \in dates : f[d] \in Int /\ peak[d] \in Int /\ f[d] <= peak[d]
    BY <1>5
  <2> QED BY <1>1, <2>1, SumAtMost
<1> QED BY <1>2, <1>4, <1>6, <1>7

\* An analysis counts every view in one day of one period (AnalysisCountsOnce): the
\* rows and keys it reads are of different moments, and still never show more views
\* than the days ever had, nor fewer today than when it was asked for.
THEOREM AnalysisCorrect == ReportsSpec => []AnalysisCountsOnce
<1>1. ReadersInv => AnalysisCountsOnce
  <2> SUFFICES ASSUME ReadersInv, NEW r \in Readers, NEW days \in Ranges, Answering(r, "traffic")
               PROVE  LET q == report[r]
                          shown == Analysis(q, days)
                          PeakOf(dates) == MapThenSumSet(LAMBDA d : peak[d], dates)
                      IN /\ FloorOfToday(q) <= shown.current.pv
                         /\ shown.current.pv <= PeakOf(Period(q, days) \ {q.end}) + PeakOfToday(q)
                         /\ shown.previous.pv <= PeakOf(PreviousPeriod(q, days))
    BY DEF AnalysisCountsOnce
  <2>1. PICK q : q = report[r]
    OBVIOUS
  <2>2. PeakInv /\ ReportOK(q, day, peak, most, cut) /\ q.stage = "answer" /\ q.kind = "traffic"
    BY <2>1 DEF ReadersInv, ReportsInv, Answering
  <2>3. \A d \in Dates : Fits(q.rows[d], d, peak)
    BY <2>2 DEF ReportOK, RowsFit, HasRows
  <2>4. PICK e : e = EarlierDays(q, days)
    OBVIOUS
  <2>5. PICK p : p = PreviousPeriod(q, days)
    OBVIOUS
  <2>6. e = Period(q, days) \ {q.end} /\ e \in SUBSET Dates /\ p \in SUBSET Dates
    BY <2>4, <2>5 DEF EarlierDays, Period, PreviousPeriod
  <2>7. PICK t : t = Today(q)
    OBVIOUS
  <2>8. /\ t.pv \in Nat /\ FloorOfToday(q) \in Nat /\ FloorOfToday(q) <= t.pv
        /\ PeakOfToday(q) \in Nat /\ t.pv <= PeakOfToday(q)
    BY <2>2, <2>7, LastDayShown DEF IsCounts
  <2>9. PICK a : a = RowsTotal(q, e)
    OBVIOUS
  <2>10. PICK b : b = RowsTotal(q, p)
    OBVIOUS
  <2>11. a.pv \in Nat /\ SumOf(peak, e) \in Nat /\ a.pv <= SumOf(peak, e) /\ b.pv <= SumOf(peak, p)
    BY <2>2, <2>3, <2>6, <2>9, <2>10, RowsBelowPeaks
  <2>12. Analysis(q, days).current.pv = a.pv + t.pv /\ Analysis(q, days).previous.pv = b.pv
    BY <2>4, <2>5, <2>7, <2>9, <2>10 DEF Analysis, PlusCounts
  <2>13. FloorOfToday(q) <= a.pv + t.pv /\ a.pv + t.pv <= SumOf(peak, e) + PeakOfToday(q)
    BY <2>8, <2>11
  <2> QED BY <2>1, <2>5, <2>6, <2>11, <2>12, <2>13 DEF SumOf
<1> QED BY <1>1, ReadersHold, PTL

\* The most visits the figures of a day of report q can be of.
High(q, d) == IF d = q.end THEN HighestOfToday(q, most) ELSE most[d]

\* The figures of a day in a session report.
LEMMA DayShown ==
  ASSUME RoundsInv, NEW q, ReportOK(q, day, peak, most, cut), q.stage = "answer", q.kind = "quality",
         NEW d \in Dates, NEW kept, kept => q.whole /\ d \notin cut
  PROVE  High(q, d) \in Nat /\ FiguresFit(VisitsOf(q, d), High(q, d), kept)
<1>1. /\ q.end \in Dates /\ q.from \in Dates \cup {0}
      /\ FiguresFit(q.rows[d], most[d], d \notin cut) /\ LiveFits(q, day, peak, most)
  BY DEF ReportOK, RowsFit, HasRows
<1>2. \A e \in Dates : most[e] \in Nat
  BY DEF RoundsInv, MostOK
<1>3. FiguresFit(q.rows[d], most[d], kept)
  BY <1>1 DEF FiguresFit
<1>4. CASE d # q.end \/ q.from = 0
  <2>1. High(q, d) = most[d]
    BY <1>4 DEF High, HighestOfToday
  <2>2. VisitsOf(q, d) = q.rows[d]
    BY <1>4 DEF VisitsOf
  <2> QED BY <1>2, <1>3, <2>1, <2>2
<1>5. CASE d = q.end /\ q.from # 0
  <2>1. PICK e \in Dates : e = q.from
    BY <1>1, <1>5
  <2>2. PICK n : n = Max({most[d], most[e]})
    OBVIOUS
  <2>3. High(q, d) = n
    BY <1>5, <2>1, <2>2 DEF High, HighestOfToday
  <2>4. n \in Nat /\ most[d] <= n /\ most[e] <= n
    BY <1>2, <2>2, MaxOfTwo
  <2>5. FiguresFit(q.rows[d], n, kept)
    BY <1>2, <1>3, <2>4, FitsMore
  <2>6. FiguresFit(q.live.visits, most[e], q.whole)
    BY <1>1, <1>5, <2>1, WholeReadingFits DEF LiveFits
  <2>7. FiguresFit(q.live.visits, n, kept)
    BY <1>2, <2>4, <2>6, FitsMore
  <2>8. VisitsOf(q, d) = q.rows[d] \/ VisitsOf(q, d) = q.live.visits
    BY DEF VisitsOf, Latest
  <2> QED BY <2>3, <2>4, <2>5, <2>7, <2>8
<1> QED BY <1>4, <1>5

\* A session report shows no more visits, bounces, entrances and exits than its days ever
\* had visits, and pages for all of them (QualityReportMakesSense): the visits of a reading
\* are read before their pages, every day is one reading, of its row or of its keys, and
\* what fits each of the days fits them together. Only a loss of Redis in the middle of a
\* reading leaves visits without their pages.
THEOREM QualityReportCorrect == ReportsSpec => []QualityReportMakesSense
<1>1. ReadersInv => QualityReportMakesSense
  <2> SUFFICES ASSUME ReadersInv, NEW r \in Readers, NEW days \in Ranges, Answering(r, "quality")
               PROVE  LET q == report[r]
                          shown == SessionQuality(q, days)
                          MostOf(dates) == MapThenSumSet(LAMBDA d : most[d], dates)
                      IN /\ OfVisits(shown, MostOf(EarlierDays(q, days)) + HighestOfToday(q, most))
                         /\ q.whole /\ Period(q, days) \cap cut = {} => HavePages(shown)
    BY DEF QualityReportMakesSense
  <2>1. PICK q : q = report[r]
    OBVIOUS
  <2>2. /\ RoundsInv /\ ReportOK(q, day, peak, most, cut) /\ q.stage = "answer" /\ q.kind = "quality"
        /\ q.end \in Dates
    BY <2>1 DEF ReadersInv, ReportsInv, Answering, ReportOK
  <2>3. PICK P : P = Period(q, days)
    OBVIOUS
  <2>4. P \in SUBSET Dates /\ q.end \in P /\ IsFiniteSet(P) /\ EarlierDays(q, days) = P \ {q.end}
    <3>1. days \in Nat \ {0}
      BY ReportsAssumption DEF ReportsAssumption
    <3>2. P \in SUBSET Dates /\ q.end \in P
      BY <2>2, <2>3, <3>1 DEF Period, Dates
    <3>3. IsFiniteSet(P)
      BY <3>2, DatesFinite, FS_Subset
    <3> QED BY <2>3, <3>2, <3>3 DEF EarlierDays
  <2> DEFINE kept == q.whole /\ P \cap cut = {}
             high == [d \in Dates |-> High(q, d)]
  <2>5. \A d \in P : high[d] \in Nat /\ FiguresFit(VisitsOf(q, d), high[d], kept)
    BY <2>2, <2>4, DayShown
  <2>6. FiguresFit(SessionQuality(q, days), SumOf(high, P), kept)
    <3> HIDE DEF kept, high
    <3> QED BY <2>3, <2>4, <2>5, QualityOfDays
  <2>7. SumOf(high, P) = SumOf(most, P \ {q.end}) + HighestOfToday(q, most)
    <3>1. \A d \in P \ {q.end} : high[d] = most[d]
      BY <2>4 DEF High
    <3>2. high[q.end] = HighestOfToday(q, most)
      BY <2>2 DEF High
    <3> HIDE DEF high
    <3>3. IsFiniteSet(P \ {q.end})
      BY <2>4, FS_RemoveElement
    <3>4. SumOf(high, P \ {q.end}) = SumOf(most, P \ {q.end})
      BY <3>1, <3>3, SumSame
    <3>5. \A d \in P : high[d] \in Int
      BY <2>5
    <3>6. /\ SumOf(high, P) = high[q.end] + SumOf(high, P \ {q.end})
          /\ SumOf(high, P \ {q.end}) \in Int
      BY <2>4, <3>5, SumRemove
    <3> QED BY <2>4, <3>2, <3>4, <3>5, <3>6
  <2>8. /\ OfVisits(SessionQuality(q, days), SumOf(most, P \ {q.end}) + HighestOfToday(q, most))
        /\ kept => HavePages(SessionQuality(q, days))
    BY <2>6, <2>7 DEF FiguresFit
  <2> QED BY <2>1, <2>3, <2>4, <2>8 DEF SumOf
<1> QED BY <1>1, ReadersHold, PTL
=============================================================================
