--------------------------- MODULE SessionsProofs ---------------------------
(***************************************************************************)
(* Theorems about the page views of Sessions, for any visitors, pages,     *)
(* campaigns and requests in flight, any limits and length of the days:    *)
(*                                                                         *)
(*   SessionTypes     the types (ShapeInv, PagesInv)                       *)
(*   QualityCorrect   the figures of a day make sense (FiguresInv,         *)
(*                    CountInv)                                            *)
(*   VisitorsCorrect  the limit of visitors and who was counted            *)
(*                    (VisitorInv)                                         *)
(*   FlowsCorrect     entries, exits and flows agree (FlowInv)             *)
(*   SegmentsCorrect  a visit keeps its segment (SegmentInv)               *)
(*   VisitsMatch      the script counts the visits of the views (LastInv,  *)
(*                    MatchInv)                                            *)
(*                                                                         *)
(* Each is an invariant of its own beside ShapeInv. A step is one of three *)
(* to all of them (VisitCases): it leaves the visits alone, it is a view   *)
(* (the first of a visit, or a later one) or Redis loses its data.         *)
(***************************************************************************)
EXTENDS Sessions, Sums

(* Hashes of Redis. *)

IsHash(h, F, T) == /\ DOMAIN h \subseteq F /\ IsFiniteSet(DOMAIN h)
                   /\ h \in [DOMAIN h -> T]

\* With 0 for the fields that are missing.
Values(h, F) == [f \in F |-> Value(h, f)]

LEMMA EmptyHash == \A F, T : IsHash(Empty, F, T) /\ \A f : Value(Empty, f) = 0
BY FS_EmptySet DEF IsHash, Empty, Value

LEMMA ValueType ==
    ASSUME NEW F, NEW T, 0 \in T, NEW h, IsHash(h, F, T), NEW f
    PROVE  Value(h, f) \in T /\ (f \notin F => Value(h, f) = 0)
BY DEF IsHash, Value

\* What CappedIncrement makes of a hash, unless it refuses.
Added(h, g, f, n) ==
    /\ DOMAIN g = DOMAIN h \cup {f} /\ Value(g, f) = Value(h, f) + n
    /\ \A e : e # f => Value(g, e) = Value(h, e)

LEMMA CappedAdds ==
    ASSUME NEW F, NEW T, NEW h, IsHash(h, F, T), NEW f \in F, NEW n, NEW limit,
           Value(h, f) + n \in T, NEW g, g = CappedIncrement(h, f, n, limit)
    PROVE  /\ IsHash(g, F, T)
           /\ IF Refuses(h, f, limit) THEN g = h ELSE Added(h, g, f, n)
<1>1. CASE Refuses(h, f, limit)
  BY <1>1 DEF CappedIncrement
<1>2. CASE ~Refuses(h, f, limit)
  <2>1. PICK w : w = Value(h, f) + n
    OBVIOUS
  <2>3. g = [e \in DOMAIN h \cup {f} |-> IF e = f THEN w ELSE h[e]]
    BY <1>2, <2>1 DEF CappedIncrement
  <2>4. DOMAIN g = DOMAIN h \cup {f} /\ g[f] = w /\ \A e \in DOMAIN h : e # f => g[e] = h[e]
    BY <2>3
  <2>5. IsHash(g, F, T)
    <3>1. IsFiniteSet(DOMAIN h \cup {f}) /\ DOMAIN h \cup {f} \subseteq F
      BY FS_AddElement DEF IsHash
    <3>2. g \in [DOMAIN h \cup {f} -> T]
      BY <2>1, <2>3 DEF IsHash
    <3> QED BY <2>4, <3>1, <3>2 DEF IsHash
  <2>6. Added(h, g, f, n)
    BY <2>1, <2>4 DEF Added, Value
  <2> QED BY <1>2, <2>5, <2>6
<1> QED BY <1>1, <1>2

\* The sum over some fields, missing ones included.
LEMMA ValuesSum ==
    ASSUME NEW F, IsFiniteSet(F), NEW h, IsHash(h, F, Int), NEW S \in SUBSET F
    PROVE  /\ SumOf(h, S \cap DOMAIN h) = SumOf(Values(h, F), S)
           /\ SumOf(Values(h, F), S) \in Int
<1>1. PICK A, B, g : A = S \cap DOMAIN h /\ B = S \ DOMAIN h /\ g = Values(h, F)
  OBVIOUS
<1>2. IsFiniteSet(A) /\ IsFiniteSet(B) /\ A \cap B = {} /\ A \cup B = S
  BY <1>1, FS_Subset DEF IsHash
<1>3. \A f \in S : g[f] \in Int
  BY <1>1, ValueType DEF Values
<1>4. \A f \in A \cup B : g[f] \in Int
  BY <1>2, <1>3
<1>5. SumOf(g, A \cup B) = SumOf(g, A) + SumOf(g, B)
  BY <1>2, <1>4, SumUnion
<1>6. SumOf(h, A) = SumOf(g, A)
  <2>1. \A f \in A : h[f] = g[f]
    BY <1>1 DEF Values, Value
  <2> QED BY <1>2, <2>1, SumSame
<1>7. SumOf(g, B) = 0
  <2>1. \A f \in B : g[f] = 0
    BY <1>1 DEF Values, Value
  <2> QED BY <1>2, <2>1, SumZero
<1>8. SumOf(g, A) \in Int
  BY <1>2, <1>4, SumType
<1> QED BY <1>1, <1>2, <1>5, <1>6, <1>7, <1>8

LEMMA TotalIs ==
    ASSUME NEW F, IsFiniteSet(F), NEW h, IsHash(h, F, Int)
    PROVE  Total(h) = SumOf(Values(h, F), F)
<1>1. F \cap DOMAIN h = DOMAIN h /\ F \in SUBSET F
  BY DEF IsHash
<1>2. SumOf(h, DOMAIN h) = SumOf(Values(h, F), F)
  BY <1>1, ValuesSum
<1> QED BY <1>2 DEF Total, SumOf

\* An increment and the sum over some fields.
LEMMA AddedSum ==
    ASSUME NEW F, IsFiniteSet(F), NEW h, NEW g, IsHash(h, F, Int), IsHash(g, F, Int),
           NEW f \in F, NEW n, Added(h, g, f, n), NEW S \in SUBSET F
    PROVE  SumOf(Values(g, F), S) =
             SumOf(Values(h, F), S) + (IF f \in S THEN Value(g, f) - Value(h, f) ELSE 0)
<1>1. PICK a, b : a = Values(h, F) /\ b = Values(g, F)
  OBVIOUS
<1>2. IsFiniteSet(S)
  BY FS_Subset
<1>3. \A x \in S : a[x] \in Int /\ b[x] \in Int
  BY <1>1, ValueType DEF Values
<1>4. \A x \in S \ {f} : b[x] = a[x]
  BY <1>1 DEF Values, Added
<1>5. CASE f \in S
  <2>1. SumOf(b, S) = SumOf(a, S) - a[f] + b[f] /\ SumOf(a, S) \in Int
    BY <1>2, <1>3, <1>4, <1>5, SumChange
  <2>2. a[f] = Value(h, f) /\ b[f] = Value(g, f) /\ a[f] \in Int /\ b[f] \in Int
    BY <1>1, <1>3, <1>5 DEF Values
  <2> QED BY <1>1, <1>5, <2>1, <2>2
<1>6. CASE f \notin S
  <2>1. \A x \in S : a[x] = b[x]
    BY <1>4, <1>6
  <2>2. SumOf(a, S) = SumOf(b, S) /\ SumOf(a, S) \in Int
    BY <1>2, <1>3, <2>1, SumSame, SumType
  <2> QED BY <1>1, <1>6, <2>2
<1> QED BY <1>5, <1>6

\* A visit leaves a page.
LEMMA LeaveTakes ==
    ASSUME NEW F, NEW h, IsHash(h, F, Nat), NEW f, NEW g, g = Leave(h, f)
    PROVE  /\ IsHash(g, F, Nat)
           /\ Value(g, f) = IF Value(h, f) = 0 THEN 0 ELSE Value(h, f) - 1
           /\ \A e : e # f => Value(g, e) = Value(h, e)
<1>1. Value(h, f) \in Nat
  BY ValueType
<1>2. CASE Value(h, f) = 0
  BY <1>2 DEF Leave
<1>3. CASE Value(h, f) = 1
  <2>1. g = [e \in DOMAIN h \ {f} |-> h[e]]
    BY <1>3 DEF Leave, Restrict
  <2>2. IsFiniteSet(DOMAIN h \ {f})
    BY FS_Subset DEF IsHash
  <2>3. IsHash(g, F, Nat)
    BY <2>1, <2>2 DEF IsHash
  <2> QED BY <1>3, <2>1, <2>3 DEF Value
<1>4. CASE Value(h, f) # 0 /\ Value(h, f) # 1
  <2>1. g = [h EXCEPT ![f] = @ - 1]
    BY <1>4 DEF Leave
  <2>2. f \in DOMAIN h /\ Value(h, f) = h[f] /\ h[f] - 1 \in Nat
    BY <1>1, <1>4 DEF Value
  <2>3. DOMAIN g = DOMAIN h /\ g[f] = h[f] - 1 /\ \A e \in DOMAIN h : e # f => g[e] = h[e]
    BY <2>1, <2>2 DEF IsHash
  <2>4. g \in [DOMAIN h -> Nat]
    BY <2>1, <2>2 DEF IsHash
  <2> QED BY <1>4, <2>2, <2>3, <2>4 DEF IsHash, Value
<1> QED BY <1>2, <1>3, <1>4

-----------------------------------------------------------------------------
(* A day and what a view does to it. *)

DayFields == {"pv", "uv", "sessions", "bounces", "duration", "pageviews", "entrances", "exits",
              "flows", "segments"}

SegmentFields == Metrics \X Campaigns

DayShape(x) ==
    /\ DOMAIN x = DayFields
    /\ x.pv \in Nat /\ x.uv \subseteq Visitors
    /\ x.sessions \in Int /\ x.bounces \in Int /\ x.pageviews \in Int /\ x.duration \in Int
    /\ IsHash(x.entrances, Paths, Nat) /\ IsHash(x.exits, Paths, Nat)
    /\ IsHash(x.flows, Paths \X Paths, Nat) /\ IsHash(x.segments, SegmentFields, Int)

HitFields == {"stage", "who", "path", "campaign", "at", "exact"}

HitShape(h) ==
    /\ DOMAIN h = HitFields /\ h.stage \in {"idle", "reserve", "count", "session"}
    /\ h.stage # "idle" => /\ h.who \in Visitors /\ h.path \in Paths
                           /\ h.campaign \in Campaigns \cup {NoCampaign}
                           /\ h.at \in Nat /\ h.exact \in BOOLEAN

\* The script's view of it.
IsView(h) == h.who \in Visitors /\ h.path \in Paths /\ h.campaign \in Campaigns \cup {NoCampaign}
             /\ h.at \in Nat

LEMMA Finite ==
    /\ IsFiniteSet(Visitors) /\ IsFiniteSet(Paths) /\ IsFiniteSet(Campaigns)
    /\ IsFiniteSet(Paths \X Paths) /\ IsFiniteSet(SegmentFields)
    /\ \A A \in SUBSET Visitors : IsFiniteSet(A) /\ Cardinality(A) \in Nat
<1>1. IsFiniteSet(Visitors) /\ IsFiniteSet(Paths) /\ IsFiniteSet(Campaigns)
  BY SessionsAssumption DEF SessionsAssumption
<1>2. IsFiniteSet(Metrics)
  <2>1. IsFiniteSet({}) /\ Metrics = ((({} \cup {"sessions"}) \cup {"bounces"}) \cup {"pageviews"}) \cup {"duration"}
    BY FS_EmptySet DEF Metrics
  <2> QED BY <2>1, FS_AddElement
<1>3. IsFiniteSet(Paths \X Paths)
  BY <1>1, FS_Product
<1>4. IsFiniteSet(SegmentFields)
  BY <1>1, <1>2, FS_Product DEF SegmentFields
<1>5. \A A \in SUBSET Visitors : IsFiniteSet(A) /\ Cardinality(A) \in Nat
  BY <1>1, FS_Subset, FS_CardinalityType
<1> QED BY <1>1, <1>3, <1>4, <1>5

LEMMA DateType == \A t : DateOf(t) \in Dates
BY DEF DateOf, Dates

\* The parts of a day after the first view of a visit.
OpenedParts(x, y, h) ==
    /\ DOMAIN y = DayFields /\ y.pv = x.pv /\ y.uv = x.uv
    /\ y.sessions = x.sessions + 1 /\ y.bounces = x.bounces + 1
    /\ y.pageviews = x.pageviews + 1 /\ y.duration = x.duration
    /\ y.entrances = CappedIncrement(x.entrances, h.path, 1, PageLimit)
    /\ y.exits = CappedIncrement(x.exits, h.path, 1, PageLimit)
    /\ y.flows = x.flows
    /\ y.segments = CountSegment(CountSegment(CountSegment(x.segments, "sessions", h.campaign, 1),
                                              "bounces", h.campaign, 1),
                                 "pageviews", h.campaign, 1)

LEMMA OpenVisitIs ==
    ASSUME NEW x, DayShape(x), NEW h
    PROVE  OpenedParts(x, OpenVisit(x, h), h)
BY DEF OpenVisit, DayShape, DayFields, OpenedParts

\* And after a later one.
Spent(h, s) == IF h.at < s.last THEN 0 ELSE h.at - s.last

Longer(x, h, s) ==
    CountSegment(CountSegment(x.segments, "pageviews", SegmentOf(h, s), 1),
                 "duration", SegmentOf(h, s), Spent(h, s))

ContinuedParts(x, y, h, s) ==
    /\ DOMAIN y = DayFields /\ y.pv = x.pv /\ y.uv = x.uv
    /\ y.sessions = x.sessions /\ y.bounces = (IF EndsBounce(s) THEN x.bounces - 1 ELSE x.bounces)
    /\ y.pageviews = x.pageviews + 1 /\ y.duration = x.duration + Spent(h, s)
    /\ y.entrances = x.entrances
    /\ y.exits = CappedIncrement(Leave(x.exits, s.path), h.path, 1, PageLimit)
    /\ y.flows = (IF s.path = h.path THEN x.flows
                  ELSE CappedIncrement(x.flows, <<s.path, h.path>>, 1, FlowLimit))
    /\ y.segments = (IF EndsBounce(s)
                     THEN CountSegment(Longer(x, h, s), "bounces", SegmentOf(h, s), -1)
                     ELSE Longer(x, h, s))

LEMMA ContinueVisitIs ==
    ASSUME NEW x, DayShape(x), NEW h, NEW s
    PROVE  ContinuedParts(x, ContinueVisit(x, h, s), h, s)
BY DEF ContinueVisit, DayShape, DayFields, ContinuedParts, Spent, Longer

LEMMA SegmentAdds ==
    ASSUME NEW g, IsHash(g, SegmentFields, Int), NEW m \in Metrics,
           NEW c \in Campaigns \cup {NoCampaign}, NEW n \in Int,
           NEW e, e = CountSegment(g, m, c, n)
    PROVE  /\ IsHash(e, SegmentFields, Int)
           /\ IF c = NoCampaign \/ Refuses(g, <<m, c>>, SegmentLimit) THEN e = g
                                                                   ELSE Added(g, e, <<m, c>>, n)
<1>1. CASE c = NoCampaign
  BY <1>1 DEF CountSegment
<1>2. CASE c # NoCampaign
  <2>1. PICK f : f = <<m, c>>
    OBVIOUS
  <2>2. f \in SegmentFields
    BY <1>2, <2>1 DEF SegmentFields
  <2>3. e = CappedIncrement(g, f, n, SegmentLimit)
    BY <1>2, <2>1 DEF CountSegment
  <2>4. 0 \in Int /\ Value(g, f) \in Int
    BY ValueType
  <2>5. Value(g, f) + n \in Int
    BY <2>4
  <2>6. /\ IsHash(e, SegmentFields, Int)
        /\ IF Refuses(g, f, SegmentLimit) THEN e = g ELSE Added(g, e, f, n)
    BY <2>2, <2>3, <2>5, CappedAdds
  <2> QED BY <1>2, <2>1, <2>6
<1> QED BY <1>1, <1>2

LEMMA SegmentGrows ==
    ASSUME NEW g, IsHash(g, SegmentFields, Int), NEW m \in Metrics,
           NEW c \in Campaigns \cup {NoCampaign}
    PROVE  /\ IsHash(CountSegment(g, m, c, 1), SegmentFields, Int)
           /\ IF c = NoCampaign \/ Refuses(g, <<m, c>>, SegmentLimit)
              THEN CountSegment(g, m, c, 1) = g
              ELSE Added(g, CountSegment(g, m, c, 1), <<m, c>>, 1)
<1>1. PICK n, e : n = 1 /\ e = CountSegment(g, m, c, 1)
  OBVIOUS
<1>2. e = CountSegment(g, m, c, n) /\ n \in Int
  BY <1>1
<1>3. /\ IsHash(e, SegmentFields, Int)
      /\ IF c = NoCampaign \/ Refuses(g, <<m, c>>, SegmentLimit) THEN e = g
                                                              ELSE Added(g, e, <<m, c>>, n)
  BY <1>2, SegmentAdds
<1> QED BY <1>1, <1>3

\* A page or a flow is counted once more.
LEMMA NatAdds ==
    ASSUME NEW F, NEW h, IsHash(h, F, Nat), NEW f \in F, NEW limit,
           NEW g, g = CappedIncrement(h, f, 1, limit)
    PROVE  /\ IsHash(g, F, Nat)
           /\ IF Refuses(h, f, limit) THEN g = h ELSE Added(h, g, f, 1)
<1>1. 0 \in Nat /\ Value(h, f) \in Nat
  BY ValueType
<1>2. Value(h, f) + 1 \in Nat
  BY <1>1
<1> QED BY <1>2, CappedAdds

LEMMA NatIsInt ==
    ASSUME NEW F, NEW h, IsHash(h, F, Nat)
    PROVE  IsHash(h, F, Int)
BY DEF IsHash

LEMMA OpenedShape ==
    ASSUME NEW x, DayShape(x), NEW h, IsView(h), NEW y, OpenedParts(x, y, h)
    PROVE  DayShape(y)
<1>1. IsHash(y.entrances, Paths, Nat) /\ IsHash(y.exits, Paths, Nat)
  <2>1. h.path \in Paths /\ IsHash(x.entrances, Paths, Nat) /\ IsHash(x.exits, Paths, Nat)
    BY DEF DayShape, IsView
  <2>2. y.entrances = CappedIncrement(x.entrances, h.path, 1, PageLimit)
        /\ y.exits = CappedIncrement(x.exits, h.path, 1, PageLimit)
    BY DEF OpenedParts
  <2> QED BY <2>1, <2>2, NatAdds
<1>2. IsHash(y.segments, SegmentFields, Int)
  <2>1. PICK c : c = h.campaign
    OBVIOUS
  <2>2. c \in Campaigns \cup {NoCampaign} /\ 1 \in Int
        /\ "sessions" \in Metrics /\ "bounces" \in Metrics /\ "pageviews" \in Metrics
    BY <2>1 DEF IsView, Metrics
  <2>3. PICK a : a = CountSegment(x.segments, "sessions", c, 1)
    OBVIOUS
  <2>4. PICK b : b = CountSegment(a, "bounces", c, 1)
    OBVIOUS
  <2>5. IsHash(a, SegmentFields, Int)
    <3>1. IsHash(x.segments, SegmentFields, Int)
      BY DEF DayShape
    <3> QED BY <2>2, <2>3, <3>1, SegmentGrows
  <2>6. IsHash(b, SegmentFields, Int)
    BY <2>2, <2>4, <2>5, SegmentGrows
  <2>7. y.segments = CountSegment(b, "pageviews", c, 1)
    BY <2>1, <2>3, <2>4 DEF OpenedParts
  <2> QED BY <2>2, <2>6, <2>7, SegmentGrows
<1> QED BY <1>1, <1>2 DEF DayShape, OpenedParts

\* What a later view goes on from.
IsVisit(s) == /\ s.path \in Paths /\ s.campaign \in Campaigns \cup {NoCampaign}
              /\ s.last \in Nat /\ s.pages \in Nat

LEMMA SegmentOfType ==
    ASSUME NEW h, IsView(h), NEW s, IsVisit(s)
    PROVE  /\ SegmentOf(h, s) \in Campaigns \cup {NoCampaign}
           /\ Spent(h, s) \in Nat /\ (h.at - s.last <= Timeout => Spent(h, s) <= Timeout)
<1>1. SegmentOf(h, s) \in Campaigns \cup {NoCampaign}
  BY DEF SegmentOf, IsView, IsVisit
<1>2. Timeout \in Nat /\ h.at \in Nat /\ s.last \in Nat
  BY SessionsAssumption DEF IsView, IsVisit, SessionsAssumption
<1>3. Spent(h, s) \in Nat /\ (h.at - s.last <= Timeout => Spent(h, s) <= Timeout)
  BY <1>2 DEF Spent
<1> QED BY <1>1, <1>3

LEMMA LongerShape ==
    ASSUME NEW x, DayShape(x), NEW h, IsView(h), NEW s, IsVisit(s)
    PROVE  /\ IsHash(CountSegment(x.segments, "pageviews", SegmentOf(h, s), 1), SegmentFields, Int)
           /\ IsHash(Longer(x, h, s), SegmentFields, Int)
<1>0. PICK c, n : c = SegmentOf(h, s) /\ n = Spent(h, s)
  OBVIOUS
<1>1. /\ c \in Campaigns \cup {NoCampaign} /\ 1 \in Int /\ n \in Int
      /\ "pageviews" \in Metrics /\ "duration" \in Metrics
  BY <1>0, SegmentOfType DEF Metrics
<1>2. PICK a : a = CountSegment(x.segments, "pageviews", c, 1)
  OBVIOUS
<1>3. IsHash(a, SegmentFields, Int)
  <2>1. IsHash(x.segments, SegmentFields, Int)
    BY DEF DayShape
  <2> QED BY <1>1, <1>2, <2>1, SegmentGrows
<1>4. Longer(x, h, s) = CountSegment(a, "duration", c, n)
  BY <1>0, <1>2 DEF Longer
<1>5. IsHash(Longer(x, h, s), SegmentFields, Int)
  BY <1>1, <1>3, <1>4, SegmentAdds
<1> QED BY <1>0, <1>2, <1>3, <1>5

LEMMA ContinuedShape ==
    ASSUME NEW x, DayShape(x), NEW h, IsView(h), NEW s, IsVisit(s),
           NEW y, ContinuedParts(x, y, h, s)
    PROVE  DayShape(y)
<1>1. IsHash(y.exits, Paths, Nat)
  <2>1. PICK a : a = Leave(x.exits, s.path)
    OBVIOUS
  <2>2. IsHash(a, Paths, Nat)
    BY <2>1, LeaveTakes DEF DayShape
  <2>3. y.exits = CappedIncrement(a, h.path, 1, PageLimit) /\ h.path \in Paths
    BY <2>1 DEF ContinuedParts, IsView
  <2> QED BY <2>2, <2>3, NatAdds
<1>2. IsHash(y.flows, Paths \X Paths, Nat)
  <2>1. PICK f : f = <<s.path, h.path>>
    OBVIOUS
  <2>2. f \in Paths \X Paths /\ IsHash(x.flows, Paths \X Paths, Nat)
    BY <2>1 DEF IsVisit, IsView, DayShape
  <2>3. y.flows = x.flows \/ y.flows = CappedIncrement(x.flows, f, 1, FlowLimit)
    BY <2>1 DEF ContinuedParts
  <2> QED BY <2>2, <2>3, NatAdds
<1>3. IsHash(y.segments, SegmentFields, Int)
  <2>0. PICK c, a, n : c = SegmentOf(h, s) /\ a = Longer(x, h, s) /\ n = -1
    OBVIOUS
  <2>1. c \in Campaigns \cup {NoCampaign} /\ n \in Int /\ "bounces" \in Metrics
    BY <2>0, SegmentOfType DEF Metrics
  <2>2. IsHash(a, SegmentFields, Int)
    BY <2>0, LongerShape
  <2>3. y.segments = a \/ y.segments = CountSegment(a, "bounces", c, n)
    BY <2>0 DEF ContinuedParts
  <2> QED BY <2>1, <2>2, <2>3, SegmentAdds
<1>4. Spent(h, s) \in Int
  BY SegmentOfType
<1> QED BY <1>1, <1>2, <1>3, <1>4 DEF DayShape, ContinuedParts

-----------------------------------------------------------------------------
(* The visits that are under way. *)

StoredShape(r) ==
    /\ r.date \in Dates \cup {0} /\ r.path \in Paths /\ r.pages \in Nat /\ r.last \in Nat
    /\ r.campaign \in Campaigns \cup {NoCampaign}
    /\ r.date # 0 => r.pages # 0

SessShape(s) == DOMAIN s = Visitors /\ \A v \in Visitors : StoredShape(s[v])

\* Those whose last page is p, those of one view, and those of a campaign.
Opened(s, d, p) == {v \in Visitors : s[v].date = d /\ s[v].path = p}
Bouncing(s, d) == {v \in Visitors : s[v].date = d /\ s[v].pages = 1}

\* Only the visit of v changes.
Moves(s, t, v) == SessShape(s) /\ SessShape(t) /\ \A u \in Visitors \ {v} : t[u] = s[u]

LEMMA FewerVisitors ==
    ASSUME NEW B \in SUBSET Visitors, NEW A \in SUBSET B
    PROVE  Cardinality(A) \in Nat /\ Cardinality(B) \in Nat /\ Cardinality(A) <= Cardinality(B)
BY Finite, FS_Subset

LEMMA OneMoreVisitor ==
    ASSUME NEW A \in SUBSET Visitors, NEW v \in Visitors
    PROVE  /\ Cardinality(A) \in Nat /\ Cardinality(A \cup {v}) \in Nat
           /\ Cardinality(A \cup {v}) <= Cardinality(A) + 1
<1>1. A \cup {v} \in SUBSET Visitors
  OBVIOUS
<1> QED BY <1>1, Finite, FS_AddElement

LEMMA OneVisitorLess ==
    ASSUME NEW A \in SUBSET Visitors, NEW v \in A
    PROVE  /\ Cardinality(A) \in Nat \ {0} /\ Cardinality(A \ {v}) = Cardinality(A) - 1
<1>1. IsFiniteSet(A) /\ Cardinality(A) \in Nat /\ A # {}
  BY Finite
<1>2. Cardinality(A) # 0
  BY <1>1, FS_EmptySet
<1>3. Cardinality(A \ {v}) = Cardinality(A) - 1
  BY <1>1, FS_RemoveElement
<1> QED BY <1>1, <1>2, <1>3

LEMMA BouncingMoves ==
    ASSUME NEW s, NEW t, NEW v \in Visitors, Moves(s, t, v), NEW d
    PROVE  /\ Bouncing(s, d) \in SUBSET Visitors /\ Bouncing(t, d) \in SUBSET Visitors
           /\ Bouncing(t, d) \subseteq Bouncing(s, d) \cup {v}
           /\ t[v].date # d \/ t[v].pages # 1 => Bouncing(t, d) = Bouncing(s, d) \ {v}
           /\ s[v].date = d /\ s[v].pages = 1 => v \in Bouncing(s, d)
BY DEF Moves, Bouncing

LEMMA OpenedMoves ==
    ASSUME NEW s, NEW t, NEW v \in Visitors, Moves(s, t, v), NEW d, NEW p
    PROVE  /\ Opened(s, d, p) \in SUBSET Visitors /\ Opened(t, d, p) \in SUBSET Visitors
           /\ Opened(t, d, p) \subseteq Opened(s, d, p) \cup {v}
           /\ t[v].date # d \/ t[v].path # p => Opened(t, d, p) = Opened(s, d, p) \ {v}
           /\ s[v].date = d /\ s[v].path = p => v \in Opened(s, d, p)
BY DEF Moves, Opened

-----------------------------------------------------------------------------
(* The figures of a day and the visits under way. *)

Larger(a, b) == IF a >= b THEN a ELSE b

\* The exits of a page, recorded or yet to be taken back by a visit that goes on.
Places(x, s, d) == [p \in Paths |-> Larger(Value(x.exits, p), Cardinality(Opened(s, d, p)))]

BounceInv(x, s, d) ==
    /\ Cardinality(Bouncing(s, d)) <= x.bounces /\ x.bounces <= x.sessions
    /\ 2 * x.sessions - x.bounces <= x.pageviews

DurationInv(x) == 0 <= x.duration /\ x.duration <= Timeout * (x.pageviews - x.sessions)

EntryInv(x) == SumOf(Values(x.entrances, Paths), Paths) <= x.sessions

ExitInv(x, s, d) == SumOf(Places(x, s, d), Paths) <= x.sessions

QualityInv(x, s, d) == BounceInv(x, s, d) /\ DurationInv(x) /\ EntryInv(x) /\ ExitInv(x, s, d)

LEMMA PlacesType ==
    ASSUME NEW x, DayShape(x), NEW s, NEW d
    PROVE  /\ \A p \in Paths : /\ Places(x, s, d)[p] \in Nat
                               /\ Value(x.exits, p) \in Nat
                               /\ Cardinality(Opened(s, d, p)) \in Nat
                               /\ Places(x, s, d)[p] = Larger(Value(x.exits, p), Cardinality(Opened(s, d, p)))
           /\ SumOf(Places(x, s, d), Paths) \in Nat
<1>1. ASSUME NEW p \in Paths
      PROVE  /\ Places(x, s, d)[p] \in Nat
             /\ Value(x.exits, p) \in Nat
             /\ Cardinality(Opened(s, d, p)) \in Nat
             /\ Places(x, s, d)[p] = Larger(Value(x.exits, p), Cardinality(Opened(s, d, p)))
  <2>1. Opened(s, d, p) \in SUBSET Visitors
    BY DEF Opened
  <2>2. Cardinality(Opened(s, d, p)) \in Nat
    BY <2>1, Finite
  <2>3. Value(x.exits, p) \in Nat
    BY ValueType DEF DayShape
  <2> QED BY <2>2, <2>3 DEF Places, Larger
<1>2. SumOf(Places(x, s, d), Paths) \in Nat
  BY <1>1, Finite, SumNat
<1> QED BY <1>1, <1>2

\* A sum to which one term may add n.
LEMMA SumGrowsBy ==
    ASSUME NEW S, IsFiniteSet(S), NEW p \in S, NEW a, NEW b, NEW n \in Int,
           \A r \in S : a[r] \in Int /\ b[r] \in Int,
           \A r \in S \ {p} : b[r] <= a[r], b[p] <= a[p] + n
    PROVE  SumOf(b, S) <= SumOf(a, S) + n /\ SumOf(a, S) \in Int /\ SumOf(b, S) \in Int
<1>1. PICK c : c = [r \in S |-> IF r = p THEN a[p] + n ELSE a[r]]
  OBVIOUS
<1>2. /\ \A r \in S : a[r] \in Int /\ c[r] \in Int
      /\ \A r \in S \ {p} : c[r] = a[r]
      /\ c[p] = a[p] + n
  BY <1>1
<1>3. SumOf(c, S) = SumOf(a, S) - a[p] + c[p] /\ SumOf(a, S) \in Int /\ SumOf(c, S) \in Int
  BY <1>2, SumChange
<1>4. \A r \in S : b[r] \in Int /\ c[r] \in Int /\ b[r] <= c[r]
  BY <1>2
<1>5. SumOf(b, S) <= SumOf(c, S)
  BY <1>4, SumAtMost
<1>6. SumOf(b, S) \in Int
  <2>1. \A r \in S : b[r] \in Int
    OBVIOUS
  <2> QED BY <2>1, SumType
<1>7. a[p] \in Int
  OBVIOUS
<1> QED BY <1>2, <1>3, <1>5, <1>6, <1>7

\* A visit of another day.
LEMMA QualityElsewhere ==
    ASSUME NEW x, DayShape(x), NEW s, NEW t, NEW v \in Visitors, Moves(s, t, v), NEW d,
           t[v].date # d, QualityInv(x, s, d)
    PROVE  QualityInv(x, t, d)
<1>1. BounceInv(x, t, d)
  <2>1. Bouncing(s, d) \in SUBSET Visitors /\ Bouncing(t, d) \in SUBSET Bouncing(s, d)
    BY BouncingMoves
  <2>2. /\ Cardinality(Bouncing(t, d)) \in Nat /\ Cardinality(Bouncing(s, d)) \in Nat
        /\ Cardinality(Bouncing(t, d)) <= Cardinality(Bouncing(s, d))
    BY <2>1, FewerVisitors
  <2> QED BY <2>2 DEF BounceInv, QualityInv, DayShape
<1>2. ExitInv(x, t, d)
  <2>1. PICK a, b : a = Places(x, s, d) /\ b = Places(x, t, d)
    OBVIOUS
  <2>2. ASSUME NEW p \in Paths PROVE a[p] \in Int /\ b[p] \in Int /\ b[p] <= a[p]
    <3>1. Opened(s, d, p) \in SUBSET Visitors /\ Opened(t, d, p) \in SUBSET Opened(s, d, p)
      BY OpenedMoves
    <3>2. Cardinality(Opened(t, d, p)) <= Cardinality(Opened(s, d, p))
      BY <3>1, FewerVisitors
    <3>3. /\ a[p] \in Nat /\ Value(x.exits, p) \in Nat /\ Cardinality(Opened(s, d, p)) \in Nat
          /\ a[p] = Larger(Value(x.exits, p), Cardinality(Opened(s, d, p)))
      BY <2>1, PlacesType
    <3>4. /\ b[p] \in Nat /\ Cardinality(Opened(t, d, p)) \in Nat
          /\ b[p] = Larger(Value(x.exits, p), Cardinality(Opened(t, d, p)))
      BY <2>1, PlacesType
    <3> QED BY <3>2, <3>3, <3>4 DEF Larger
  <2>3. SumOf(b, Paths) <= SumOf(a, Paths)
    BY <2>2, Finite, SumAtMost
  <2>4. SumOf(a, Paths) \in Nat /\ SumOf(b, Paths) \in Nat /\ SumOf(a, Paths) <= x.sessions
    BY <2>1, PlacesType DEF QualityInv, ExitInv
  <2> QED BY <2>1, <2>3, <2>4 DEF ExitInv, DayShape
<1> QED BY <1>1, <1>2 DEF QualityInv

\* The first view of a visit.
LEMMA QualityOpens ==
    ASSUME NEW x, DayShape(x), NEW h, IsView(h), NEW y, OpenedParts(x, y, h),
           NEW s, NEW t, NEW v \in Visitors, Moves(s, t, v), NEW d,
           t[v].path = h.path, QualityInv(x, s, d)
    PROVE  QualityInv(y, t, d)
<1>1. DayShape(y)
  BY OpenedShape
<1>2. /\ x.sessions \in Int /\ x.bounces \in Int /\ x.pageviews \in Int /\ x.duration \in Int
      /\ y.sessions = x.sessions + 1 /\ y.bounces = x.bounces + 1
      /\ y.pageviews = x.pageviews + 1 /\ y.duration = x.duration
      /\ h.path \in Paths
  BY DEF DayShape, OpenedParts, IsView
<1>3. BounceInv(y, t, d)
  <2>1. /\ Bouncing(s, d) \in SUBSET Visitors
        /\ Bouncing(t, d) \in SUBSET (Bouncing(s, d) \cup {v})
        /\ Bouncing(s, d) \cup {v} \in SUBSET Visitors
    BY BouncingMoves
  <2>2. /\ Cardinality(Bouncing(t, d)) \in Nat
        /\ Cardinality(Bouncing(t, d)) <= Cardinality(Bouncing(s, d) \cup {v})
    BY <2>1, FewerVisitors
  <2>3. /\ Cardinality(Bouncing(s, d)) \in Nat /\ Cardinality(Bouncing(s, d) \cup {v}) \in Nat
        /\ Cardinality(Bouncing(s, d) \cup {v}) <= Cardinality(Bouncing(s, d)) + 1
    BY <2>1, OneMoreVisitor
  <2>4. /\ Cardinality(Bouncing(s, d)) <= x.bounces /\ x.bounces <= x.sessions
        /\ 2 * x.sessions - x.bounces <= x.pageviews
    BY DEF QualityInv, BounceInv
  <2> QED BY <1>2, <2>2, <2>3, <2>4 DEF BounceInv
<1>4. DurationInv(y)
  <2>1. y.pageviews - y.sessions = x.pageviews - x.sessions
    BY <1>2
  <2> QED BY <1>2, <2>1 DEF QualityInv, DurationInv
<1>5. EntryInv(y)
  <2>1. IsHash(x.entrances, Paths, Int) /\ IsHash(y.entrances, Paths, Int)
    BY <1>1, NatIsInt DEF DayShape
  <2>2. y.entrances = x.entrances \/ Added(x.entrances, y.entrances, h.path, 1)
    <3>1. IsHash(x.entrances, Paths, Nat)
          /\ y.entrances = CappedIncrement(x.entrances, h.path, 1, PageLimit)
      BY DEF DayShape, OpenedParts
    <3> QED BY <1>2, <3>1, NatAdds
  <2>3. PICK a, b : a = SumOf(Values(x.entrances, Paths), Paths)
                    /\ b = SumOf(Values(y.entrances, Paths), Paths)
    OBVIOUS
  <2>4. Paths \in SUBSET Paths /\ a \in Int
    BY <2>1, <2>3, Finite, ValuesSum
  <2>5. CASE Added(x.entrances, y.entrances, h.path, 1)
    <3>1. b = a + (Value(y.entrances, h.path) - Value(x.entrances, h.path))
      <4>1. 1 \in Int /\ Paths \in SUBSET Paths
        OBVIOUS
      <4>2. PICK n : n = 1
        OBVIOUS
      <4>3. Added(x.entrances, y.entrances, h.path, n)
        BY <2>5, <4>2
      <4> QED BY <1>2, <2>1, <2>3, <4>1, <4>3, Finite, AddedSum
    <3>2. Value(y.entrances, h.path) = Value(x.entrances, h.path) + 1
          /\ Value(x.entrances, h.path) \in Int
      BY <2>1, <2>5, ValueType DEF Added
    <3>3. b = a + 1
      BY <2>4, <3>1, <3>2
    <3> QED BY <1>2, <2>3, <2>4, <3>3 DEF QualityInv, EntryInv
  <2>6. CASE y.entrances = x.entrances
    <3>1. b = a
      BY <2>3, <2>6
    <3> QED BY <1>2, <2>3, <2>4, <3>1 DEF QualityInv, EntryInv
  <2> QED BY <2>2, <2>5, <2>6
<1>6. ExitInv(y, t, d)
  <2>1. PICK a, b : a = Places(x, s, d) /\ b = Places(y, t, d)
    OBVIOUS
  <2>2. \/ y.exits = x.exits
        \/ Added(x.exits, y.exits, h.path, 1)
    <3>1. IsHash(x.exits, Paths, Nat) /\ y.exits = CappedIncrement(x.exits, h.path, 1, PageLimit)
      BY DEF DayShape, OpenedParts
    <3> QED BY <1>2, <3>1, NatAdds
  <2>3. ASSUME NEW p \in Paths
        PROVE  /\ a[p] \in Int /\ b[p] \in Int
               /\ p # h.path => b[p] <= a[p]
               /\ b[p] <= a[p] + 1
    <3>1. PICK m, n : m = Cardinality(Opened(s, d, p)) /\ n = Cardinality(Opened(t, d, p))
      OBVIOUS
    <3>2. PICK e, f : e = Value(x.exits, p) /\ f = Value(y.exits, p)
      OBVIOUS
    <3>3. a[p] = Larger(e, m) /\ e \in Nat /\ m \in Nat
      BY <2>1, <3>1, <3>2, PlacesType
    <3>4. b[p] = Larger(f, n) /\ f \in Nat /\ n \in Nat
      BY <1>1, <2>1, <3>1, <3>2, PlacesType
    <3>5. Opened(s, d, p) \in SUBSET Visitors /\ Opened(t, d, p) \in SUBSET (Opened(s, d, p) \cup {v})
          /\ Opened(s, d, p) \cup {v} \in SUBSET Visitors
      BY OpenedMoves
    <3>6. n <= m + 1
      <4>1. n <= Cardinality(Opened(s, d, p) \cup {v})
        BY <3>1, <3>5, FewerVisitors
      <4>2. /\ Cardinality(Opened(s, d, p) \cup {v}) \in Nat
            /\ Cardinality(Opened(s, d, p) \cup {v}) <= m + 1
        BY <3>1, <3>5, OneMoreVisitor
      <4> QED BY <3>3, <3>4, <4>1, <4>2
    <3>7. p # h.path => n <= m
      <4>1. ASSUME p # h.path PROVE Opened(t, d, p) \in SUBSET Opened(s, d, p)
        BY <4>1, OpenedMoves
      <4> QED BY <3>1, <3>5, <4>1, FewerVisitors
    <3>8. f <= e + 1 /\ (p # h.path => f <= e)
      <4>1. CASE y.exits = x.exits
        BY <3>2, <3>3, <4>1
      <4>2. CASE Added(x.exits, y.exits, h.path, 1)
        <5>1. p # h.path => f = e
          BY <3>2, <4>2 DEF Added
        <5>2. p = h.path => f = e + 1
          BY <3>2, <4>2 DEF Added
        <5> QED BY <3>3, <3>4, <5>1, <5>2
      <4> QED BY <2>2, <4>1, <4>2
    <3> QED BY <3>3, <3>4, <3>6, <3>7, <3>8 DEF Larger
  <2>4. SumOf(b, Paths) <= SumOf(a, Paths) + 1
    <3>1. PICK n \in Int : n = 1
      OBVIOUS
    <3>2. \A p \in Paths : a[p] \in Int /\ b[p] \in Int
      BY <2>3
    <3>3. \A p \in Paths \ {h.path} : b[p] <= a[p]
      BY <2>3
    <3>4. b[h.path] <= a[h.path] + n
      BY <1>2, <2>3, <3>1
    <3>5. SumOf(b, Paths) <= SumOf(a, Paths) + n
      BY <1>2, <3>2, <3>3, <3>4, Finite, SumGrowsBy
    <3> QED BY <3>1, <3>5
  <2>5. SumOf(a, Paths) \in Nat /\ SumOf(a, Paths) <= x.sessions
    BY <2>1, PlacesType DEF QualityInv, ExitInv
  <2>6. SumOf(b, Paths) \in Nat
    BY <1>1, <2>1, PlacesType
  <2> QED BY <1>2, <2>1, <2>4, <2>5, <2>6 DEF ExitInv
<1> QED BY <1>3, <1>4, <1>5, <1>6 DEF QualityInv

\* A later view of the visit.
GoesOn(s, t, v, d, h) ==
    /\ Moves(s, t, v) /\ s[v].date = d /\ t[v].date = d /\ d # 0
    /\ t[v].path = h.path /\ t[v].pages = s[v].pages + 1
    /\ h.at - s[v].last <= Timeout

LEMMA VisitGoesOn ==
    ASSUME NEW s, NEW t, NEW v \in Visitors, NEW d, NEW h, GoesOn(s, t, v, d, h)
    PROVE  /\ Moves(s, t, v) /\ IsVisit(s[v]) /\ s[v].pages \in Nat \ {0}
           /\ t[v].pages # 1 /\ t[v].path = h.path /\ s[v].date = d /\ t[v].date = d
           /\ h.at - s[v].last <= Timeout
BY DEF GoesOn, Moves, SessShape, StoredShape, IsVisit

LEMMA BounceContinues ==
    ASSUME NEW x, DayShape(x), NEW h, IsView(h), NEW s, NEW t, NEW v \in Visitors, NEW d,
           GoesOn(s, t, v, d, h), NEW y, ContinuedParts(x, y, h, s[v]),
           BounceInv(x, s, d), DurationInv(x)
    PROVE  BounceInv(y, t, d) /\ DurationInv(y)
<1>1. /\ x.sessions \in Int /\ x.bounces \in Int /\ x.pageviews \in Int /\ x.duration \in Int
      /\ y.sessions = x.sessions
      /\ y.bounces = (IF EndsBounce(s[v]) THEN x.bounces - 1 ELSE x.bounces)
      /\ y.pageviews = x.pageviews + 1 /\ y.duration = x.duration + Spent(h, s[v])
  BY DEF DayShape, ContinuedParts
<1>2. /\ Moves(s, t, v) /\ IsVisit(s[v]) /\ t[v].pages # 1 /\ s[v].date = d
      /\ h.at - s[v].last <= Timeout
  BY VisitGoesOn
<1>3. BounceInv(y, t, d)
  <2>1. PICK a, b : a = Cardinality(Bouncing(s, d)) /\ b = Cardinality(Bouncing(t, d))
    OBVIOUS
  <2>2. /\ Bouncing(s, d) \in SUBSET Visitors /\ Bouncing(t, d) \in SUBSET Bouncing(s, d)
        /\ Bouncing(t, d) = Bouncing(s, d) \ {v}
    BY <1>2, BouncingMoves
  <2>3. a \in Nat /\ b \in Nat /\ b <= a
    BY <2>1, <2>2, FewerVisitors
  <2>4. a <= x.bounces /\ x.bounces <= x.sessions /\ 2 * x.sessions - x.bounces <= x.pageviews
    BY <2>1 DEF BounceInv
  <2>5. CASE EndsBounce(s[v])
    <3>1. v \in Bouncing(s, d)
      BY <1>2, <2>5, BouncingMoves DEF EndsBounce
    <3>2. b = a - 1
      BY <2>1, <2>2, <3>1, OneVisitorLess
    <3> QED BY <1>1, <2>1, <2>3, <2>4, <2>5, <3>2 DEF BounceInv
  <2>6. CASE ~EndsBounce(s[v])
    BY <1>1, <2>1, <2>3, <2>4, <2>6 DEF BounceInv
  <2> QED BY <2>5, <2>6
<1>4. DurationInv(y)
  <2>1. PICK n \in Nat : n = Spent(h, s[v]) /\ n <= Timeout
    BY <1>2, SegmentOfType
  <2>2. Timeout \in Nat
    BY SessionsAssumption DEF SessionsAssumption
  <2>3. PICK k \in Int : k = x.pageviews - x.sessions
    BY <1>1
  <2>4. y.pageviews - y.sessions = k + 1
    BY <1>1, <2>3
  <2>5. Timeout * (k + 1) = Timeout * k + Timeout /\ Timeout * k \in Int
    BY <2>2
  <2>6. 0 <= x.duration /\ x.duration <= Timeout * k
    BY <2>3 DEF DurationInv
  <2>7. y.duration = x.duration + n
    BY <1>1, <2>1
  <2>8. 0 <= y.duration /\ y.duration <= Timeout * (k + 1)
    BY <1>1, <2>1, <2>2, <2>5, <2>6, <2>7
  <2> QED BY <2>4, <2>8 DEF DurationInv
<1> QED BY <1>3, <1>4

\* The exits of page r, e of them before and f after a visit moved from q to p.
ExitStep(e, f, r, q, p) ==
    /\ e \in Nat /\ f \in Nat
    /\ r # q /\ r # p => f = e
    /\ r = q /\ r # p => f = IF e = 0 THEN 0 ELSE e - 1
    /\ r # q /\ r = p => f <= e + 1
    /\ r = q /\ r = p => f <= Larger(e, 1)

\* The same when the hash had room.
ExactStep(e, f, r, q, p) ==
    /\ r # q /\ r = p => f = e + 1
    /\ r = q /\ r = p => f = Larger(e, 1)

ExitsLeave(x, y, q, p) == y.exits = CappedIncrement(Leave(x.exits, q), p, 1, PageLimit)

LEMMA ExitsMove ==
    ASSUME NEW x, DayShape(x), NEW q, NEW p \in Paths, NEW y, ExitsLeave(x, y, q, p), NEW r
    PROVE  /\ ExitStep(Value(x.exits, r), Value(y.exits, r), r, q, p)
           /\ \/ Refuses(Leave(x.exits, q), p, PageLimit)
              \/ ExactStep(Value(x.exits, r), Value(y.exits, r), r, q, p)
<1>1. PICK g : g = Leave(x.exits, q)
  OBVIOUS
<1>2. /\ IsHash(x.exits, Paths, Nat) /\ IsHash(g, Paths, Nat)
      /\ Value(g, q) = IF Value(x.exits, q) = 0 THEN 0 ELSE Value(x.exits, q) - 1
      /\ \A e : e # q => Value(g, e) = Value(x.exits, e)
  BY <1>1, LeaveTakes DEF DayShape
<1>3. y.exits = CappedIncrement(g, p, 1, PageLimit)
  BY <1>1 DEF ExitsLeave
<1>4. /\ IsHash(y.exits, Paths, Nat)
      /\ IF Refuses(g, p, PageLimit) THEN y.exits = g ELSE Added(g, y.exits, p, 1)
  BY <1>2, <1>3, NatAdds
<1>5. PICK e, f, w : e = Value(x.exits, r) /\ w = Value(g, r) /\ f = Value(y.exits, r)
  OBVIOUS
<1>6. e \in Nat /\ w \in Nat /\ f \in Nat
  BY <1>2, <1>4, <1>5, ValueType
<1>7. w = IF r = q THEN (IF e = 0 THEN 0 ELSE e - 1) ELSE e
  BY <1>2, <1>5
<1>8. IF Refuses(g, p, PageLimit) THEN f = w ELSE f = IF r = p THEN w + 1 ELSE w
  BY <1>4, <1>5 DEF Added
<1>9. ExitStep(e, f, r, q, p)
  BY <1>6, <1>7, <1>8 DEF Larger, ExitStep
<1>10. Refuses(g, p, PageLimit) \/ ExactStep(e, f, r, q, p)
  BY <1>6, <1>7, <1>8 DEF Larger, ExactStep
<1> QED BY <1>1, <1>5, <1>9, <1>10

LEMMA ExitContinues ==
    ASSUME NEW x, DayShape(x), NEW h, IsView(h), NEW s, NEW t, NEW v \in Visitors, NEW d,
           GoesOn(s, t, v, d, h), NEW y, ContinuedParts(x, y, h, s[v]),
           ExitInv(x, s, d)
    PROVE  ExitInv(y, t, d)
<1>1. DayShape(y) /\ Moves(s, t, v) /\ IsVisit(s[v]) /\ s[v].date = d /\ t[v].date = d
  BY VisitGoesOn, ContinuedShape
<1>2. PICK q \in Paths, p \in Paths : q = s[v].path /\ p = h.path /\ t[v].path = p
  BY <1>1, VisitGoesOn DEF IsVisit, IsView
<1>3. ExitsLeave(x, y, q, p)
  BY <1>2 DEF ContinuedParts, ExitsLeave
<1>4. PICK a, b : a = Places(x, s, d) /\ b = Places(y, t, d)
  OBVIOUS
<1>5. \A r \in Paths : a[r] \in Int /\ b[r] \in Int
  BY <1>1, <1>4, PlacesType
<1>6. PICK c : c = [r \in Paths |-> IF r = q THEN a[r] - 1 ELSE a[r]]
  OBVIOUS
<1>7. /\ \A r \in Paths : c[r] \in Int /\ c[r] = IF r = q THEN a[r] - 1 ELSE a[r]
  BY <1>5, <1>6
<1>8. ASSUME NEW r \in Paths
      PROVE  /\ r # p => b[r] <= c[r]
             /\ r = p => b[r] <= c[r] + 1
  <2>1. PICK m, n : m = Cardinality(Opened(s, d, r)) /\ n = Cardinality(Opened(t, d, r))
    OBVIOUS
  <2>2. PICK e, f : e = Value(x.exits, r) /\ f = Value(y.exits, r)
    OBVIOUS
  <2>3. a[r] = Larger(e, m) /\ e \in Nat /\ m \in Nat
    BY <1>4, <2>1, <2>2, PlacesType
  <2>4. b[r] = Larger(f, n) /\ f \in Nat /\ n \in Nat
    BY <1>1, <1>4, <2>1, <2>2, PlacesType
  <2>5. /\ Opened(s, d, r) \in SUBSET Visitors
        /\ Opened(t, d, r) \in SUBSET (Opened(s, d, r) \cup {v})
        /\ Opened(s, d, r) \cup {v} \in SUBSET Visitors
        /\ r # p => Opened(t, d, r) = Opened(s, d, r) \ {v}
        /\ r = q => v \in Opened(s, d, r)
    BY <1>1, <1>2, OpenedMoves
  <2>6. n <= m + 1
    <3>1. n <= Cardinality(Opened(s, d, r) \cup {v})
      BY <2>1, <2>5, FewerVisitors
    <3>2. /\ Cardinality(Opened(s, d, r) \cup {v}) \in Nat
          /\ Cardinality(Opened(s, d, r) \cup {v}) <= m + 1
      BY <2>1, <2>5, OneMoreVisitor
    <3> QED BY <2>3, <2>4, <3>1, <3>2
  <2>7. r # p => n <= m
    <3>1. ASSUME r # p PROVE Opened(t, d, r) \in SUBSET Opened(s, d, r)
      BY <2>5, <3>1
    <3> QED BY <2>1, <2>5, <3>1, FewerVisitors
  <2>8. r = q => m # 0 /\ n <= m
    <3>1. ASSUME r = q PROVE m # 0 /\ Opened(t, d, r) \in SUBSET Opened(s, d, r)
      BY <2>1, <2>5, <3>1, OneVisitorLess
    <3> QED BY <2>1, <2>5, <3>1, FewerVisitors
  <2>9. r = q /\ r # p => n = m - 1
    <3>1. ASSUME r = q, r # p PROVE n = m - 1
      <4>1. v \in Opened(s, d, r) /\ Opened(t, d, r) = Opened(s, d, r) \ {v}
        BY <2>5, <3>1
      <4> QED BY <2>1, <2>5, <4>1, OneVisitorLess
    <3> QED BY <3>1
  <2>10. /\ r # q /\ r # p => f = e
         /\ r = q /\ r # p => f = IF e = 0 THEN 0 ELSE e - 1
         /\ r # q /\ r = p => f <= e + 1
         /\ r = q /\ r = p => f <= Larger(e, 1)
    <3>1. ExitStep(e, f, r, q, p)
      BY <1>3, <2>2, ExitsMove
    <3> QED BY <3>1 DEF ExitStep
  <2>11. c[r] = IF r = q THEN a[r] - 1 ELSE a[r]
    BY <1>7
  <2>12. r = q /\ r # p => b[r] <= c[r]
    BY <2>3, <2>4, <2>8, <2>9, <2>10, <2>11 DEF Larger
  <2>13. r # q /\ r # p => b[r] <= c[r]
    BY <2>3, <2>4, <2>7, <2>10, <2>11 DEF Larger
  <2>14. r = q /\ r = p => b[r] <= c[r] + 1
    BY <2>3, <2>4, <2>8, <2>10, <2>11 DEF Larger
  <2>15. r # q /\ r = p => b[r] <= c[r] + 1
    BY <2>3, <2>4, <2>6, <2>10, <2>11 DEF Larger
  <2> QED BY <2>12, <2>13, <2>14, <2>15
<1>9. SumOf(c, Paths) = SumOf(a, Paths) - 1 /\ SumOf(a, Paths) \in Int
  <2>1. \A r \in Paths : a[r] \in Int /\ c[r] \in Int
    BY <1>5, <1>7
  <2>2. \A r \in Paths \ {q} : c[r] = a[r]
    BY <1>7
  <2>3. SumOf(c, Paths) = SumOf(a, Paths) - a[q] + c[q] /\ SumOf(a, Paths) \in Int
    BY <2>1, <2>2, Finite, SumChange
  <2>4. c[q] = a[q] - 1 /\ a[q] \in Int
    BY <1>5, <1>7
  <2> QED BY <2>3, <2>4
<1>10. SumOf(b, Paths) <= SumOf(c, Paths) + 1 /\ SumOf(b, Paths) \in Int /\ SumOf(c, Paths) \in Int
  <2>1. PICK n \in Int : n = 1
    OBVIOUS
  <2>2. \A r \in Paths : c[r] \in Int /\ b[r] \in Int
    BY <1>5, <1>7
  <2>3. \A r \in Paths \ {p} : b[r] <= c[r]
    BY <1>8
  <2>4. b[p] <= c[p] + n
    BY <1>8, <2>1
  <2>5. SumOf(b, Paths) <= SumOf(c, Paths) + n /\ SumOf(b, Paths) \in Int /\ SumOf(c, Paths) \in Int
    BY <2>2, <2>3, <2>4, Finite, SumGrowsBy
  <2> QED BY <2>1, <2>5
<1>11. SumOf(a, Paths) <= x.sessions /\ y.sessions = x.sessions /\ x.sessions \in Int
  BY <1>4 DEF ExitInv, ContinuedParts, DayShape
<1>12. SumOf(b, Paths) <= y.sessions
  BY <1>9, <1>10, <1>11
<1> QED BY <1>4, <1>12 DEF ExitInv

LEMMA QualityContinues ==
    ASSUME NEW x, DayShape(x), NEW h, IsView(h), NEW s, NEW t, NEW v \in Visitors, NEW d,
           GoesOn(s, t, v, d, h), NEW y, ContinuedParts(x, y, h, s[v]),
           QualityInv(x, s, d)
    PROVE  QualityInv(y, t, d)
<1>1. BounceInv(x, s, d) /\ DurationInv(x) /\ EntryInv(x) /\ ExitInv(x, s, d)
  BY DEF QualityInv
<1>2. BounceInv(y, t, d) /\ DurationInv(y)
  BY <1>1, BounceContinues
<1>3. ExitInv(y, t, d)
  BY <1>1, ExitContinues
<1>4. EntryInv(y)
  BY <1>1 DEF EntryInv, ContinuedParts
<1> QED BY <1>2, <1>3, <1>4 DEF QualityInv

-----------------------------------------------------------------------------
(* The shape of the state. *)

Flying(q) == {k \in Trackers : q[k].stage # "idle"}

\* The session hashes there can be at time t.
VisitsBy(t) ==
    [date : Dates \cup {0}, last : 0..t, path : Paths, pages : Nat,
     campaign : Campaigns \cup {NoCampaign}, until : 0..t + Timeout]

ClockInv == now \in 0..MaxTime /\ views \in 0..MaxViews /\ faults \in 0..MaxFaults

\* A view is in flight for less than two ticks.
HitInv ==
    /\ DOMAIN hit = Trackers
    /\ \A k \in Trackers : /\ HitShape(hit[k])
                           /\ hit[k].stage # "idle" => hit[k].at = now \/ hit[k].at = now - 1

SessInv ==
    /\ sess \in [Visitors -> VisitsBy(now)]
    /\ \A v \in Visitors : sess[v].date # 0 => sess[v].pages # 0

DayInv == DOMAIN day = Dates /\ \A d \in Dates : DayShape(day[d])

GuardInv == DOMAIN guard = Dates /\ \A d \in Dates : guard[d] \subseteq Visitors

ShapeInv == ClockInv /\ HitInv /\ SessInv /\ DayInv /\ GuardInv

LEMMA Numbers ==
    /\ Timeout \in Nat /\ Timeout >= 3 /\ Midnight \in Nat /\ MaxTime \in Nat /\ MaxViews \in Nat
    /\ MaxFaults \in Nat /\ PageLimit \in Nat \ {0} /\ FlowLimit \in Nat \ {0}
    /\ SegmentLimit \in Nat \ {0} /\ MaxVisitors \in Nat \ {0}
BY SessionsAssumption DEF SessionsAssumption

LEMMA NoSessionIs ==
    /\ \A t \in Nat : NoSession \in VisitsBy(t)
    /\ NoSession.date = 0 /\ NoSession.pages = 0 /\ NoSession.campaign = NoCampaign
<1>1. PICK q : q = CHOOSE p \in Paths : TRUE
  OBVIOUS
<1>2. q \in Paths
  BY <1>1, SessionsAssumption DEF SessionsAssumption
<1>3. NoSession = [date |-> 0, last |-> 0, path |-> q, pages |-> 0, campaign |-> NoCampaign,
                   until |-> 0]
  BY <1>1 DEF NoSession
<1>4. ASSUME NEW t \in Nat PROVE NoSession \in VisitsBy(t)
  <2>1. 0 \in 0..t /\ 0 \in 0..t + Timeout /\ 0 \in Nat /\ NoCampaign \in Campaigns \cup {NoCampaign}
    BY Numbers
  <2> QED BY <1>2, <1>3, <2>1 DEF VisitsBy
<1> QED BY <1>3, <1>4

LEMMA EmptyDayShape == DayShape(EmptyDay)
<1>1. /\ IsHash(Empty, Paths, Nat) /\ IsHash(Empty, Paths \X Paths, Nat)
      /\ IsHash(Empty, SegmentFields, Int)
  BY EmptyHash
<1> QED BY <1>1 DEF EmptyDay, DayShape, DayFields

LEMMA SessShapeHolds ==
    ASSUME SessInv, now \in Nat
    PROVE  SessShape(sess)
BY DEF SessInv, VisitsBy, SessShape, StoredShape

\* Later, the same hashes are still such hashes.
LEMMA LaterVisits ==
    ASSUME NEW t \in Nat, NEW u \in Nat, t <= u, NEW r \in VisitsBy(t)
    PROVE  r \in VisitsBy(u)
<1>1. PICK a, b : a = t + Timeout /\ b = u + Timeout
  OBVIOUS
<1>2. a \in Nat /\ b \in Nat /\ a <= b
  BY <1>1, Numbers
<1>3. 0..t \subseteq 0..u /\ 0..a \subseteq 0..b
  BY <1>2
<1> QED BY <1>1, <1>3 DEF VisitsBy

-----------------------------------------------------------------------------
(* What the script does. *)

\* The parts of the state it changes for view h.
Kept(h) ==
    sess'[h.who] = [date |-> DateOf(h.at), last |-> h.at, path |-> h.path, until |-> now + Timeout,
                    pages |-> IF IsNew(h, Stored(h.who)) THEN 1 ELSE Stored(h.who).pages + 1,
                    campaign |-> SegmentOf(h, Stored(h.who))]

Recorded(h) ==
    /\ ~IsStale(h, Stored(h.who))
    /\ IsView(h) /\ (h.at = now \/ h.at = now - 1) /\ DateOf(h.at) \in Dates
    /\ DOMAIN day' = Dates
    /\ \A d \in Dates : d # DateOf(h.at) => day'[d] = day[d]
    /\ sess' = [sess EXCEPT ![h.who] = sess'[h.who]]
    /\ Kept(h)
    /\ seen' = seen \cup {<<h.who, h.at>>}
    /\ late' = (IF Stored(h.who).date > DateOf(h.at) THEN late + 1 ELSE late)
    /\ capped' = capped \cup Refusals(day[DateOf(h.at)], h, Stored(h.who))

\* The first view of a visit, and a later one.
Starting(h) ==
    /\ Recorded(h) /\ IsNew(h, Stored(h.who))
    /\ OpenedParts(day[DateOf(h.at)], day'[DateOf(h.at)], h)

Following(h) ==
    /\ Recorded(h) /\ ~IsNew(h, Stored(h.who)) /\ Stored(h.who) = sess[h.who]
    /\ ContinuedParts(day[DateOf(h.at)], day'[DateOf(h.at)], h, sess[h.who])

LEMMA ScriptCases ==
    ASSUME ShapeInv, NEW k \in Trackers, Update(k)
    PROVE  /\ hit[k].stage = "session"
           /\ DOMAIN hit' = Trackers /\ hit'[k] = Idle
           /\ \A i \in Trackers \ {k} : hit'[i] = hit[i]
           /\ UNCHANGED <<now, guard, views, faults, torn>>
           /\ \/ UNCHANGED <<day, sess, seen, late, capped>>
              \/ Starting(hit[k]) \/ Following(hit[k])
<1>1. PICK h : h = hit[k]
  OBVIOUS
<1>2. PICK v : v = h.who
  OBVIOUS
<1>3. PICK d : d = DateOf(h.at)
  OBVIOUS
<1>4. PICK s : s = Stored(v)
  OBVIOUS
<1>5. /\ h.stage = "session" /\ hit' = [hit EXCEPT ![k] = Idle]
      /\ UNCHANGED <<now, guard, views, faults, torn>>
      /\ IF IsStale(h, s) THEN UNCHANGED <<day, sess, seen, late, capped>>
         ELSE /\ day' = [day EXCEPT ![d] = IF IsNew(h, s) THEN OpenVisit(@, h)
                                                          ELSE ContinueVisit(@, h, s)]
              /\ sess' = [sess EXCEPT ![v] =
                   [date |-> d, last |-> h.at, path |-> h.path, until |-> now + Timeout,
                    pages |-> IF IsNew(h, s) THEN 1 ELSE s.pages + 1,
                    campaign |-> SegmentOf(h, s)]]
              /\ seen' = seen \cup {<<v, h.at>>}
              /\ late' = IF s.date > d THEN late + 1 ELSE late
              /\ capped' = capped \cup Refusals(day[d], h, s)
  BY <1>1, <1>2, <1>3, <1>4 DEF Update
<1>6. /\ DOMAIN hit = Trackers /\ HitShape(h) /\ (h.at = now \/ h.at = now - 1)
      /\ DOMAIN sess = Visitors /\ DOMAIN day = Dates /\ \A e \in Dates : DayShape(day[e])
  BY <1>1, <1>5 DEF ShapeInv, HitInv, SessInv, DayInv
<1>7. DOMAIN hit' = Trackers /\ hit'[k] = Idle /\ \A i \in Trackers \ {k} : hit'[i] = hit[i]
  BY <1>5, <1>6
<1>8. IsView(h) /\ v \in Visitors /\ d \in Dates
  BY <1>2, <1>3, <1>5, <1>6, DateType DEF HitShape, IsView
<1>9. CASE IsStale(h, s)
  BY <1>1, <1>5, <1>7, <1>9
<1>10. CASE ~IsStale(h, s)
  <2>1. PICK x \in {OpenVisit(day[d], h), ContinueVisit(day[d], h, s)} :
           /\ x = IF IsNew(h, s) THEN OpenVisit(day[d], h) ELSE ContinueVisit(day[d], h, s)
           /\ day' = [day EXCEPT ![d] = x]
    BY <1>5, <1>10
  <2>2. DOMAIN day' = Dates /\ day'[d] = x /\ \A e \in Dates : e # d => day'[e] = day[e]
    BY <1>6, <1>8, <2>1
  <2>3. /\ sess' = [sess EXCEPT ![v] = sess'[v]]
        /\ sess'[v] = [date |-> d, last |-> h.at, path |-> h.path, until |-> now + Timeout,
                       pages |-> IF IsNew(h, s) THEN 1 ELSE s.pages + 1,
                       campaign |-> SegmentOf(h, s)]
    BY <1>5, <1>6, <1>8, <1>10
  <2>4. Kept(h)
    BY <1>2, <1>3, <1>4, <2>3 DEF Kept
  <2>5. Recorded(h)
    BY <1>2, <1>3, <1>4, <1>5, <1>6, <1>8, <1>10, <2>2, <2>3, <2>4 DEF Recorded
  <2>6. CASE IsNew(h, s)
    <3>1. OpenedParts(day[d], x, h)
      BY <1>6, <1>8, <2>1, <2>6, OpenVisitIs
    <3>2. Starting(h)
      BY <1>2, <1>3, <1>4, <2>2, <2>5, <2>6, <3>1 DEF Starting
    <3> QED BY <1>1, <1>5, <1>7, <3>2
  <2>7. CASE ~IsNew(h, s)
    <3>1. s = sess[v]
      <4>1. s.date = d /\ d # 0
        BY <1>3, <1>8, <2>7 DEF IsNew, Dates
      <4> QED BY <1>4, <4>1, NoSessionIs DEF Stored
    <3>2. ContinuedParts(day[d], x, h, s)
      BY <1>6, <1>8, <2>1, <2>7, ContinueVisitIs
    <3>3. Following(h)
      BY <1>2, <1>3, <1>4, <2>2, <2>5, <2>7, <3>1, <3>2 DEF Following
    <3> QED BY <1>1, <1>5, <1>7, <3>3
  <2> QED BY <2>6, <2>7
<1> QED BY <1>9, <1>10

\* The view's own hash after the script.
LEMMA Rewritten ==
    ASSUME ShapeInv, NEW h, Recorded(h)
    PROVE  /\ h.who \in Visitors /\ DateOf(h.at) \in Dates /\ h.at \in 0..now /\ now \in 0..MaxTime
           /\ sess'[h.who] \in VisitsBy(now)
           /\ sess'[h.who].date = DateOf(h.at) /\ sess'[h.who].date # 0
           /\ sess'[h.who].last = h.at /\ sess'[h.who].path = h.path
           /\ sess'[h.who].until = now + Timeout
           /\ sess'[h.who].campaign = SegmentOf(h, Stored(h.who))
           /\ sess'[h.who].pages =
                (IF IsNew(h, Stored(h.who)) THEN 1 ELSE Stored(h.who).pages + 1)
           /\ sess'[h.who].pages # 0
<1>1. PICK v \in Visitors, d \in Dates : v = h.who /\ d = DateOf(h.at)
  BY DEF Recorded, IsView
<1>2. PICK s : s = Stored(v)
  OBVIOUS
<1>3. now \in 0..MaxTime /\ sess[v] \in VisitsBy(now)
  BY DEF ShapeInv, ClockInv, SessInv
<1>4. now \in Nat
  BY <1>3, Numbers
<1>5. s \in VisitsBy(now)
  BY <1>2, <1>3, <1>4, NoSessionIs DEF Stored
<1>6. h.at \in 0..now
  <2>1. h.at \in Nat /\ (h.at = now \/ h.at = now - 1)
    BY DEF Recorded, IsView
  <2> QED BY <1>4, <2>1
<1>7. PICK c, n : c = SegmentOf(h, s) /\ n = IF IsNew(h, s) THEN 1 ELSE s.pages + 1
  OBVIOUS
<1>8. c \in Campaigns \cup {NoCampaign} /\ n \in Nat \ {0}
  BY <1>5, <1>7 DEF VisitsBy, SegmentOf, Recorded, IsView
<1>9. PICK u : u = now + Timeout
  OBVIOUS
<1>10. u \in 0..now + Timeout
  BY <1>4, <1>9, Numbers
<1>11. PICK r : r = [date |-> d, last |-> h.at, path |-> h.path, until |-> u, pages |-> n,
                     campaign |-> c]
  OBVIOUS
<1>12. sess'[v] = r
  BY <1>1, <1>2, <1>7, <1>9, <1>11 DEF Recorded, Kept
<1>13. h.path \in Paths
  BY DEF Recorded, IsView
<1>14. r \in VisitsBy(now)
  BY <1>6, <1>8, <1>10, <1>11, <1>13 DEF VisitsBy
<1>15. r.date = d /\ r.last = h.at /\ r.path = h.path /\ r.until = u /\ r.pages = n /\ r.campaign = c
  BY <1>11
<1> QED BY <1>1, <1>2, <1>3, <1>6, <1>7, <1>8, <1>9, <1>12, <1>14, <1>15 DEF Dates

LEMMA RecordedShapes ==
    ASSUME ShapeInv, NEW h, Recorded(h), now' = now
    PROVE  SessInv' /\ Moves(sess, sess', h.who)
<1>1. now \in Nat /\ SessInv
  BY Numbers DEF ShapeInv, ClockInv
<1>2. PICK v \in Visitors : v = h.who
  BY Rewritten
<1>3. sess'[v] \in VisitsBy(now) /\ sess'[v].date # 0 /\ sess'[v].pages # 0
  BY <1>2, Rewritten
<1>4. sess' = [sess EXCEPT ![v] = sess'[v]]
  BY <1>2 DEF Recorded
<1>5. sess \in [Visitors -> VisitsBy(now)]
  BY <1>1 DEF SessInv
<1>6. sess' \in [Visitors -> VisitsBy(now)] /\ \A u \in Visitors \ {v} : sess'[u] = sess[u]
  BY <1>3, <1>4, <1>5
<1>7. SessInv'
  BY <1>1, <1>3, <1>6 DEF SessInv
<1>8. SessShape(sess)
  BY <1>1, SessShapeHolds
<1>9. SessShape(sess')
  BY <1>1, <1>7 DEF SessInv, VisitsBy, SessShape, StoredShape
<1> QED BY <1>2, <1>6, <1>7, <1>8, <1>9 DEF Moves

\* The day of the view, once more a day.
LEMMA RecordedDay ==
    ASSUME ShapeInv, NEW h, Starting(h) \/ Following(h)
    PROVE  /\ DayInv'
           /\ DayShape(day[DateOf(h.at)]) /\ DayShape(day'[DateOf(h.at)])
<1>1. PICK d \in Dates : d = DateOf(h.at)
  BY DEF Starting, Following, Recorded
<1>2. DayShape(day[d]) /\ Recorded(h)
  BY DEF ShapeInv, DayInv, Starting, Following
<1>3. PICK y : y = day'[d]
  OBVIOUS
<1>4. IsView(h)
  BY <1>2 DEF Recorded
<1>5. CASE Starting(h)
  <2>1. OpenedParts(day[d], y, h)
    BY <1>1, <1>3, <1>5 DEF Starting
  <2>2. DayShape(y)
    BY <1>2, <1>4, <2>1, OpenedShape
  <2> QED BY <1>1, <1>2, <1>3, <2>2 DEF Recorded, DayInv, ShapeInv
<1>6. CASE Following(h)
  <2>1. PICK s : s = sess[h.who]
    OBVIOUS
  <2>2. ContinuedParts(day[d], y, h, s)
    BY <1>1, <1>3, <1>6, <2>1 DEF Following
  <2>3. IsVisit(s)
    BY <1>4, <2>1 DEF IsVisit, IsView, ShapeInv, SessInv, VisitsBy, ClockInv
  <2>4. DayShape(y)
    BY <1>2, <1>4, <2>2, <2>3, ContinuedShape
  <2> QED BY <1>1, <1>2, <1>3, <2>4 DEF Recorded, DayInv, ShapeInv
<1> QED BY <1>5, <1>6

-----------------------------------------------------------------------------
(* Every step. *)

\* The other steps: none of them touches a visit.
CountOf(k) ==
    /\ hit[k].stage = "count" /\ HitShape(hit[k]) /\ DateOf(hit[k].at) \in Dates
    /\ DOMAIN day' = Dates
    /\ \A d \in Dates : d # DateOf(hit[k].at) => day'[d] = day[d]
    /\ DOMAIN day'[DateOf(hit[k].at)] = DayFields
    /\ day'[DateOf(hit[k].at)].pv = day[DateOf(hit[k].at)].pv + 1
    /\ day'[DateOf(hit[k].at)].uv =
         (IF hit[k].exact THEN day[DateOf(hit[k].at)].uv \cup {hit[k].who}
                          ELSE day[DateOf(hit[k].at)].uv)
    /\ \A f \in DayFields \ {"pv", "uv"} :
         day'[DateOf(hit[k].at)][f] = day[DateOf(hit[k].at)][f]

LEMMA CountCases ==
    ASSUME ShapeInv, NEW k \in Trackers, Count(k)
    PROVE  CountOf(k)
<1>1. PICK h : h = hit[k]
  OBVIOUS
<1>2. PICK d \in Dates : d = DateOf(h.at)
  BY DateType
<1>3. PICK u : u = IF h.exact THEN day[d].uv \cup {h.who} ELSE day[d].uv
  OBVIOUS
<1>4. PICK n : n = day[d].pv + 1
  OBVIOUS
<1>5. day' = [day EXCEPT ![d].pv = n, ![d].uv = u]
  BY <1>1, <1>2, <1>3, <1>4 DEF Count
<1>6. DOMAIN day = Dates /\ DOMAIN day[d] = DayFields
  BY DEF ShapeInv, DayInv, DayShape
<1>7. /\ DOMAIN day' = Dates /\ \A e \in Dates : e # d => day'[e] = day[e]
      /\ DOMAIN day'[d] = DayFields
      /\ day'[d].pv = n /\ day'[d].uv = u
      /\ \A f \in DayFields \ {"pv", "uv"} : day'[d][f] = day[d][f]
  BY <1>5, <1>6 DEF DayFields
<1>8. hit[k].stage = "count" /\ HitShape(hit[k])
  BY DEF Count, ShapeInv, HitInv
<1> QED BY <1>1, <1>2, <1>3, <1>4, <1>7, <1>8 DEF CountOf

\* One tracker goes on with its view.
Turns(k, q) ==
    /\ DOMAIN hit' = Trackers /\ hit'[k] = q
    /\ \A i \in Trackers \ {k} : hit'[i] = hit[i]
    /\ HitShape(q) /\ (q.stage # "idle" => q.at = now \/ q.at = now - 1)

LEMMA IdleShape == HitShape(Idle) /\ Idle.stage = "idle"
BY DEF Idle, HitShape, HitFields

LEMMA HitTurns ==
    ASSUME HitInv, NEW k \in Trackers, NEW q, HitShape(q),
           q.stage # "idle" => q.at = now \/ q.at = now - 1, hit' = [hit EXCEPT ![k] = q]
    PROVE  Turns(k, q)
BY DEF HitInv, Turns

LEMMA TurnsKeep ==
    ASSUME HitInv, NEW k \in Trackers, NEW q, Turns(k, q), now' = now
    PROVE  HitInv'
BY DEF HitInv, Turns

\* What a step does to the views in flight.
Enters(k) ==
    /\ hit[k].stage = "idle" /\ views' = views + 1 /\ views < MaxViews
    /\ Turns(k, hit'[k]) /\ hit'[k].stage = "reserve"

Reserved(k) ==
    /\ hit[k].stage = "reserve" /\ views' = views
    /\ Turns(k, hit'[k]) /\ hit'[k].stage = "count"
    /\ hit'[k].at = hit[k].at /\ hit'[k].who = hit[k].who

Counted(k) ==
    /\ hit[k].stage = "count" /\ views' = views
    /\ Turns(k, hit'[k])
    /\ IF hit[k].exact THEN /\ hit'[k].stage = "session" /\ hit'[k].at = hit[k].at
                            /\ hit'[k].who = hit[k].who
                       ELSE hit'[k].stage = "idle"

Leaves(k) ==
    /\ hit[k].stage # "idle" /\ views' = views /\ Turns(k, hit'[k]) /\ hit'[k].stage = "idle"

LEMMA BeginTurns ==
    ASSUME ShapeInv, NEW k \in Trackers, NEW v \in Visitors, NEW p \in Paths,
           NEW c \in Campaigns \cup {NoCampaign}, Begin(k, v, p, c)
    PROVE  Enters(k)
<1>1. PICK q : q = [stage |-> "reserve", who |-> v, path |-> p, campaign |-> c, at |-> now,
                    exact |-> FALSE]
  OBVIOUS
<1>2. now \in Nat
  BY Numbers DEF ShapeInv, ClockInv
<1>3. HitShape(q) /\ q.at = now /\ q.stage = "reserve"
  BY <1>1, <1>2 DEF HitShape, HitFields
<1>4. Turns(k, q)
  <2>1. hit' = [hit EXCEPT ![k] = q] /\ HitInv
    BY <1>1 DEF Begin, ShapeInv
  <2> QED BY <1>3, <2>1, HitTurns
<1> QED BY <1>3, <1>4 DEF Begin, Enters, Turns

LEMMA ReserveTurns ==
    ASSUME ShapeInv, NEW k \in Trackers, Reserve(k) \/ ReserveFails(k)
    PROVE  Reserved(k)
<1>1. PICK h : h = hit[k]
  OBVIOUS
<1>2. PICK b \in BOOLEAN : hit' = [hit EXCEPT ![k].stage = "count", ![k].exact = b]
  <2>1. CASE Reserve(k)
    <3>1. PICK a : a = Allowed(hit[k].who, DateOf(hit[k].at))
      OBVIOUS
    <3>2. a \in BOOLEAN
      BY <3>1 DEF Allowed
    <3>3. hit' = [hit EXCEPT ![k].stage = "count", ![k].exact = a]
      BY <2>1, <3>1 DEF Reserve
    <3> QED BY <3>2, <3>3
  <2>2. CASE ReserveFails(k)
    BY <2>2 DEF ReserveFails
  <2> QED BY <2>1, <2>2
<1>3. h.stage = "reserve" /\ HitShape(h) /\ (h.at = now \/ h.at = now - 1)
  BY <1>1 DEF Reserve, ReserveFails, ShapeInv, HitInv
<1>4. PICK q : q = [h EXCEPT !.stage = "count", !.exact = b]
  OBVIOUS
<1>5. /\ HitShape(q) /\ q.stage = "count" /\ q.at = h.at /\ q.who = h.who
  BY <1>3, <1>4 DEF HitShape, HitFields
<1>6. Turns(k, q)
  <2>1. hit' = [hit EXCEPT ![k] = q]
    BY <1>1, <1>2, <1>4
  <2>2. HitInv
    BY DEF ShapeInv
  <2>3. q.stage # "idle" => q.at = now \/ q.at = now - 1
    BY <1>3, <1>5
  <2> QED BY <1>5, <2>1, <2>2, <2>3, HitTurns
<1>7. views' = views
  BY DEF Reserve, ReserveFails
<1> QED BY <1>1, <1>3, <1>5, <1>6, <1>7 DEF Reserved, Turns

LEMMA CountTurns ==
    ASSUME ShapeInv, NEW k \in Trackers, Count(k)
    PROVE  Counted(k)
<1>1. PICK h : h = hit[k]
  OBVIOUS
<1>2. h.stage = "count" /\ HitShape(h) /\ (h.at = now \/ h.at = now - 1) /\ views' = views
  BY <1>1 DEF Count, ShapeInv, HitInv
<1>3. CASE h.exact
  <2>1. PICK q : q = [h EXCEPT !.stage = "session"]
    OBVIOUS
  <2>2. /\ HitShape(q) /\ q.stage = "session" /\ q.at = h.at /\ q.who = h.who
    BY <1>2, <2>1 DEF HitShape, HitFields
  <2>3. hit' = [hit EXCEPT ![k] = q]
    BY <1>1, <1>3, <2>1 DEF Count
  <2>4. HitInv
    BY DEF ShapeInv
  <2>5. q.stage # "idle" => q.at = now \/ q.at = now - 1
    BY <1>2, <2>2
  <2>6. Turns(k, q)
    BY <2>2, <2>3, <2>4, <2>5, HitTurns
  <2> QED BY <1>1, <1>2, <1>3, <2>2, <2>6 DEF Counted, Turns
<1>4. CASE ~h.exact
  <2>1. hit' = [hit EXCEPT ![k] = Idle] /\ HitInv
    BY <1>1, <1>4 DEF Count, ShapeInv
  <2>2. Turns(k, Idle)
    BY <2>1, IdleShape, HitTurns
  <2> QED BY <1>1, <1>2, <1>4, <2>2, IdleShape DEF Counted, Turns
<1> QED BY <1>3, <1>4

LEMMA LeaveTurns ==
    ASSUME ShapeInv, NEW k \in Trackers, Abandon(k) \/ Update(k)
    PROVE  Leaves(k) /\ hit'[k] = Idle
<1>1. hit' = [hit EXCEPT ![k] = Idle] /\ HitInv
  BY DEF Abandon, Update, ShapeInv
<1>2. Turns(k, Idle)
  BY <1>1, IdleShape, HitTurns
<1>3. hit[k].stage # "idle" /\ views' = views
  BY DEF Abandon, Update
<1> QED BY <1>2, <1>3, IdleShape DEF Leaves, Turns

-----------------------------------------------------------------------------
(* The steps and what they leave alone. *)

Counters == <<day, sess, seen, late, capped, torn>>

\* All but the script, the counting pipeline and a loss of Redis.
LEMMA StepCases ==
    ASSUME Next
    PROVE  \/ \E k \in Trackers, v \in Visitors, p \in Paths, c \in Campaigns \cup {NoCampaign} :
                Begin(k, v, p, c)
           \/ \E k \in Trackers : Reserve(k)
           \/ \E k \in Trackers : ReserveFails(k)
           \/ \E k \in Trackers : Count(k)
           \/ \E k \in Trackers : Update(k)
           \/ \E k \in Trackers : Abandon(k)
           \/ Tick
           \/ LoseRedis
BY DEF Next, Track

LEMMA ShapeStep ==
    ASSUME ShapeInv, [Next]_vars
    PROVE  ShapeInv'
<1>0. ClockInv /\ HitInv /\ SessInv /\ DayInv /\ GuardInv /\ now \in Nat
  BY Numbers DEF ShapeInv, ClockInv
<1>1. CASE UNCHANGED vars
  BY <1>0, <1>1 DEF vars, ShapeInv, ClockInv, HitInv, SessInv, DayInv, GuardInv
<1>2. CASE \E k \in Trackers, v \in Visitors, p \in Paths, c \in Campaigns \cup {NoCampaign} :
             Begin(k, v, p, c)
  <2>1. PICK k \in Trackers, v \in Visitors, p \in Paths, c \in Campaigns \cup {NoCampaign} :
          Begin(k, v, p, c)
    BY <1>2
  <2>2. UNCHANGED <<now, guard, day, sess, faults>> /\ Enters(k)
    BY <2>1, BeginTurns DEF Begin
  <2>3. HitInv'
    BY <1>0, <2>2, TurnsKeep DEF Enters
  <2>4. ClockInv'
    BY <1>0, <2>2, Numbers DEF ClockInv, Enters
  <2> QED BY <1>0, <2>2, <2>3, <2>4 DEF ShapeInv, SessInv, DayInv, GuardInv
<1>3. CASE \E k \in Trackers : Reserve(k)
  <2>1. PICK k \in Trackers : Reserve(k)
    BY <1>3
  <2>2. UNCHANGED <<now, day, sess, views, faults>> /\ Turns(k, hit'[k])
    BY <2>1, ReserveTurns DEF Reserve, Reserved
  <2>3. HitInv'
    BY <1>0, <2>2, TurnsKeep
  <2>4. GuardInv'
    <3>1. PICK d \in Dates : d = DateOf(hit[k].at)
      BY DateType
    <3>2. hit[k].who \in Visitors
      BY <1>0, <2>1 DEF Reserve, HitInv, HitShape
    <3>3. guard' = guard \/ guard' = [guard EXCEPT ![d] = @ \cup {hit[k].who}]
      BY <2>1, <3>1 DEF Reserve
    <3> QED BY <1>0, <3>2, <3>3 DEF GuardInv
  <2> QED BY <1>0, <2>2, <2>3, <2>4 DEF ShapeInv, SessInv, DayInv, ClockInv
<1>4. CASE \E k \in Trackers : ReserveFails(k)
  <2>1. PICK k \in Trackers : ReserveFails(k)
    BY <1>4
  <2>2. UNCHANGED <<now, guard, day, sess, views>> /\ Turns(k, hit'[k])
    BY <2>1, ReserveTurns DEF ReserveFails, Reserved
  <2>3. HitInv'
    BY <1>0, <2>2, TurnsKeep
  <2>4. ClockInv'
    BY <1>0, <2>1, <2>2, Numbers DEF ClockInv, ReserveFails
  <2> QED BY <1>0, <2>2, <2>3, <2>4 DEF ShapeInv, SessInv, DayInv, GuardInv
<1>5. CASE \E k \in Trackers : Count(k)
  <2>1. PICK k \in Trackers : Count(k)
    BY <1>5
  <2>2. UNCHANGED <<now, guard, sess, views, faults>> /\ Turns(k, hit'[k])
    BY <2>1, CountTurns DEF Count, Counted
  <2>3. HitInv'
    BY <1>0, <2>2, TurnsKeep
  <2>4. DayInv'
    <3>1. PICK d \in Dates : d = DateOf(hit[k].at)
      BY DateType
    <3>2. CountOf(k) /\ DayShape(day[d])
      BY <1>0, <2>1, CountCases DEF DayInv
    <3>3. PICK y : y = day'[d]
      OBVIOUS
    <3>4. /\ DOMAIN y = DayFields /\ y.pv = day[d].pv + 1
          /\ y.uv = (IF hit[k].exact THEN day[d].uv \cup {hit[k].who} ELSE day[d].uv)
          /\ \A f \in DayFields \ {"pv", "uv"} : y[f] = day[d][f]
      BY <3>1, <3>2, <3>3 DEF CountOf
    <3>5. /\ y.sessions = day[d].sessions /\ y.bounces = day[d].bounces
          /\ y.pageviews = day[d].pageviews /\ y.duration = day[d].duration
          /\ y.entrances = day[d].entrances /\ y.exits = day[d].exits
          /\ y.flows = day[d].flows /\ y.segments = day[d].segments
      BY <3>4 DEF DayFields
    <3>6. hit[k].who \in Visitors
      BY <3>2 DEF CountOf, HitShape
    <3>7. y.pv \in Nat /\ y.uv \subseteq Visitors
      BY <3>2, <3>4, <3>6 DEF DayShape
    <3>8. DayShape(y)
      BY <3>2, <3>4, <3>5, <3>7 DEF DayShape
    <3> QED BY <1>0, <3>1, <3>2, <3>3, <3>8 DEF DayInv, CountOf
  <2> QED BY <1>0, <2>2, <2>3, <2>4 DEF ShapeInv, SessInv, GuardInv, ClockInv
<1>6. CASE \E k \in Trackers : Update(k)
  <2>1. PICK k \in Trackers : Update(k)
    BY <1>6
  <2>2. UNCHANGED <<now, guard, views, faults>> /\ Turns(k, hit'[k])
    BY <2>1, LeaveTurns DEF Update, Leaves
  <2>3. HitInv'
    BY <1>0, <2>2, TurnsKeep
  <2>4. PICK h : h = hit[k]
    OBVIOUS
  <2>5. UNCHANGED <<day, sess>> \/ Starting(h) \/ Following(h)
    BY <2>1, <2>4, ScriptCases
  <2>6. CASE UNCHANGED <<day, sess>>
    BY <1>0, <2>2, <2>3, <2>6 DEF ShapeInv, SessInv, DayInv, GuardInv, ClockInv
  <2>7. CASE Starting(h) \/ Following(h)
    <3>1. Recorded(h)
      BY <2>7 DEF Starting, Following
    <3>2. SessInv'
      BY <2>2, <3>1, RecordedShapes
    <3>3. DayInv'
      BY <2>7, RecordedDay
    <3> QED BY <1>0, <2>2, <2>3, <3>2, <3>3 DEF ShapeInv, GuardInv, ClockInv
  <2> QED BY <2>5, <2>6, <2>7
<1>7. CASE \E k \in Trackers : Abandon(k)
  <2>1. PICK k \in Trackers : Abandon(k)
    BY <1>7
  <2>2. UNCHANGED <<now, guard, day, sess, views, faults>> /\ Turns(k, hit'[k])
    BY <2>1, LeaveTurns DEF Abandon, Leaves
  <2>3. HitInv'
    BY <1>0, <2>2, TurnsKeep
  <2> QED BY <1>0, <2>2, <2>3 DEF ShapeInv, SessInv, DayInv, GuardInv, ClockInv
<1>8. CASE Tick
  <2>1. /\ now < MaxTime /\ \A k \in Trackers : hit[k].stage = "idle" \/ hit[k].at = now
        /\ now' = now + 1 /\ UNCHANGED <<hit, guard, day, sess, views, faults>>
    BY <1>8 DEF Tick
  <2>2. ClockInv'
    BY <1>0, <2>1, Numbers DEF ClockInv
  <2>3. HitInv'
    BY <1>0, <2>1 DEF HitInv
  <2>4. SessInv'
    <3>1. \A v \in Visitors : sess[v] \in VisitsBy(now + 1)
      <4>1. now + 1 \in Nat /\ now <= now + 1
        BY <1>0
      <4>2. PICK u \in Nat : u = now + 1
        BY <4>1
      <4> QED BY <1>0, <4>1, <4>2, LaterVisits DEF SessInv
    <3> QED BY <1>0, <2>1, <3>1 DEF SessInv
  <2> QED BY <1>0, <2>1, <2>2, <2>3, <2>4 DEF ShapeInv, DayInv, GuardInv
<1>9. CASE LoseRedis
  <2>1. /\ guard' = [d \in Dates |-> {}] /\ day' = [d \in Dates |-> EmptyDay]
        /\ sess' = [v \in Visitors |-> NoSession]
        /\ faults < MaxFaults /\ faults' = faults + 1 /\ UNCHANGED <<now, hit, views>>
    BY <1>9 DEF LoseRedis
  <2>2. ClockInv'
    BY <1>0, <2>1, Numbers DEF ClockInv
  <2>3. HitInv'
    BY <1>0, <2>1 DEF HitInv
  <2>4. SessInv'
    BY <1>0, <2>1, NoSessionIs DEF SessInv
  <2>5. DayInv' /\ GuardInv'
    BY <2>1, EmptyDayShape DEF DayInv, GuardInv
  <2> QED BY <2>2, <2>3, <2>4, <2>5 DEF ShapeInv
<1> QED BY <1>1, <1>2, <1>3, <1>4, <1>5, <1>6, <1>7, <1>8, <1>9, StepCases

LEMMA ShapeInit ==
    ASSUME Init
    PROVE  ShapeInv
<1>1. ClockInv
  BY Numbers DEF Init, ClockInv
<1>2. HitInv
  BY IdleShape DEF Init, HitInv
<1>3. SessInv
  BY NoSessionIs DEF Init, SessInv
<1>4. DayInv /\ GuardInv
  BY EmptyDayShape DEF Init, DayInv, GuardInv
<1> QED BY <1>1, <1>2, <1>3, <1>4 DEF ShapeInv

-----------------------------------------------------------------------------
(* Views in flight, and the visits they belong to. *)

Scripted(q, d) == {k \in Trackers : q[k].stage = "session" /\ DateOf(q[k].at) = d}

\* No visit has more pages than views were begun and are over.
PagesInv ==
    /\ IsFiniteSet(Flying(hit))
    /\ \A v \in Visitors : sess[v].pages + Cardinality(Flying(hit)) <= views

\* The page views of a day were counted before, those on their way to the script too.
CountInv ==
    torn \/ \A d \in Dates : day[d].pageviews + Cardinality(Scripted(hit, d)) <= day[d].pv

LEMMA SetsTurn ==
    ASSUME NEW k \in Trackers, Turns(k, hit'[k]), NEW d
    PROVE  /\ hit[k].stage = "idle" /\ hit'[k].stage # "idle" =>
                Flying(hit') = Flying(hit) \cup {k} /\ k \notin Flying(hit)
           /\ hit[k].stage # "idle" /\ hit'[k].stage # "idle" => Flying(hit') = Flying(hit)
           /\ hit[k].stage # "idle" /\ hit'[k].stage = "idle" =>
                Flying(hit') = Flying(hit) \ {k} /\ k \in Flying(hit)
           /\ Scripted(hit', d) \subseteq Scripted(hit, d) \cup {k}
           /\ hit'[k].stage # "session" \/ DateOf(hit'[k].at) # d =>
                Scripted(hit', d) = Scripted(hit, d) \ {k}
           /\ hit[k].stage = "session" /\ DateOf(hit[k].at) = d => k \in Scripted(hit, d)
           /\ hit[k].stage # "session" => k \notin Scripted(hit, d)
<1>1. /\ hit[k].stage = "idle" /\ hit'[k].stage # "idle" =>
                Flying(hit') = Flying(hit) \cup {k} /\ k \notin Flying(hit)
      /\ hit[k].stage # "idle" /\ hit'[k].stage # "idle" => Flying(hit') = Flying(hit)
      /\ hit[k].stage # "idle" /\ hit'[k].stage = "idle" =>
                Flying(hit') = Flying(hit) \ {k} /\ k \in Flying(hit)
  BY DEF Turns, Flying
<1>2. Scripted(hit', d) \subseteq Scripted(hit, d) \cup {k}
  BY DEF Turns, Scripted
<1>3. hit'[k].stage # "session" \/ DateOf(hit'[k].at) # d =>
        Scripted(hit', d) = Scripted(hit, d) \ {k}
  BY DEF Turns, Scripted
<1>4. /\ hit[k].stage = "session" /\ DateOf(hit[k].at) = d => k \in Scripted(hit, d)
      /\ hit[k].stage # "session" => k \notin Scripted(hit, d)
  BY DEF Scripted
<1> QED BY <1>1, <1>2, <1>3, <1>4

\* Finite sets of trackers that lose or gain one.
LEMMA FiniteTurn ==
    ASSUME NEW A, IsFiniteSet(A), NEW k, NEW B
    PROVE  /\ Cardinality(A) \in Nat
           /\ B = A \cup {k} => /\ IsFiniteSet(B) /\ Cardinality(B) \in Nat
                                /\ Cardinality(B) = IF k \in A THEN Cardinality(A) ELSE Cardinality(A) + 1
           /\ B = A \ {k} => /\ IsFiniteSet(B) /\ Cardinality(B) \in Nat
                             /\ Cardinality(B) = IF k \in A THEN Cardinality(A) - 1 ELSE Cardinality(A)
           /\ B \subseteq A => /\ IsFiniteSet(B) /\ Cardinality(B) \in Nat
                               /\ Cardinality(B) <= Cardinality(A)
<1>1. Cardinality(A) \in Nat
  BY FS_CardinalityType
<1>2. ASSUME B = A \cup {k}
      PROVE  /\ IsFiniteSet(B) /\ Cardinality(B) \in Nat
             /\ Cardinality(B) = IF k \in A THEN Cardinality(A) ELSE Cardinality(A) + 1
  BY <1>1, <1>2, FS_AddElement
<1>3. ASSUME B = A \ {k}
      PROVE  /\ IsFiniteSet(B) /\ Cardinality(B) \in Nat
             /\ Cardinality(B) = IF k \in A THEN Cardinality(A) - 1 ELSE Cardinality(A)
  <2>1. /\ IsFiniteSet(A \ {k})
        /\ Cardinality(A \ {k}) = IF k \in A THEN Cardinality(A) - 1 ELSE Cardinality(A)
    BY FS_RemoveElement
  <2>2. Cardinality(B) \in Nat
    BY <1>3, <2>1, FS_CardinalityType
  <2> QED BY <1>3, <2>1, <2>2
<1>4. ASSUME B \subseteq A
      PROVE  IsFiniteSet(B) /\ Cardinality(B) \in Nat /\ Cardinality(B) <= Cardinality(A)
  BY <1>4, FS_Subset, FS_CardinalityType
<1> QED BY <1>1, <1>2, <1>3, <1>4

LEMMA PagesStep ==
    ASSUME ShapeInv, PagesInv, [Next]_vars
    PROVE  PagesInv'
<1>0. /\ IsFiniteSet(Flying(hit)) /\ views \in Nat
      /\ \A v \in Visitors : sess[v].pages \in Nat
      /\ \A v \in Visitors : sess[v].pages + Cardinality(Flying(hit)) <= views
  BY Numbers DEF ShapeInv, ClockInv, SessInv, VisitsBy, PagesInv
<1>a. PICK A : A = Flying(hit)
  OBVIOUS
<1>b. PICK n \in Nat : n = Cardinality(A)
  BY <1>0, <1>a, FS_CardinalityType
<1>c. IsFiniteSet(A) /\ \A v \in Visitors : sess[v].pages + n <= views
  BY <1>0, <1>a, <1>b
<1>1. CASE UNCHANGED <<hit, sess, views>>
  BY <1>1 DEF PagesInv
<1>2. CASE \E k \in Trackers, v \in Visitors, p \in Paths, c \in Campaigns \cup {NoCampaign} :
             Begin(k, v, p, c)
  <2>1. PICK k \in Trackers : Enters(k) /\ UNCHANGED sess
    BY <1>2, BeginTurns DEF Begin
  <2>2. Flying(hit') = A \cup {k} /\ k \notin A
    BY <1>a, <2>1, SetsTurn DEF Enters
  <2>3. IsFiniteSet(Flying(hit')) /\ Cardinality(Flying(hit')) = n + 1
    BY <1>b, <1>c, <2>2, FiniteTurn
  <2>4. views' = views + 1
    BY <2>1 DEF Enters
  <2> QED BY <1>0, <1>c, <2>1, <2>3, <2>4 DEF PagesInv
<1>3. CASE \E k \in Trackers : Reserve(k) \/ ReserveFails(k)
  <2>1. PICK k \in Trackers : Reserved(k) /\ UNCHANGED <<sess, views>>
    BY <1>3, ReserveTurns DEF Reserve, ReserveFails
  <2>2. Flying(hit') = Flying(hit)
    BY <2>1, SetsTurn DEF Reserved
  <2> QED BY <2>1, <2>2 DEF PagesInv
<1>4. ASSUME UNCHANGED <<sess, views>>, NEW k \in Trackers, Leaves(k) \/ Counted(k)
      PROVE  PagesInv'
  <2>1. Flying(hit') = A \/ Flying(hit') = A \ {k}
    BY <1>4, <1>a, SetsTurn DEF Leaves, Counted
  <2>2. Flying(hit') \subseteq A
    BY <2>1
  <2>3. /\ IsFiniteSet(Flying(hit')) /\ Cardinality(Flying(hit')) \in Nat
        /\ Cardinality(Flying(hit')) <= n
    BY <1>b, <1>c, <2>2, FiniteTurn
  <2> QED BY <1>0, <1>4, <1>c, <2>3 DEF PagesInv
<1>5. CASE \E k \in Trackers : Count(k)
  BY <1>4, <1>5, CountTurns DEF Count
<1>6. CASE \E k \in Trackers : Abandon(k)
  BY <1>4, <1>6, LeaveTurns DEF Abandon
<1>7. CASE \E k \in Trackers : Update(k)
  <2>1. PICK k \in Trackers : Update(k)
    BY <1>7
  <2>2. PICK h : h = hit[k]
    OBVIOUS
  <2>3. Leaves(k) /\ views' = views
    BY <2>1, LeaveTurns DEF Leaves
  <2>4. \/ UNCHANGED <<day, sess>> \/ Starting(h) \/ Following(h)
    BY <2>1, <2>2, ScriptCases
  <2>5. CASE UNCHANGED <<day, sess>>
    BY <1>4, <2>3, <2>5
  <2>6. CASE Starting(h) \/ Following(h)
    <3>1. Recorded(h) /\ now' = now
      BY <2>1, <2>6 DEF Starting, Following, Update
    <3>2. PICK v \in Visitors : v = h.who
      BY <3>1, Rewritten
    <3>3. sess'[v].pages = 1 \/ sess'[v].pages = sess[v].pages + 1
      BY <2>6, <3>1, <3>2, Rewritten DEF Starting, Following
    <3>4. \A u \in Visitors \ {v} : sess'[u] = sess[u]
      BY <3>1, <3>2, RecordedShapes DEF Moves
    <3>5. Flying(hit') = A \ {k} /\ k \in A
      BY <1>a, <2>3, SetsTurn DEF Leaves
    <3>6. IsFiniteSet(Flying(hit')) /\ Cardinality(Flying(hit')) = n - 1
      BY <1>b, <1>c, <3>5, FiniteTurn
    <3>7. ASSUME NEW u \in Visitors PROVE sess'[u].pages + (n - 1) <= views
      <4>1. sess[u].pages + n <= views /\ sess[u].pages \in Nat
        BY <1>0, <1>c
      <4>2. sess'[u].pages = 1 \/ sess'[u].pages = sess[u].pages + 1 \/ sess'[u].pages = sess[u].pages
        BY <3>3, <3>4
      <4> QED BY <1>0, <4>1, <4>2
    <3> QED BY <2>3, <3>6, <3>7 DEF PagesInv
  <2> QED BY <2>4, <2>5, <2>6
<1>8. CASE LoseRedis
  <2>1. sess' = [v \in Visitors |-> NoSession] /\ UNCHANGED <<hit, views>>
    BY <1>8 DEF LoseRedis
  <2>2. \A v \in Visitors : sess'[v].pages = 0
    BY <2>1, NoSessionIs
  <2>3. \A v \in Visitors : n <= views
    BY <1>0, <1>c
  <2> QED BY <1>a, <1>b, <1>c, <2>1, <2>2, <2>3 DEF PagesInv
<1> QED BY <1>1, <1>2, <1>3, <1>5, <1>6, <1>7, <1>8, StepCases DEF vars, Tick

LEMMA PagesInit ==
    ASSUME Init
    PROVE  PagesInv
<1>1. Flying(hit) = {} /\ views = 0
  BY IdleShape DEF Init, Flying
<1>2. IsFiniteSet({}) /\ Cardinality({}) = 0
  BY FS_EmptySet
<1>3. \A v \in Visitors : sess[v].pages = 0
  BY NoSessionIs DEF Init
<1> QED BY <1>1, <1>2, <1>3 DEF PagesInv

\* Counters are numbers, and the hashes of a day have only the fields a view can
\* give them (TypeOK).
THEOREM SessionTypes == Spec => []TypeOK
<1>1. Init => ShapeInv /\ PagesInv
  BY ShapeInit, PagesInit
<1>2. ShapeInv /\ PagesInv /\ [Next]_vars => ShapeInv' /\ PagesInv'
  BY ShapeStep, PagesStep
<1>3. ShapeInv /\ PagesInv => TypeOK
  <2>1. SUFFICES ASSUME ShapeInv, PagesInv PROVE TypeOK
    OBVIOUS
  <2>2. sess \in [Visitors -> Session]
    <3>1. ASSUME NEW v \in Visitors PROVE sess[v] \in Session
      <4>1. sess[v] \in VisitsBy(now) /\ now \in 0..MaxTime /\ views \in 0..MaxViews
        BY <2>1 DEF ShapeInv, SessInv, ClockInv
      <4>2. Cardinality(Flying(hit)) \in Nat /\ sess[v].pages + Cardinality(Flying(hit)) <= views
        BY <2>1, FS_CardinalityType DEF PagesInv
      <4>3. sess[v].pages \in 0..MaxViews
        BY <4>1, <4>2, Numbers DEF VisitsBy
      <4>4. sess[v] \in VisitsBy(MaxTime)
        BY <4>1, LaterVisits, Numbers
      <4> QED BY <4>3, <4>4 DEF VisitsBy, Session
    <3>2. DOMAIN sess = Visitors /\ sess = [v \in Visitors |-> sess[v]]
      BY <2>1 DEF ShapeInv, SessInv
    <3> QED BY <3>1, <3>2
  <2>3. \A k \in Trackers : hit[k].stage \in {"idle", "reserve", "count", "session"}
    BY <2>1 DEF ShapeInv, HitInv, HitShape
  <2>4. ASSUME NEW d \in Dates
        PROVE  /\ guard[d] \subseteq Visitors /\ day[d].uv \subseteq Visitors
               /\ DOMAIN day[d].entrances \subseteq Paths /\ DOMAIN day[d].exits \subseteq Paths
               /\ DOMAIN day[d].flows \subseteq Paths \X Paths
               /\ DOMAIN day[d].segments \subseteq Metrics \X Campaigns
    BY <2>1 DEF ShapeInv, GuardInv, DayInv, DayShape, IsHash, SegmentFields
  <2>5. now \in 0..MaxTime /\ views \in 0..MaxViews /\ faults \in 0..MaxFaults
    BY <2>1 DEF ShapeInv, ClockInv
  <2> QED BY <2>2, <2>3, <2>4, <2>5 DEF TypeOK
<1> QED BY <1>1, <1>2, <1>3, PTL DEF Spec

-----------------------------------------------------------------------------
(* The figures of a day make sense at every moment. *)

\* Days that differ in the plain counts only.
SameVisits(x, y) ==
    /\ y.sessions = x.sessions /\ y.bounces = x.bounces /\ y.pageviews = x.pageviews
    /\ y.duration = x.duration /\ y.entrances = x.entrances /\ y.exits = x.exits
    /\ y.flows = x.flows /\ y.segments = x.segments

LEMMA CountSame ==
    ASSUME NEW k, CountOf(k)
    PROVE  \A d \in Dates : SameVisits(day[d], day'[d])
BY DEF CountOf, SameVisits, DayFields

\* What a step does to the visits: nothing, a view of a visit, or a loss.
Steady == /\ UNCHANGED <<sess, seen, late, capped, torn>>
           /\ \A d \in Dates : SameVisits(day[d], day'[d])

Losing == /\ day' = [d \in Dates |-> EmptyDay] /\ sess' = [v \in Visitors |-> NoSession]
          /\ seen' = {} /\ late' = 0 /\ capped' = {}
          /\ torn' = (torn \/ \E k \in Trackers : hit[k].stage # "idle")

Viewing(h) == now' = now /\ torn' = torn /\ (Starting(h) \/ Following(h))

LEMMA VisitCases ==
    ASSUME ShapeInv, [Next]_vars
    PROVE  \/ Steady /\ (now' = now \/ now' = now + 1)
           \/ \E h : Viewing(h)
           \/ Losing /\ now' = now
<1>1. CASE UNCHANGED <<day, sess, seen, late, capped, torn>> /\ (now' = now \/ now' = now + 1)
  BY <1>1 DEF Steady, SameVisits
<1>2. CASE \E k \in Trackers : Count(k)
  BY <1>2, CountCases, CountSame DEF Steady, Count
<1>3. CASE \E k \in Trackers : Update(k)
  <2>1. PICK k \in Trackers : Update(k)
    BY <1>3
  <2>2. UNCHANGED <<now, torn>>
    BY <2>1 DEF Update
  <2>3. UNCHANGED <<day, sess, seen, late, capped>> \/ Starting(hit[k]) \/ Following(hit[k])
    BY <2>1, ScriptCases
  <2> QED BY <1>1, <2>2, <2>3 DEF Viewing
<1>4. CASE LoseRedis
  BY <1>4 DEF LoseRedis, Losing
<1> QED BY <1>1, <1>2, <1>3, <1>4, StepCases DEF vars, Begin, Reserve, ReserveFails, Abandon, Tick

LEMMA QualityStays ==
    ASSUME NEW x, NEW y, SameVisits(x, y), NEW s, NEW d, QualityInv(x, s, d)
    PROVE  QualityInv(y, s, d)
<1>1. Places(x, s, d) = Places(y, s, d)
  BY DEF SameVisits, Places
<1> QED BY <1>1 DEF QualityInv, SameVisits, BounceInv, DurationInv, EntryInv, ExitInv

LEMMA QualityOfEmpty ==
    ASSUME NEW s, DOMAIN s = Visitors, \A v \in Visitors : s[v] = NoSession, NEW d \in Dates
    PROVE  QualityInv(EmptyDay, s, d)
<1>1. /\ EmptyDay.sessions = 0 /\ EmptyDay.bounces = 0 /\ EmptyDay.pageviews = 0
      /\ EmptyDay.duration = 0 /\ EmptyDay.entrances = Empty /\ EmptyDay.exits = Empty
  BY DEF EmptyDay
<1>2. Bouncing(s, d) = {} /\ \A p \in Paths : Opened(s, d, p) = {}
  BY NoSessionIs DEF Bouncing, Opened, Dates
<1>3. Cardinality({}) = 0
  BY FS_EmptySet
<1>4. BounceInv(EmptyDay, s, d)
  BY <1>1, <1>2, <1>3 DEF BounceInv
<1>5. DurationInv(EmptyDay)
  BY <1>1, Numbers DEF DurationInv
<1>6. EntryInv(EmptyDay)
  <2>1. PICK a : a = Values(Empty, Paths)
    OBVIOUS
  <2>2. \A p \in Paths : a[p] = 0
    BY <2>1, EmptyHash DEF Values
  <2>3. SumOf(a, Paths) = 0
    BY <2>2, Finite, SumZero
  <2> QED BY <1>1, <2>1, <2>3 DEF EntryInv
<1>7. ExitInv(EmptyDay, s, d)
  <2>1. PICK a : a = Places(EmptyDay, s, d)
    OBVIOUS
  <2>2. \A p \in Paths : a[p] = 0
    BY <1>1, <1>2, <1>3, <2>1, EmptyHash DEF Places, Larger
  <2>3. SumOf(a, Paths) = 0
    BY <2>2, Finite, SumZero
  <2> QED BY <1>1, <2>1, <2>3 DEF ExitInv
<1> QED BY <1>4, <1>5, <1>6, <1>7 DEF QualityInv

FiguresInv == \A d \in Dates : QualityInv(day[d], sess, d)

LEMMA FiguresInit ==
    ASSUME Init
    PROVE  FiguresInv
BY QualityOfEmpty DEF Init, FiguresInv

LEMMA FiguresStep ==
    ASSUME ShapeInv, FiguresInv, [Next]_vars
    PROVE  FiguresInv'
<1>1. CASE Steady
  BY <1>1, QualityStays DEF Steady, FiguresInv
<1>2. ASSUME NEW h, Viewing(h)
      PROVE  FiguresInv'
  <2>1. Recorded(h) /\ now' = now /\ (Starting(h) \/ Following(h))
    BY <1>2 DEF Viewing, Starting, Following
  <2>2. PICK v \in Visitors, d \in Dates : v = h.who /\ d = DateOf(h.at) /\ sess'[v].date = d
    BY <2>1, Rewritten
  <2>3. Moves(sess, sess', v) /\ sess'[v].path = h.path /\ IsView(h)
    BY <2>1, <2>2, Rewritten, RecordedShapes DEF Recorded
  <2>4. ASSUME NEW e \in Dates, e # d PROVE QualityInv(day'[e], sess', e)
    <3>1. day'[e] = day[e] /\ DayShape(day[e]) /\ QualityInv(day[e], sess, e)
      BY <2>1, <2>2, <2>4 DEF Recorded, ShapeInv, DayInv, FiguresInv
    <3>2. sess'[v].date # e
      BY <2>2, <2>4
    <3>3. QualityInv(day[e], sess', e)
      BY <2>3, <3>1, <3>2, QualityElsewhere
    <3> QED BY <3>1, <3>3
  <2>5. PICK x, y : x = day[d] /\ y = day'[d]
    OBVIOUS
  <2>6. DayShape(x) /\ QualityInv(x, sess, d)
    BY <2>5 DEF ShapeInv, DayInv, FiguresInv
  <2>7. CASE Starting(h)
    <3>1. OpenedParts(x, y, h)
      BY <2>2, <2>5, <2>7 DEF Starting
    <3>2. QualityInv(y, sess', d)
      BY <2>3, <2>6, <3>1, QualityOpens
    <3> QED BY <2>4, <2>5, <3>2 DEF FiguresInv
  <2>8. CASE Following(h)
    <3>1. ContinuedParts(x, y, h, sess[v])
      BY <2>2, <2>5, <2>8 DEF Following
    <3>2. ~IsNew(h, sess[v]) /\ sess'[v].pages = sess[v].pages + 1
      BY <2>1, <2>2, <2>8, Rewritten DEF Following
    <3>3. sess[v].date = d /\ h.at - sess[v].last <= Timeout /\ d # 0
      <4>1. h.at \in Nat /\ sess[v].last \in Nat
        BY <2>3 DEF IsView, Moves, SessShape, StoredShape
      <4> QED BY <2>2, <3>2, <4>1, Numbers DEF IsNew, Dates
    <3>4. GoesOn(sess, sess', v, d, h)
      BY <2>2, <2>3, <3>2, <3>3 DEF GoesOn
    <3>5. QualityInv(y, sess', d)
      BY <2>3, <2>6, <3>1, <3>4, QualityContinues
    <3> QED BY <2>4, <2>5, <3>5 DEF FiguresInv
  <2> QED BY <2>1, <2>7, <2>8
<1>3. CASE Losing
  <2>1. /\ \A d \in Dates : day'[d] = EmptyDay
        /\ DOMAIN sess' = Visitors /\ \A v \in Visitors : sess'[v] = NoSession
    BY <1>3 DEF Losing
  <2> QED BY <2>1, QualityOfEmpty DEF FiguresInv
<1> QED BY <1>1, <1>2, <1>3, VisitCases

-----------------------------------------------------------------------------
LEMMA CountStep ==
    ASSUME ShapeInv, PagesInv, CountInv, [Next]_vars
    PROVE  CountInv'
<1>0. /\ IsFiniteSet(Flying(hit))
      /\ \A d \in Dates : day[d].pageviews \in Int /\ day[d].pv \in Nat
      /\ \A d \in Dates : IsFiniteSet(Scripted(hit, d)) /\ Cardinality(Scripted(hit, d)) \in Nat
  <2>1. \A d \in Dates : Scripted(hit, d) \subseteq Flying(hit)
    BY DEF Scripted, Flying
  <2> QED BY <2>1, FS_Subset, FS_CardinalityType DEF PagesInv, ShapeInv, DayInv, DayShape
<1>1. CASE UNCHANGED <<hit, day, torn>>
  BY <1>1 DEF CountInv
<1>2. ASSUME UNCHANGED <<day, torn>>, NEW k \in Trackers, Turns(k, hit'[k]),
             hit'[k].stage # "session"
      PROVE  CountInv'
  <2>1. ASSUME NEW d \in Dates, day[d].pageviews + Cardinality(Scripted(hit, d)) <= day[d].pv
        PROVE  day[d].pageviews + Cardinality(Scripted(hit', d)) <= day[d].pv
    <3>1. Scripted(hit', d) \subseteq Scripted(hit, d)
      BY <1>2, SetsTurn
    <3>2. /\ Cardinality(Scripted(hit', d)) \in Nat
          /\ Cardinality(Scripted(hit', d)) <= Cardinality(Scripted(hit, d))
      BY <1>0, <3>1, FiniteTurn
    <3> QED BY <1>0, <2>1, <3>2
  <2> QED BY <1>2, <2>1 DEF CountInv
<1>3. CASE \E k \in Trackers, v \in Visitors, p \in Paths, c \in Campaigns \cup {NoCampaign} :
             Begin(k, v, p, c)
  BY <1>2, <1>3, BeginTurns DEF Begin, Enters
<1>4. CASE \E k \in Trackers : Reserve(k) \/ ReserveFails(k)
  <2>1. PICK k \in Trackers : Reserve(k) \/ ReserveFails(k)
    BY <1>4
  <2>2. Turns(k, hit'[k]) /\ hit'[k].stage # "session" /\ UNCHANGED <<day, torn>>
    BY <2>1, ReserveTurns DEF Reserved, Reserve, ReserveFails
  <2> QED BY <1>2, <2>2
<1>5. CASE \E k \in Trackers : Abandon(k)
  <2>1. PICK k \in Trackers : Abandon(k)
    BY <1>5
  <2>2. Turns(k, hit'[k]) /\ hit'[k].stage # "session" /\ UNCHANGED <<day, torn>>
    BY <2>1, LeaveTurns DEF Leaves, Abandon
  <2> QED BY <1>2, <2>2
<1>6. CASE \E k \in Trackers : Count(k)
  <2>1. PICK k \in Trackers : Count(k)
    BY <1>6
  <2>2. CountOf(k) /\ Counted(k) /\ torn' = torn
    BY <2>1, CountCases, CountTurns DEF Count
  <2>3. Turns(k, hit'[k]) /\ hit[k].stage # "session"
    BY <2>2 DEF Counted
  <2>4. ASSUME NEW d \in Dates, day[d].pageviews + Cardinality(Scripted(hit, d)) <= day[d].pv
        PROVE  day'[d].pageviews + Cardinality(Scripted(hit', d)) <= day'[d].pv
    <3>1. day'[d].pageviews = day[d].pageviews
      BY <2>2, CountSame DEF SameVisits
    <3>2. CASE d = DateOf(hit[k].at)
      <4>1. day'[d].pv = day[d].pv + 1
        BY <2>2, <3>2 DEF CountOf
      <4>2. Scripted(hit', d) \subseteq Scripted(hit, d) \cup {k}
        BY <2>3, SetsTurn
      <4>3. PICK B : B = Scripted(hit, d) \cup {k}
        OBVIOUS
      <4>4. /\ IsFiniteSet(B) /\ Cardinality(B) \in Nat
            /\ Cardinality(B) <= Cardinality(Scripted(hit, d)) + 1
        BY <1>0, <4>3, FiniteTurn, SMTT(30)
      <4>5. /\ Cardinality(Scripted(hit', d)) \in Nat
            /\ Cardinality(Scripted(hit', d)) <= Cardinality(B)
        BY <4>2, <4>3, <4>4, FiniteTurn
      <4> QED BY <1>0, <2>4, <3>1, <4>1, <4>4, <4>5
    <3>3. CASE d # DateOf(hit[k].at)
      <4>1. day'[d] = day[d]
        BY <2>2, <3>3 DEF CountOf
      <4>2. hit'[k].stage # "session" \/ DateOf(hit'[k].at) # d
        BY <2>2, <3>3 DEF Counted
      <4>3. Scripted(hit', d) \subseteq Scripted(hit, d)
        BY <2>3, <4>2, SetsTurn
      <4>4. /\ Cardinality(Scripted(hit', d)) \in Nat
            /\ Cardinality(Scripted(hit', d)) <= Cardinality(Scripted(hit, d))
        BY <1>0, <4>3, FiniteTurn
      <4> QED BY <1>0, <2>4, <4>1, <4>4
    <3> QED BY <3>2, <3>3
  <2> QED BY <2>2, <2>4 DEF CountInv
<1>7. CASE \E k \in Trackers : Update(k)
  <2>1. PICK k \in Trackers : Update(k)
    BY <1>7
  <2>2. PICK h : h = hit[k]
    OBVIOUS
  <2>3. Turns(k, hit'[k]) /\ hit'[k].stage # "session" /\ torn' = torn /\ h.stage = "session"
    BY <2>1, <2>2, LeaveTurns DEF Leaves, Update
  <2>4. UNCHANGED <<day, sess>> \/ Starting(h) \/ Following(h)
    BY <2>1, <2>2, ScriptCases
  <2>5. CASE UNCHANGED <<day, sess>>
    BY <1>2, <2>3, <2>5
  <2>6. CASE Starting(h) \/ Following(h)
    <3>1. PICK d \in Dates : d = DateOf(h.at)
      BY DateType
    <3>2. /\ day'[d].pageviews = day[d].pageviews + 1 /\ day'[d].pv = day[d].pv
          /\ \A e \in Dates : e # d => day'[e] = day[e]
      BY <2>6, <3>1 DEF Starting, Following, Recorded, OpenedParts, ContinuedParts
    <3>3. ASSUME NEW e \in Dates, day[e].pageviews + Cardinality(Scripted(hit, e)) <= day[e].pv
          PROVE  day'[e].pageviews + Cardinality(Scripted(hit', e)) <= day'[e].pv
      <4>1. Scripted(hit', e) = Scripted(hit, e) \ {k} /\ (e = d => k \in Scripted(hit, e))
        BY <2>2, <2>3, <3>1, SetsTurn
      <4>2. /\ Cardinality(Scripted(hit', e)) \in Nat
            /\ Cardinality(Scripted(hit', e)) =
                 IF k \in Scripted(hit, e) THEN Cardinality(Scripted(hit, e)) - 1
                                           ELSE Cardinality(Scripted(hit, e))
        <5>1. PICK A, B : A = Scripted(hit, e) /\ B = Scripted(hit', e)
          OBVIOUS
        <5>2. IsFiniteSet(A) /\ B = A \ {k}
          BY <1>0, <4>1, <5>1
        <5>3. /\ Cardinality(B) \in Nat
              /\ Cardinality(B) = IF k \in A THEN Cardinality(A) - 1 ELSE Cardinality(A)
          BY <5>2, FiniteTurn
        <5> QED BY <5>1, <5>3
      <4>3. CASE e = d
        BY <1>0, <3>2, <3>3, <4>1, <4>2, <4>3
      <4>4. CASE e # d
        BY <1>0, <3>2, <3>3, <4>1, <4>2, <4>4
      <4> QED BY <4>3, <4>4
    <3> QED BY <2>3, <3>3 DEF CountInv
  <2> QED BY <2>4, <2>5, <2>6
<1>8. CASE LoseRedis
  <2>1. /\ \A d \in Dates : day'[d] = EmptyDay
        /\ hit' = hit /\ torn' = (torn \/ \E k \in Trackers : hit[k].stage # "idle")
    BY <1>8 DEF LoseRedis
  <2>2. CASE \A k \in Trackers : hit[k].stage = "idle"
    <3>1. \A d \in Dates : Scripted(hit', d) = {}
      BY <2>1, <2>2 DEF Scripted
    <3>2. EmptyDay.pageviews = 0 /\ EmptyDay.pv = 0
      BY DEF EmptyDay
    <3>3. Cardinality({}) = 0
      BY FS_EmptySet
    <3>4. \A d \in Dates : day'[d].pageviews + Cardinality(Scripted(hit', d)) <= day'[d].pv
      BY <2>1, <3>1, <3>2, <3>3
    <3> QED BY <3>4 DEF CountInv
  <2>3. CASE ~(\A k \in Trackers : hit[k].stage = "idle")
    BY <2>1, <2>3 DEF CountInv
  <2> QED BY <2>2, <2>3
<1> QED BY <1>1, <1>3, <1>4, <1>5, <1>6, <1>7, <1>8, StepCases DEF vars, Tick

LEMMA CountInit ==
    ASSUME Init
    PROVE  CountInv
<1>1. \A d \in Dates : Scripted(hit, d) = {} /\ day[d] = EmptyDay
  BY IdleShape DEF Init, Scripted
<1>2. EmptyDay.pageviews = 0 /\ EmptyDay.pv = 0
  BY DEF EmptyDay
<1>3. Cardinality({}) = 0
  BY FS_EmptySet
<1> QED BY <1>1, <1>2, <1>3 DEF CountInv

\* The figures of every day, from what is known of its visits.
LEMMA FiguresSense ==
    ASSUME ShapeInv, FiguresInv, NEW d \in Dates
    PROVE  QualityMakesSense(day[d])
<1>1. PICK x : x = day[d]
  OBVIOUS
<1>2. DayShape(x) /\ QualityInv(x, sess, d)
  BY <1>1 DEF ShapeInv, DayInv, FiguresInv
<1>3. Total(x.entrances) <= x.sessions
  <2>1. IsHash(x.entrances, Paths, Int)
    BY <1>2, NatIsInt DEF DayShape
  <2>2. Total(x.entrances) = SumOf(Values(x.entrances, Paths), Paths)
    BY <2>1, Finite, TotalIs
  <2> QED BY <1>2, <2>2 DEF QualityInv, EntryInv
<1>4. Total(x.exits) <= x.sessions
  <2>1. IsHash(x.exits, Paths, Int)
    BY <1>2, NatIsInt DEF DayShape
  <2>2. PICK a, b : a = Values(x.exits, Paths) /\ b = Places(x, sess, d)
    OBVIOUS
  <2>3. Total(x.exits) = SumOf(a, Paths)
    BY <2>1, <2>2, Finite, TotalIs
  <2>4. \A p \in Paths : a[p] \in Int /\ b[p] \in Int /\ a[p] <= b[p]
    <3>1. ASSUME NEW p \in Paths PROVE a[p] \in Int /\ b[p] \in Int /\ a[p] <= b[p]
      <4>1. /\ b[p] \in Nat /\ Value(x.exits, p) \in Nat
            /\ Cardinality(Opened(sess, d, p)) \in Nat
            /\ b[p] = Larger(Value(x.exits, p), Cardinality(Opened(sess, d, p)))
        BY <1>2, <2>2, PlacesType
      <4>2. a[p] = Value(x.exits, p)
        BY <2>2 DEF Values
      <4> QED BY <4>1, <4>2 DEF Larger
    <3> QED BY <3>1
  <2>5. SumOf(a, Paths) <= SumOf(b, Paths) /\ SumOf(a, Paths) \in Int /\ SumOf(b, Paths) \in Int
    <3>1. \A p \in Paths : a[p] \in Int
      BY <2>4
    <3>2. \A p \in Paths : b[p] \in Int
      BY <2>4
    <3>3. SumOf(a, Paths) \in Int /\ SumOf(b, Paths) \in Int
      BY <3>1, <3>2, Finite, SumType
    <3> QED BY <2>4, <3>3, Finite, SumAtMost
  <2> QED BY <1>2, <2>2, <2>3, <2>5 DEF QualityInv, ExitInv, DayShape
<1>5. /\ 0 <= x.bounces /\ x.bounces <= x.sessions
      /\ 2 * x.sessions - x.bounces <= x.pageviews
  <2>1. Cardinality(Bouncing(sess, d)) \in Nat
    BY Finite DEF Bouncing
  <2> QED BY <1>2, <2>1 DEF QualityInv, BounceInv, DayShape
<1> QED BY <1>1, <1>2, <1>3, <1>4, <1>5 DEF QualityMakesSense, QualityInv, DurationInv

\* Whenever a report reads Redis, however views interleave: a visit is a bounce or
\* has two views, its pauses are at most the timeout, its views were counted, and
\* it has one entry and one exit at most (QualityConsistent).
THEOREM QualityCorrect == Spec => []QualityConsistent
<1>1. Init => ShapeInv /\ PagesInv /\ CountInv /\ FiguresInv
  BY ShapeInit, PagesInit, CountInit, FiguresInit
<1>2. ShapeInv /\ PagesInv /\ CountInv /\ FiguresInv /\ [Next]_vars
        => ShapeInv' /\ PagesInv' /\ CountInv' /\ FiguresInv'
  BY ShapeStep, PagesStep, CountStep, FiguresStep
<1>3. ShapeInv /\ PagesInv /\ CountInv /\ FiguresInv => QualityConsistent
  <2>1. SUFFICES ASSUME ShapeInv, PagesInv, CountInv, FiguresInv PROVE QualityConsistent
    OBVIOUS
  <2>2. \A d \in Dates : QualityMakesSense(day[d])
    BY <2>1, FiguresSense
  <2>3. ASSUME NEW d \in Dates PROVE torn \/ day[d].pageviews <= day[d].pv
    <3>1. Scripted(hit, d) \subseteq Flying(hit) /\ IsFiniteSet(Flying(hit))
      BY <2>1 DEF Scripted, Flying, PagesInv
    <3>2. Cardinality(Scripted(hit, d)) \in Nat
      BY <3>1, FS_Subset, FS_CardinalityType
    <3>3. day[d].pageviews \in Int /\ day[d].pv \in Nat
      BY <2>1 DEF ShapeInv, DayInv, DayShape
    <3> QED BY <2>1, <3>2, <3>3 DEF CountInv
  <2> QED BY <2>2, <2>3 DEF QualityConsistent
<1> QED BY <1>1, <1>2, <1>3, PTL DEF Spec

-----------------------------------------------------------------------------
(* The visitors followed one by one. *)

\* A view past the reservation has its visitor in the guard, one past the count in
\* the day's visitors, and so has every visit.
Admitted(q, d, g, u) ==
    /\ q.stage = "count" /\ q.exact => (DateOf(q.at) = d => q.who \in g)
    /\ q.stage = "session" => (DateOf(q.at) = d => q.who \in u)

VisitorsOf(d) ==
    /\ day[d].uv \subseteq guard[d] /\ Cardinality(guard[d]) <= MaxVisitors
    /\ \A k \in Trackers : Admitted(hit[k], d, guard[d], day[d].uv)
    /\ \A v \in Visitors : sess[v].date = d => v \in day[d].uv

VisitorInv == torn \/ \A d \in Dates : VisitorsOf(d)

LEMMA ReserveAdmits ==
    ASSUME ShapeInv, NEW k \in Trackers, Reserve(k)
    PROVE  \/ guard' = guard /\ ~hit'[k].exact
           \/ /\ guard' = [guard EXCEPT ![DateOf(hit[k].at)] = @ \cup {hit[k].who}]
              /\ Allowed(hit[k].who, DateOf(hit[k].at))
<1>1. PICK a : a = Allowed(hit[k].who, DateOf(hit[k].at))
  OBVIOUS
<1>2. /\ hit' = [hit EXCEPT ![k].stage = "count", ![k].exact = a]
      /\ guard' = IF a THEN [guard EXCEPT ![DateOf(hit[k].at)] = @ \cup {hit[k].who}] ELSE guard
  BY <1>1 DEF Reserve
<1>3. DOMAIN hit = Trackers /\ DOMAIN hit[k] = HitFields
  BY DEF ShapeInv, HitInv, HitShape
<1>4. hit'[k].exact = a
  BY <1>2, <1>3 DEF HitFields
<1> QED BY <1>1, <1>2, <1>4

\* A visitor of a day enters its guard.
LEMMA GuardGrows ==
    ASSUME ShapeInv, NEW d \in Dates, Cardinality(guard[d]) <= MaxVisitors,
           NEW v \in Visitors, Allowed(v, d)
    PROVE  Cardinality(guard[d] \cup {v}) <= MaxVisitors
<1>1. guard[d] \in SUBSET Visitors
  BY DEF ShapeInv, GuardInv
<1>2. CASE v \in guard[d]
  <2>1. guard[d] \cup {v} = guard[d]
    BY <1>2
  <2> QED BY <2>1
<1>3. CASE v \notin guard[d]
  <2>1. Cardinality(guard[d]) < MaxVisitors
    BY <1>3 DEF Allowed
  <2>2. /\ Cardinality(guard[d]) \in Nat /\ Cardinality(guard[d] \cup {v}) \in Nat
        /\ Cardinality(guard[d] \cup {v}) <= Cardinality(guard[d]) + 1
    BY <1>1, OneMoreVisitor
  <2> QED BY <2>1, <2>2, Numbers
<1> QED BY <1>2, <1>3

LEMMA VisitorStep ==
    ASSUME ShapeInv, VisitorInv, [Next]_vars
    PROVE  VisitorInv'
<1>1. CASE UNCHANGED <<hit, guard, day, sess, torn>>
  BY <1>1 DEF VisitorInv, VisitorsOf
<1>2. ASSUME UNCHANGED <<guard, day, sess, torn>>, NEW k \in Trackers, Turns(k, hit'[k]),
             hit'[k].stage # "session", ~(hit'[k].stage = "count" /\ hit'[k].exact)
      PROVE  VisitorInv'
  <2>1. ASSUME NEW d \in Dates, VisitorsOf(d)
        PROVE  \A i \in Trackers : Admitted(hit'[i], d, guard[d], day[d].uv)
    BY <1>2, <2>1 DEF VisitorsOf, Admitted, Turns
  <2> QED BY <1>2, <2>1 DEF VisitorInv, VisitorsOf
<1>3. CASE \E k \in Trackers, v \in Visitors, p \in Paths, c \in Campaigns \cup {NoCampaign} :
             Begin(k, v, p, c)
  BY <1>2, <1>3, BeginTurns DEF Begin, Enters
<1>4. CASE \E k \in Trackers : Abandon(k)
  BY <1>2, <1>4, LeaveTurns DEF Abandon, Leaves
<1>5. CASE \E k \in Trackers : ReserveFails(k)
  <2>1. PICK k \in Trackers : ReserveFails(k)
    BY <1>5
  <2>2. Turns(k, hit'[k]) /\ hit'[k].stage = "count" /\ UNCHANGED <<guard, day, sess, torn>>
    BY <2>1, ReserveTurns DEF ReserveFails, Reserved
  <2>3. ~hit'[k].exact
    <3>1. hit' = [hit EXCEPT ![k].stage = "count", ![k].exact = FALSE]
      BY <2>1 DEF ReserveFails
    <3>2. DOMAIN hit = Trackers /\ DOMAIN hit[k] = HitFields
      BY DEF ShapeInv, HitInv, HitShape
    <3> QED BY <3>1, <3>2 DEF HitFields
  <2> QED BY <1>2, <2>2, <2>3
<1>6. CASE \E k \in Trackers : Reserve(k)
  <2>1. PICK k \in Trackers : Reserve(k)
    BY <1>6
  <2>2. Turns(k, hit'[k]) /\ hit'[k].stage = "count" /\ UNCHANGED <<day, sess, torn>>
        /\ hit'[k].at = hit[k].at /\ hit'[k].who = hit[k].who
    BY <2>1, ReserveTurns DEF Reserve, Reserved
  <2>3. CASE guard' = guard /\ ~hit'[k].exact
    BY <1>2, <2>2, <2>3
  <2>4. CASE /\ guard' = [guard EXCEPT ![DateOf(hit[k].at)] = @ \cup {hit[k].who}]
             /\ Allowed(hit[k].who, DateOf(hit[k].at))
    <3>1. PICK e \in Dates, v \in Visitors : e = DateOf(hit[k].at) /\ v = hit[k].who
      BY <2>1, DateType DEF Reserve, ShapeInv, HitInv, HitShape
    <3>2. guard'[e] = guard[e] \cup {v} /\ \A d \in Dates : d # e => guard'[d] = guard[d]
      BY <2>4, <3>1 DEF ShapeInv, GuardInv
    <3>3. ASSUME NEW d \in Dates, VisitorsOf(d) PROVE VisitorsOf(d)'
      <4>1. guard[d] \subseteq guard'[d]
        BY <3>2
      <4>2. Cardinality(guard'[d]) <= MaxVisitors
        <5>1. CASE d = e
          BY <2>4, <3>1, <3>2, <3>3, <5>1, GuardGrows DEF VisitorsOf
        <5>2. CASE d # e
          BY <3>2, <3>3, <5>2 DEF VisitorsOf
        <5> QED BY <5>1, <5>2
      <4>3. ASSUME NEW i \in Trackers PROVE Admitted(hit'[i], d, guard'[d], day[d].uv)
        <5>1. CASE i = k
          BY <2>2, <3>1, <3>2, <5>1 DEF Admitted
        <5>2. CASE i # k
          BY <2>2, <3>3, <4>1, <5>2 DEF Admitted, VisitorsOf, Turns
        <5> QED BY <5>1, <5>2
      <4> QED BY <2>2, <3>3, <4>1, <4>2, <4>3 DEF VisitorsOf
    <3> QED BY <2>2, <3>3 DEF VisitorInv
  <2> QED BY <2>1, <2>3, <2>4, ReserveAdmits
<1>7. CASE \E k \in Trackers : Count(k)
  <2>1. PICK k \in Trackers : Count(k)
    BY <1>7
  <2>2. Turns(k, hit'[k]) /\ hit[k].stage = "count" /\ UNCHANGED <<guard, sess, torn>>
        /\ CountOf(k) /\ Counted(k)
    BY <2>1, CountTurns, CountCases DEF Count, Counted
  <2>3. ASSUME NEW d \in Dates, VisitorsOf(d) PROVE VisitorsOf(d)'
    <3>1. /\ day[d].uv \subseteq day'[d].uv
          /\ \/ day'[d].uv = day[d].uv
             \/ hit[k].exact /\ DateOf(hit[k].at) = d /\ day'[d].uv = day[d].uv \cup {hit[k].who}
          /\ hit[k].exact /\ DateOf(hit[k].at) = d => hit[k].who \in day'[d].uv
      BY <2>2 DEF CountOf
    <3>2. hit[k].exact /\ DateOf(hit[k].at) = d => hit[k].who \in guard[d]
      BY <2>2, <2>3 DEF VisitorsOf, Admitted
    <3>3. day'[d].uv \subseteq guard[d]
      BY <2>3, <3>1, <3>2 DEF VisitorsOf
    <3>4. ASSUME NEW i \in Trackers PROVE Admitted(hit'[i], d, guard[d], day'[d].uv)
      <4>1. CASE i = k
        BY <2>2, <3>1, <4>1 DEF Admitted, Counted
      <4>2. CASE i # k
        BY <2>2, <2>3, <3>1, <4>2 DEF Admitted, VisitorsOf, Turns
      <4> QED BY <4>1, <4>2
    <3> QED BY <2>2, <2>3, <3>1, <3>3, <3>4 DEF VisitorsOf
  <2> QED BY <2>2, <2>3 DEF VisitorInv
<1>8. CASE \E k \in Trackers : Update(k)
  <2>1. PICK k \in Trackers : Update(k)
    BY <1>8
  <2>2. PICK h : h = hit[k]
    OBVIOUS
  <2>3. /\ Turns(k, hit'[k]) /\ hit'[k].stage = "idle" /\ h.stage = "session"
        /\ UNCHANGED <<guard, torn, now>>
    BY <2>1, <2>2, LeaveTurns DEF Leaves, Update
  <2>4. UNCHANGED <<day, sess>> \/ Starting(h) \/ Following(h)
    BY <2>1, <2>2, ScriptCases
  <2>5. CASE UNCHANGED <<day, sess>>
    BY <1>2, <2>3, <2>5
  <2>6. CASE Starting(h) \/ Following(h)
    <3>1. Recorded(h)
      BY <2>6 DEF Starting, Following
    <3>2. PICK v \in Visitors, e \in Dates : v = h.who /\ e = DateOf(h.at) /\ sess'[v].date = e
      BY <3>1, Rewritten
    <3>3. \A u \in Visitors \ {v} : sess'[u] = sess[u]
      BY <2>3, <3>1, <3>2, RecordedShapes DEF Moves
    <3>4. \A d \in Dates : day'[d].uv = day[d].uv
      BY <2>6, <3>1, <3>2 DEF Starting, Following, Recorded, OpenedParts, ContinuedParts
    <3>5. ASSUME NEW d \in Dates, VisitorsOf(d) PROVE VisitorsOf(d)'
      <4>1. e = d => v \in day[d].uv
        BY <2>2, <2>3, <3>2, <3>5 DEF VisitorsOf, Admitted
      <4>2. \A u \in Visitors : sess'[u].date = d => u \in day[d].uv
        BY <3>2, <3>3, <3>5, <4>1 DEF VisitorsOf
      <4>3. ASSUME NEW i \in Trackers PROVE Admitted(hit'[i], d, guard[d], day[d].uv)
        BY <2>3, <3>5 DEF VisitorsOf, Admitted, Turns
      <4> QED BY <2>3, <3>4, <3>5, <4>2, <4>3 DEF VisitorsOf
    <3> QED BY <2>3, <3>5 DEF VisitorInv
  <2> QED BY <2>4, <2>5, <2>6
<1>9. CASE LoseRedis
  <2>1. /\ \A d \in Dates : day'[d] = EmptyDay /\ guard'[d] = {}
        /\ \A v \in Visitors : sess'[v] = NoSession
        /\ hit' = hit /\ torn' = (torn \/ \E k \in Trackers : hit[k].stage # "idle")
    BY <1>9 DEF LoseRedis
  <2>2. CASE \A k \in Trackers : hit[k].stage = "idle"
    <3>1. \A d \in Dates, k \in Trackers : Admitted(hit'[k], d, guard'[d], day'[d].uv)
      BY <2>1, <2>2 DEF Admitted
    <3>2. EmptyDay.uv = {} /\ Cardinality({}) = 0 /\ 0 <= MaxVisitors
      BY FS_EmptySet, Numbers DEF EmptyDay
    <3>3. ASSUME NEW d \in Dates PROVE VisitorsOf(d)'
      <4>1. \A v \in Visitors : sess'[v].date # d
        BY <2>1, NoSessionIs DEF Dates
      <4>2. day'[d].uv = {} /\ guard'[d] = {}
        BY <2>1, <3>2
      <4> QED BY <3>1, <3>2, <4>1, <4>2 DEF VisitorsOf
    <3> QED BY <3>3 DEF VisitorInv
  <2>3. CASE ~(\A k \in Trackers : hit[k].stage = "idle")
    BY <2>1, <2>3 DEF VisitorInv
  <2> QED BY <2>2, <2>3
<1> QED BY <1>1, <1>3, <1>4, <1>5, <1>6, <1>7, <1>8, <1>9, StepCases DEF vars, Tick

LEMMA VisitorInit ==
    ASSUME Init
    PROVE  VisitorInv
<1>1. \A d \in Dates, k \in Trackers : Admitted(hit[k], d, guard[d], day[d].uv)
  BY IdleShape DEF Init, Admitted
<1>2. EmptyDay.uv = {} /\ Cardinality({}) = 0 /\ 0 <= MaxVisitors
  BY FS_EmptySet, Numbers DEF EmptyDay
<1>3. \A d \in Dates : guard[d] = {} /\ day[d] = EmptyDay
  BY DEF Init
<1>4. \A v \in Visitors : sess[v] = NoSession
  BY DEF Init
<1>5. \A d \in Dates : VisitorsOf(d)
  BY <1>1, <1>2, <1>3, <1>4, NoSessionIs, SMTT(30) DEF VisitorsOf, Dates
<1> QED BY <1>5 DEF VisitorInv

\* No day follows more visitors than configured, and a visit is one of a visitor
\* that was counted, unless Redis lost data under a view in flight (VisitorsBounded).
THEOREM VisitorsCorrect == Spec => []VisitorsBounded
<1>1. Init => ShapeInv /\ VisitorInv
  BY ShapeInit, VisitorInit
<1>2. ShapeInv /\ VisitorInv /\ [Next]_vars => ShapeInv' /\ VisitorInv'
  BY ShapeStep, VisitorStep
<1>3. ShapeInv /\ VisitorInv => VisitorsBounded
  <2>1. SUFFICES ASSUME ShapeInv, \A d \in Dates : VisitorsOf(d), NEW d \in Dates
                 PROVE  /\ Cardinality(day[d].uv) <= MaxVisitors
                        /\ \A v \in Visitors : Stored(v).date = d => v \in day[d].uv
    BY DEF VisitorInv, VisitorsBounded
  <2>2. guard[d] \in SUBSET Visitors /\ day[d].uv \in SUBSET guard[d]
    BY <2>1 DEF ShapeInv, GuardInv, VisitorsOf
  <2>3. /\ Cardinality(day[d].uv) \in Nat /\ Cardinality(guard[d]) \in Nat
        /\ Cardinality(day[d].uv) <= Cardinality(guard[d])
    BY <2>2, FewerVisitors
  <2>4. Cardinality(day[d].uv) <= MaxVisitors
    BY <2>1, <2>3, Numbers DEF VisitorsOf
  <2>5. \A v \in Visitors : Stored(v).date = d => v \in day[d].uv
    BY <2>1, NoSessionIs DEF VisitorsOf, Stored, Dates
  <2> QED BY <2>4, <2>5
<1> QED BY <1>1, <1>2, <1>3, PTL DEF Spec

-----------------------------------------------------------------------------
(* Entries, exits and flows describe the same visits. *)

Flows == Paths \X Paths

Inflow(x, p) == SumOf(Values(x.flows, Flows), {f \in Flows : f[2] = p})
Outflow(x, p) == SumOf(Values(x.flows, Flows), {f \in Flows : f[1] = p})

\* Every visit under way has its exit recorded, and what comes to a page goes on
\* from it or ends there.
BalancedAt(x, s, d, p) ==
    /\ Cardinality(Opened(s, d, p)) <= Value(x.exits, p)
    /\ Value(x.entrances, p) + Inflow(x, p) = Value(x.exits, p) + Outflow(x, p)

FlowInv == capped = {} => \A d \in Dates, p \in Paths : BalancedAt(day[d], sess, d, p)

LEMMA RefusalsEmpty ==
    ASSUME NEW x, NEW h, NEW s, Refusals(x, h, s) = {}
    PROVE  /\ IsNew(h, s) => /\ ~Refuses(x.entrances, h.path, PageLimit)
                             /\ ~Refuses(x.exits, h.path, PageLimit)
           /\ ~IsNew(h, s) => /\ ~Refuses(Leave(x.exits, s.path), h.path, PageLimit)
                              /\ s.path # h.path => ~Refuses(x.flows, <<s.path, h.path>>, FlowLimit)
<1>1. IsNew(h, s) => ~Refuses(x.entrances, h.path, PageLimit)
  <2>1. "entrances" \notin Refusals(x, h, s)
    OBVIOUS
  <2> QED BY <2>1 DEF Refusals
<1>2. ~Refuses(IF IsNew(h, s) THEN x.exits ELSE Leave(x.exits, s.path), h.path, PageLimit)
  <2>1. "exits" \notin Refusals(x, h, s)
    OBVIOUS
  <2> QED BY <2>1 DEF Refusals
<1>3. ~(~IsNew(h, s) /\ s.path # h.path /\ Refuses(x.flows, <<s.path, h.path>>, FlowLimit))
  <2>1. "flows" \notin Refusals(x, h, s)
    OBVIOUS
  <2> QED BY <2>1 DEF Refusals
<1> QED BY <1>1, <1>2, <1>3

\* One more in a hash, and the sum over some of its fields.
LEMMA OneMoreSum ==
    ASSUME NEW F, IsFiniteSet(F), NEW h, NEW g, IsHash(h, F, Nat), IsHash(g, F, Nat),
           NEW f \in F, Added(h, g, f, 1), NEW S \in SUBSET F
    PROVE  /\ SumOf(Values(h, F), S) \in Int
           /\ SumOf(Values(g, F), S) = SumOf(Values(h, F), S) + (IF f \in S THEN 1 ELSE 0)
<1>1. IsHash(h, F, Int) /\ IsHash(g, F, Int)
  BY NatIsInt
<1>2. PICK n : n = 1
  OBVIOUS
<1>3. Added(h, g, f, n)
  BY <1>2
<1>4. SumOf(Values(g, F), S) =
        SumOf(Values(h, F), S) + (IF f \in S THEN Value(g, f) - Value(h, f) ELSE 0)
  BY <1>1, <1>3, AddedSum
<1>5. SumOf(Values(h, F), S) \in Int
  BY <1>1, ValuesSum
<1>6. Value(h, f) \in Int /\ Value(g, f) = Value(h, f) + 1
  BY <1>1, ValueType DEF Added
<1>7. Value(g, f) - Value(h, f) = 1
  BY <1>6
<1> QED BY <1>4, <1>5, <1>7

LEMMA FlowType ==
    ASSUME NEW x, DayShape(x), NEW p
    PROVE  /\ Inflow(x, p) \in Int /\ Outflow(x, p) \in Int
           /\ Value(x.entrances, p) \in Nat /\ Value(x.exits, p) \in Nat
<1>1. IsHash(x.flows, Flows, Int)
  BY NatIsInt DEF DayShape, Flows
<1>2. IsFiniteSet(Flows)
  BY Finite DEF Flows
<1>3. PICK A, B : A = {f \in Flows : f[2] = p} /\ B = {f \in Flows : f[1] = p}
  OBVIOUS
<1>4. A \in SUBSET Flows /\ B \in SUBSET Flows
  BY <1>3
<1>5. SumOf(Values(x.flows, Flows), A) \in Int /\ SumOf(Values(x.flows, Flows), B) \in Int
  BY <1>1, <1>2, <1>4, ValuesSum
<1>6. Value(x.entrances, p) \in Nat /\ Value(x.exits, p) \in Nat
  BY ValueType DEF DayShape
<1> QED BY <1>3, <1>5, <1>6 DEF Inflow, Outflow

\* A visit goes from page q to page p.
LEMMA FlowMoves ==
    ASSUME NEW x, DayShape(x), NEW y, DayShape(y), NEW q \in Paths, NEW p \in Paths,
           Added(x.flows, y.flows, <<q, p>>, 1), NEW r \in Paths
    PROVE  /\ Inflow(y, r) = Inflow(x, r) + (IF r = p THEN 1 ELSE 0)
           /\ Outflow(y, r) = Outflow(x, r) + (IF r = q THEN 1 ELSE 0)
<1>1. IsHash(x.flows, Flows, Nat) /\ IsHash(y.flows, Flows, Nat) /\ IsFiniteSet(Flows)
  BY Finite DEF DayShape, Flows
<1>2. PICK f : f = <<q, p>>
  OBVIOUS
<1>3. f \in Flows /\ f[1] = q /\ f[2] = p /\ Added(x.flows, y.flows, f, 1)
  BY <1>2 DEF Flows
<1>4. PICK A, B : A = {e \in Flows : e[2] = r} /\ B = {e \in Flows : e[1] = r}
  OBVIOUS
<1>5. A \in SUBSET Flows /\ B \in SUBSET Flows /\ (f \in A <=> r = p) /\ (f \in B <=> r = q)
  BY <1>3, <1>4
<1>6. SumOf(Values(y.flows, Flows), A) =
        SumOf(Values(x.flows, Flows), A) + (IF f \in A THEN 1 ELSE 0)
  BY <1>1, <1>3, <1>5, OneMoreSum
<1>7. SumOf(Values(y.flows, Flows), B) =
        SumOf(Values(x.flows, Flows), B) + (IF f \in B THEN 1 ELSE 0)
  BY <1>1, <1>3, <1>5, OneMoreSum
<1> QED BY <1>4, <1>5, <1>6, <1>7 DEF Inflow, Outflow

LEMMA FlowOpens ==
    ASSUME NEW x, DayShape(x), NEW h, IsView(h), NEW y, OpenedParts(x, y, h),
           ~Refuses(x.entrances, h.path, PageLimit), ~Refuses(x.exits, h.path, PageLimit),
           NEW s, NEW t, NEW v \in Visitors, Moves(s, t, v), NEW d, t[v].path = h.path,
           NEW r \in Paths, BalancedAt(x, s, d, r)
    PROVE  BalancedAt(y, t, d, r)
<1>1. DayShape(y) /\ y.flows = x.flows
  BY OpenedShape DEF OpenedParts
<1>2. /\ Inflow(x, r) \in Int /\ Outflow(x, r) \in Int
      /\ Value(x.entrances, r) \in Nat /\ Value(x.exits, r) \in Nat
      /\ Inflow(y, r) = Inflow(x, r) /\ Outflow(y, r) = Outflow(x, r)
  BY <1>1, FlowType DEF Inflow, Outflow
<1>3. Added(x.entrances, y.entrances, h.path, 1) /\ Added(x.exits, y.exits, h.path, 1)
  <2>1. /\ IsHash(x.entrances, Paths, Nat) /\ IsHash(x.exits, Paths, Nat) /\ h.path \in Paths
        /\ y.entrances = CappedIncrement(x.entrances, h.path, 1, PageLimit)
        /\ y.exits = CappedIncrement(x.exits, h.path, 1, PageLimit)
    BY DEF DayShape, IsView, OpenedParts
  <2>2. Added(x.entrances, y.entrances, h.path, 1)
    BY <2>1, NatAdds
  <2>3. Added(x.exits, y.exits, h.path, 1)
    BY <2>1, NatAdds
  <2> QED BY <2>2, <2>3
<1>4. PICK m, n : m = Cardinality(Opened(s, d, r)) /\ n = Cardinality(Opened(t, d, r))
  OBVIOUS
<1>5. /\ Opened(s, d, r) \in SUBSET Visitors
      /\ Opened(t, d, r) \in SUBSET (Opened(s, d, r) \cup {v})
      /\ Opened(s, d, r) \cup {v} \in SUBSET Visitors
      /\ r # h.path => Opened(t, d, r) \in SUBSET Opened(s, d, r)
  BY OpenedMoves
<1>6. m \in Nat /\ n \in Nat /\ n <= m + 1
  <2>1. n \in Nat /\ n <= Cardinality(Opened(s, d, r) \cup {v})
    BY <1>4, <1>5, FewerVisitors
  <2>2. /\ m \in Nat /\ Cardinality(Opened(s, d, r) \cup {v}) \in Nat
        /\ Cardinality(Opened(s, d, r) \cup {v}) <= m + 1
    BY <1>4, <1>5, OneMoreVisitor
  <2> QED BY <2>1, <2>2
<1>7. r # h.path => n <= m
  BY <1>4, <1>5, FewerVisitors
<1>8. m <= Value(x.exits, r)
      /\ Value(x.entrances, r) + Inflow(x, r) = Value(x.exits, r) + Outflow(x, r)
  BY <1>4 DEF BalancedAt
<1>9. CASE r = h.path
  <2>1. /\ Value(y.entrances, r) = Value(x.entrances, r) + 1
        /\ Value(y.exits, r) = Value(x.exits, r) + 1
    BY <1>3, <1>9 DEF Added
  <2> QED BY <1>2, <1>4, <1>6, <1>8, <2>1 DEF BalancedAt
<1>10. CASE r # h.path
  <2>1. /\ Value(y.entrances, r) = Value(x.entrances, r)
        /\ Value(y.exits, r) = Value(x.exits, r)
    BY <1>3, <1>10 DEF Added
  <2> QED BY <1>2, <1>4, <1>6, <1>7, <1>8, <1>10, <2>1 DEF BalancedAt
<1> QED BY <1>9, <1>10

LEMMA FlowContinues ==
    ASSUME NEW x, DayShape(x), NEW h, IsView(h), NEW s, NEW t, NEW v \in Visitors, NEW d,
           GoesOn(s, t, v, d, h), NEW y, ContinuedParts(x, y, h, s[v]),
           ~Refuses(Leave(x.exits, s[v].path), h.path, PageLimit),
           s[v].path # h.path => ~Refuses(x.flows, <<s[v].path, h.path>>, FlowLimit),
           NEW r \in Paths, BalancedAt(x, s, d, r)
    PROVE  BalancedAt(y, t, d, r)
<1>1. DayShape(y) /\ Moves(s, t, v) /\ IsVisit(s[v]) /\ s[v].date = d /\ t[v].date = d
  BY VisitGoesOn, ContinuedShape
<1>2. PICK q \in Paths, p \in Paths : q = s[v].path /\ p = h.path /\ t[v].path = p
  BY <1>1, VisitGoesOn DEF IsVisit, IsView
<1>3. ExitsLeave(x, y, q, p) /\ y.entrances = x.entrances /\ ~Refuses(Leave(x.exits, q), p, PageLimit)
  BY <1>2 DEF ContinuedParts, ExitsLeave
<1>4. PICK e, f : e = Value(x.exits, r) /\ f = Value(y.exits, r)
  OBVIOUS
<1>5. ExitStep(e, f, r, q, p) /\ ExactStep(e, f, r, q, p)
  BY <1>3, <1>4, ExitsMove
<1>6. PICK i, o, a : i = Inflow(x, r) /\ o = Outflow(x, r) /\ a = Value(x.entrances, r)
  OBVIOUS
<1>7. i \in Int /\ o \in Int /\ a \in Nat /\ e \in Nat /\ f \in Nat
  BY <1>4, <1>5, <1>6, FlowType DEF ExitStep
<1>8. PICK m, n : m = Cardinality(Opened(s, d, r)) /\ n = Cardinality(Opened(t, d, r))
  OBVIOUS
<1>9. /\ Opened(s, d, r) \in SUBSET Visitors
      /\ Opened(t, d, r) \in SUBSET (Opened(s, d, r) \cup {v})
      /\ Opened(s, d, r) \cup {v} \in SUBSET Visitors
      /\ r # p => Opened(t, d, r) = Opened(s, d, r) \ {v}
      /\ r = q => v \in Opened(s, d, r)
  BY <1>1, <1>2, OpenedMoves
<1>10. m \in Nat /\ n \in Nat /\ n <= m + 1
  <2>1. n \in Nat /\ n <= Cardinality(Opened(s, d, r) \cup {v})
    BY <1>8, <1>9, FewerVisitors
  <2>2. /\ m \in Nat /\ Cardinality(Opened(s, d, r) \cup {v}) \in Nat
        /\ Cardinality(Opened(s, d, r) \cup {v}) <= m + 1
    BY <1>8, <1>9, OneMoreVisitor
  <2> QED BY <2>1, <2>2
<1>11. m <= e /\ a + i = e + o
  BY <1>4, <1>6, <1>8 DEF BalancedAt
<1>12. r # p => n <= m
  <2>1. ASSUME r # p PROVE Opened(t, d, r) \in SUBSET Opened(s, d, r)
    BY <1>9, <2>1
  <2> QED BY <1>8, <1>9, <2>1, FewerVisitors
<1>13. r = q => m # 0 /\ n <= m
  <2>1. ASSUME r = q PROVE m # 0 /\ Opened(t, d, r) \in SUBSET Opened(s, d, r)
    BY <1>8, <1>9, <2>1, OneVisitorLess
  <2> QED BY <1>8, <1>9, <2>1, FewerVisitors
<1>14. r = q /\ r # p => n = m - 1
  <2>1. ASSUME r = q, r # p PROVE n = m - 1
    <3>1. v \in Opened(s, d, r) /\ Opened(t, d, r) = Opened(s, d, r) \ {v}
      BY <1>9, <2>1
    <3> QED BY <1>8, <1>9, <3>1, OneVisitorLess
  <2> QED BY <2>1
<1>15. CASE q = p
  <2>1. y.flows = x.flows
    BY <1>2, <1>15 DEF ContinuedParts
  <2>2. Inflow(y, r) = i /\ Outflow(y, r) = o
    BY <1>6, <2>1 DEF Inflow, Outflow
  <2>3. f = e
    BY <1>5, <1>7, <1>10, <1>11, <1>13, <1>15 DEF ExitStep, ExactStep, Larger
  <2>4. n <= f
    BY <1>7, <1>10, <1>11, <1>12, <1>13, <1>15, <2>3
  <2> QED BY <1>3, <1>4, <1>6, <1>8, <1>11, <2>2, <2>3, <2>4 DEF BalancedAt
<1>16. CASE q # p
  <2>1. Added(x.flows, y.flows, <<q, p>>, 1)
    <3>1. PICK w : w = <<q, p>>
      OBVIOUS
    <3>2. /\ w \in Paths \X Paths /\ IsHash(x.flows, Paths \X Paths, Nat)
          /\ y.flows = CappedIncrement(x.flows, w, 1, FlowLimit)
          /\ ~Refuses(x.flows, w, FlowLimit)
      BY <1>2, <1>16, <3>1 DEF ContinuedParts, DayShape
    <3> QED BY <3>1, <3>2, NatAdds
  <2>2. /\ Inflow(y, r) = i + (IF r = p THEN 1 ELSE 0)
        /\ Outflow(y, r) = o + (IF r = q THEN 1 ELSE 0)
    BY <1>1, <1>6, <2>1, FlowMoves
  <2>3. /\ r = q => f = e - 1
        /\ r = p => f = e + 1
        /\ r # q /\ r # p => f = e
    BY <1>5, <1>7, <1>10, <1>11, <1>13, <1>16 DEF ExitStep, ExactStep
  <2>4. n <= f
    BY <1>7, <1>10, <1>11, <1>12, <1>14, <1>16, <2>3
  <2>5. a + Inflow(y, r) = f + Outflow(y, r)
    BY <1>7, <1>11, <1>16, <2>2, <2>3
  <2> QED BY <1>3, <1>4, <1>6, <1>8, <2>4, <2>5 DEF BalancedAt
<1> QED BY <1>15, <1>16

LEMMA FlowElsewhere ==
    ASSUME NEW x, DayShape(x), NEW s, NEW t, NEW v \in Visitors, Moves(s, t, v), NEW d,
           t[v].date # d, NEW p, BalancedAt(x, s, d, p)
    PROVE  BalancedAt(x, t, d, p)
<1>1. Opened(s, d, p) \in SUBSET Visitors /\ Opened(t, d, p) \in SUBSET Opened(s, d, p)
  BY OpenedMoves
<1>2. /\ Cardinality(Opened(t, d, p)) \in Nat /\ Cardinality(Opened(s, d, p)) \in Nat
      /\ Cardinality(Opened(t, d, p)) <= Cardinality(Opened(s, d, p))
  BY <1>1, FewerVisitors
<1>3. Value(x.exits, p) \in Nat
  BY FlowType
<1> QED BY <1>2, <1>3 DEF BalancedAt

LEMMA FlowStays ==
    ASSUME NEW x, NEW y, SameVisits(x, y), NEW s, NEW d, NEW p, BalancedAt(x, s, d, p)
    PROVE  BalancedAt(y, s, d, p)
BY DEF SameVisits, BalancedAt, Inflow, Outflow

LEMMA FlowOfEmpty ==
    ASSUME NEW s, \A v \in Visitors : s[v] = NoSession, NEW d \in Dates, NEW p
    PROVE  BalancedAt(EmptyDay, s, d, p)
<1>1. EmptyDay.entrances = Empty /\ EmptyDay.exits = Empty /\ EmptyDay.flows = Empty
  BY DEF EmptyDay
<1>2. Opened(s, d, p) = {} /\ Cardinality({}) = 0
  BY NoSessionIs, FS_EmptySet DEF Opened, Dates
<1>3. PICK a, A, B : /\ a = Values(Empty, Flows)
                     /\ A = {f \in Flows : f[2] = p} /\ B = {f \in Flows : f[1] = p}
  OBVIOUS
<1>4. IsFiniteSet(A) /\ IsFiniteSet(B)
  <2>1. IsFiniteSet(Flows)
    BY Finite DEF Flows
  <2> QED BY <1>3, <2>1, FS_Subset
<1>5. \A f \in Flows : a[f] = 0
  BY <1>3, EmptyHash DEF Values
<1>6. SumOf(a, A) = 0 /\ SumOf(a, B) = 0
  <2>1. (\A f \in A : a[f] = 0) /\ (\A f \in B : a[f] = 0)
    BY <1>3, <1>5
  <2> QED BY <1>4, <2>1, SumZero
<1>7. Inflow(EmptyDay, p) = 0 /\ Outflow(EmptyDay, p) = 0
  BY <1>1, <1>3, <1>6 DEF Inflow, Outflow
<1> QED BY <1>1, <1>2, <1>7, EmptyHash DEF BalancedAt

LEMMA FlowStep ==
    ASSUME ShapeInv, FlowInv, [Next]_vars
    PROVE  FlowInv'
<1>1. CASE Steady
  <2>1. capped' = capped /\ sess' = sess /\ \A d \in Dates : SameVisits(day[d], day'[d])
    BY <1>1 DEF Steady
  <2> QED BY <2>1, FlowStays DEF FlowInv
<1>2. ASSUME NEW h, Viewing(h)
      PROVE  FlowInv'
  <2>1. Recorded(h) /\ now' = now /\ (Starting(h) \/ Following(h))
    BY <1>2 DEF Viewing, Starting, Following
  <2>2. PICK v \in Visitors, d \in Dates : v = h.who /\ d = DateOf(h.at) /\ sess'[v].date = d
    BY <2>1, Rewritten
  <2>3. Moves(sess, sess', v) /\ sess'[v].path = h.path /\ IsView(h)
    BY <2>1, <2>2, Rewritten, RecordedShapes DEF Recorded
  <2>4. SUFFICES ASSUME capped' = {} PROVE \A e \in Dates, p \in Paths : BalancedAt(day'[e], sess', e, p)
    BY DEF FlowInv
  <2>5. capped = {} /\ Refusals(day[d], h, Stored(v)) = {}
    BY <2>1, <2>2, <2>4 DEF Recorded
  <2>6. ASSUME NEW e \in Dates, e # d, NEW p \in Paths PROVE BalancedAt(day'[e], sess', e, p)
    <3>1. day'[e] = day[e] /\ DayShape(day[e]) /\ BalancedAt(day[e], sess, e, p)
      BY <2>1, <2>2, <2>5, <2>6 DEF Recorded, ShapeInv, DayInv, FlowInv
    <3>2. sess'[v].date # e
      BY <2>2, <2>6
    <3>3. BalancedAt(day[e], sess', e, p)
      BY <2>3, <3>1, <3>2, FlowElsewhere
    <3> QED BY <3>1, <3>3
  <2>7. PICK x, y : x = day[d] /\ y = day'[d]
    OBVIOUS
  <2>8. DayShape(x) /\ \A p \in Paths : BalancedAt(x, sess, d, p)
    BY <2>5, <2>7 DEF ShapeInv, DayInv, FlowInv
  <2>9. ASSUME NEW p \in Paths PROVE BalancedAt(y, sess', d, p)
    <3>1. CASE Starting(h)
      <4>1. OpenedParts(x, y, h) /\ IsNew(h, Stored(v))
        BY <2>2, <2>7, <3>1 DEF Starting
      <4>2. ~Refuses(x.entrances, h.path, PageLimit) /\ ~Refuses(x.exits, h.path, PageLimit)
        BY <2>5, <2>7, <4>1, RefusalsEmpty
      <4> QED BY <2>3, <2>8, <4>1, <4>2, FlowOpens
    <3>2. CASE Following(h)
      <4>1. /\ ContinuedParts(x, y, h, sess[v]) /\ ~IsNew(h, sess[v]) /\ Stored(v) = sess[v]
            /\ sess'[v].pages = sess[v].pages + 1
        BY <2>1, <2>2, <2>7, <3>2, Rewritten DEF Following
      <4>2. sess[v].date = d /\ h.at - sess[v].last <= Timeout /\ d # 0
        <5>1. h.at \in Nat /\ sess[v].last \in Nat
          BY <2>3 DEF IsView, Moves, SessShape, StoredShape
        <5> QED BY <2>2, <4>1, <5>1, Numbers DEF IsNew, Dates
      <4>3. GoesOn(sess, sess', v, d, h)
        BY <2>2, <2>3, <4>1, <4>2 DEF GoesOn
      <4>4. Refusals(x, h, sess[v]) = {}
        BY <2>5, <2>7, <4>1
      <4>5. /\ ~Refuses(Leave(x.exits, sess[v].path), h.path, PageLimit)
            /\ sess[v].path # h.path => ~Refuses(x.flows, <<sess[v].path, h.path>>, FlowLimit)
        BY <4>1, <4>4, RefusalsEmpty
      <4>6. BalancedAt(x, sess, d, p)
        BY <2>8
      <4> QED BY <2>3, <2>8, <4>1, <4>3, <4>5, <4>6, FlowContinues
    <3> QED BY <2>1, <3>1, <3>2
  <2> QED BY <2>6, <2>7, <2>9
<1>3. CASE Losing
  <2>1. /\ \A d \in Dates : day'[d] = EmptyDay
        /\ \A v \in Visitors : sess'[v] = NoSession
    BY <1>3 DEF Losing
  <2> QED BY <2>1, FlowOfEmpty DEF FlowInv
<1> QED BY <1>1, <1>2, <1>3, VisitCases

LEMMA FlowInit ==
    ASSUME Init
    PROVE  FlowInv
BY FlowOfEmpty DEF Init, FlowInv

\* The total of some fields of a hash.
LEMMA RestrictedTotal ==
    ASSUME NEW h, IsHash(h, Flows, Nat), NEW S \in SUBSET Flows
    PROVE  Total(Restrict(h, S \cap DOMAIN h)) = SumOf(Values(h, Flows), S)
<1>1. IsHash(h, Flows, Int) /\ IsFiniteSet(Flows)
  BY NatIsInt, Finite DEF Flows
<1>2. PICK A, g : A = S \cap DOMAIN h /\ g = Restrict(h, A)
  OBVIOUS
<1>3. g = [f \in A |-> h[f]]
  BY <1>2 DEF Restrict
<1>4. DOMAIN g = A /\ \A f \in A : g[f] = h[f]
  BY <1>3
<1>5. IsFiniteSet(A)
  BY <1>2, FS_Subset DEF IsHash
<1>6. SumOf(g, A) = SumOf(h, A)
  BY <1>4, <1>5, SumSame
<1>7. SumOf(h, A) = SumOf(Values(h, Flows), S)
  BY <1>1, <1>2, ValuesSum
<1>8. Total(g) = SumOf(g, A)
  BY <1>4 DEF Total, SumOf
<1> QED BY <1>2, <1>6, <1>7, <1>8

\* As long as no hash was full, who comes to a page, from outside or from another
\* page, goes on from it or ends there, also when views come late (FlowConserved).
THEOREM FlowsCorrect == Spec => []FlowConserved
<1>1. Init => ShapeInv /\ FlowInv
  BY ShapeInit, FlowInit
<1>2. ShapeInv /\ FlowInv /\ [Next]_vars => ShapeInv' /\ FlowInv'
  BY ShapeStep, FlowStep
<1>3. ShapeInv /\ FlowInv => FlowConserved
  <2>1. SUFFICES ASSUME ShapeInv, FlowInv, NEW d \in Dates, capped = {}, NEW p \in Paths
                 PROVE  Value(day[d].entrances, p)
                          + Total(Restrict(day[d].flows, {f \in DOMAIN day[d].flows : f[2] = p}))
                        = Value(day[d].exits, p)
                          + Total(Restrict(day[d].flows, {f \in DOMAIN day[d].flows : f[1] = p}))
    BY DEF FlowConserved
  <2>2. PICK x : x = day[d]
    OBVIOUS
  <2>3. IsHash(x.flows, Flows, Nat) /\ BalancedAt(x, sess, d, p)
    BY <2>1, <2>2 DEF ShapeInv, DayInv, DayShape, Flows, FlowInv
  <2>4. PICK A, B : A = {f \in Flows : f[2] = p} /\ B = {f \in Flows : f[1] = p}
    OBVIOUS
  <2>5. A \in SUBSET Flows /\ B \in SUBSET Flows
    BY <2>4
  <2>6. /\ {f \in DOMAIN x.flows : f[2] = p} = A \cap DOMAIN x.flows
        /\ {f \in DOMAIN x.flows : f[1] = p} = B \cap DOMAIN x.flows
    BY <2>3, <2>4 DEF IsHash
  <2>7. Total(Restrict(x.flows, A \cap DOMAIN x.flows)) = Inflow(x, p)
    BY <2>3, <2>4, <2>5, RestrictedTotal DEF Inflow
  <2>8. Total(Restrict(x.flows, B \cap DOMAIN x.flows)) = Outflow(x, p)
    BY <2>3, <2>4, <2>5, RestrictedTotal DEF Outflow
  <2> QED BY <2>2, <2>3, <2>6, <2>7, <2>8 DEF BalancedAt
<1> QED BY <1>1, <1>2, <1>3, PTL DEF Spec

-----------------------------------------------------------------------------
(* Segments. *)

Full(g) == Cardinality(DOMAIN g) >= SegmentLimit
Has(g, m, c) == <<m, c>> \in DOMAIN g
In(g, m, c) == Value(g, <<m, c>>)

IsSegments(g) == IsHash(g, SegmentFields, Int)

\* Fields stay, so a hash that was full is full.
Grown(g, e) == DOMAIN g \subseteq DOMAIN e /\ (Full(g) => Full(e))

SameField(g, e, m, c) == (Has(e, m, c) <=> Has(g, m, c)) /\ In(e, m, c) = In(g, m, c)

\* n is added, unless the hash refused the field.
AddsTo(g, e, m, c, n) ==
    \/ Has(e, m, c) /\ In(e, m, c) = In(g, m, c) + n /\ (Has(g, m, c) \/ ~Full(g))
    \/ ~Has(g, m, c) /\ ~Has(e, m, c) /\ In(g, m, c) = 0 /\ In(e, m, c) = 0 /\ Full(e)

LEMMA InType ==
    ASSUME NEW g, IsSegments(g), NEW m, NEW c
    PROVE  In(g, m, c) \in Int /\ (~Has(g, m, c) => In(g, m, c) = 0)
<1>1. 0 \in Int
  OBVIOUS
<1>2. Value(g, <<m, c>>) \in Int
  BY <1>1, ValueType DEF IsSegments
<1> QED BY <1>2 DEF In, Has, Value

LEMMA GrownBy ==
    ASSUME NEW g, NEW e, IsSegments(g), IsSegments(e), DOMAIN g \subseteq DOMAIN e
    PROVE  Grown(g, e)
<1>1. IsFiniteSet(DOMAIN e)
  BY DEF IsSegments, IsHash
<1>2. /\ Cardinality(DOMAIN g) \in Nat /\ Cardinality(DOMAIN e) \in Nat
      /\ Cardinality(DOMAIN g) <= Cardinality(DOMAIN e)
  <2>1. PICK A, B : A = DOMAIN g /\ B = DOMAIN e
    OBVIOUS
  <2>2. A \subseteq B /\ IsFiniteSet(B) /\ IsFiniteSet(A)
    BY <1>1, <2>1, FS_Subset
  <2>3. Cardinality(A) \in Nat /\ Cardinality(B) \in Nat /\ Cardinality(A) <= Cardinality(B)
    BY <2>2, FS_Subset, FS_CardinalityType
  <2> QED BY <2>1, <2>3
<1> QED BY <1>2, Numbers DEF Grown, Full

LEMMA GrownTwice ==
    ASSUME NEW g, NEW e, NEW f, Grown(g, e), Grown(e, f)
    PROVE  Grown(g, f)
BY DEF Grown

\* One count in a segment.
LEMMA SegmentStep ==
    ASSUME NEW g, IsSegments(g), NEW m \in Metrics, NEW c \in Campaigns, NEW n \in Int,
           NEW e, e = CountSegment(g, m, c, n)
    PROVE  /\ IsSegments(e) /\ Grown(g, e) /\ AddsTo(g, e, m, c, n)
           /\ ~Has(e, m, c) => Full(g)
           /\ \A w \in Metrics, k \in Campaigns : w # m \/ k # c => SameField(g, e, w, k)
<1>1. c # NoCampaign /\ c \in Campaigns \cup {NoCampaign}
  BY SessionsAssumption DEF SessionsAssumption
<1>2. /\ IsSegments(e)
      /\ IF c = NoCampaign \/ Refuses(g, <<m, c>>, SegmentLimit) THEN e = g
                                                              ELSE Added(g, e, <<m, c>>, n)
  BY <1>1, SegmentAdds DEF IsSegments
<1>3. CASE Refuses(g, <<m, c>>, SegmentLimit)
  <2>1. e = g /\ ~Has(g, m, c) /\ Full(g)
    BY <1>2, <1>3 DEF Refuses, Has, Full
  <2>2. In(g, m, c) = 0
    BY <2>1, InType
  <2> QED BY <1>2, <2>1, <2>2 DEF Grown, AddsTo, SameField
<1>4. CASE ~Refuses(g, <<m, c>>, SegmentLimit)
  <2>1. Added(g, e, <<m, c>>, n)
    BY <1>1, <1>2, <1>4
  <2>2. Grown(g, e)
    BY <1>2, <2>1, GrownBy DEF Added
  <2>3. Has(g, m, c) \/ ~Full(g)
    BY <1>4 DEF Refuses, Has, Full
  <2>4. Has(e, m, c) /\ In(e, m, c) = In(g, m, c) + n
    BY <2>1 DEF Added, Has, In
  <2>5. ASSUME NEW w \in Metrics, NEW k \in Campaigns, w # m \/ k # c
        PROVE  SameField(g, e, w, k)
    <3>1. <<w, k>> # <<m, c>>
      BY <2>5
    <3> QED BY <2>1, <3>1 DEF Added, SameField, Has, In
  <2> QED BY <1>2, <2>2, <2>3, <2>4, <2>5 DEF AddsTo
<1> QED BY <1>3, <1>4

\* The three counts of a first view, and those of a later one.
SegmentsOpen(g, e, c) ==
    /\ IsSegments(e) /\ Grown(g, e)
    /\ \A m \in Metrics, k \in Campaigns : k # c => SameField(g, e, m, k)
    /\ AddsTo(g, e, "sessions", c, 1) /\ AddsTo(g, e, "bounces", c, 1)
    /\ AddsTo(g, e, "pageviews", c, 1) /\ SameField(g, e, "duration", c)
    /\ ~Has(e, "sessions", c) => Full(g)

SegmentsContinue(g, e, c, n, ends) ==
    /\ IsSegments(e) /\ Grown(g, e)
    /\ \A m \in Metrics, k \in Campaigns : k # c => SameField(g, e, m, k)
    /\ SameField(g, e, "sessions", c) /\ AddsTo(g, e, "pageviews", c, 1)
    /\ AddsTo(g, e, "duration", c, n)
    /\ IF ends THEN AddsTo(g, e, "bounces", c, -1) ELSE SameField(g, e, "bounces", c)

LEMMA SameThenAdds ==
    ASSUME NEW g, NEW a, NEW e, NEW m, NEW c, NEW n, Grown(g, a), Grown(a, e)
    PROVE  /\ SameField(g, a, m, c) /\ AddsTo(a, e, m, c, n) => AddsTo(g, e, m, c, n)
           /\ AddsTo(g, a, m, c, n) /\ SameField(a, e, m, c) => AddsTo(g, e, m, c, n)
           /\ SameField(g, a, m, c) /\ SameField(a, e, m, c) => SameField(g, e, m, c)
BY DEF Grown, SameField, AddsTo

LEMMA SegmentOpens ==
    ASSUME NEW x, DayShape(x), NEW h, IsView(h), NEW y, OpenedParts(x, y, h),
           h.campaign \in Campaigns
    PROVE  SegmentsOpen(x.segments, y.segments, h.campaign)
<1>1. PICK c \in Campaigns : c = h.campaign
  OBVIOUS
<1>2. PICK g, e, n : g = x.segments /\ e = y.segments /\ n = 1
  OBVIOUS
<1>3. n \in Int /\ "sessions" \in Metrics /\ "bounces" \in Metrics /\ "pageviews" \in Metrics
      /\ "duration" \in Metrics /\ IsSegments(g)
  BY <1>2 DEF Metrics, DayShape, IsSegments
<1>4. PICK a : a = CountSegment(g, "sessions", c, n)
  OBVIOUS
<1>5. PICK b : b = CountSegment(a, "bounces", c, n)
  OBVIOUS
<1>6. e = CountSegment(b, "pageviews", c, n)
  BY <1>1, <1>2, <1>4, <1>5 DEF OpenedParts
<1>7. /\ IsSegments(a) /\ Grown(g, a) /\ AddsTo(g, a, "sessions", c, n)
      /\ ~Has(a, "sessions", c) => Full(g)
      /\ \A w \in Metrics, k \in Campaigns : w # "sessions" \/ k # c => SameField(g, a, w, k)
  BY <1>3, <1>4, SegmentStep
<1>8. /\ IsSegments(b) /\ Grown(a, b) /\ AddsTo(a, b, "bounces", c, n)
      /\ \A w \in Metrics, k \in Campaigns : w # "bounces" \/ k # c => SameField(a, b, w, k)
  BY <1>3, <1>5, <1>7, SegmentStep
<1>9. /\ IsSegments(e) /\ Grown(b, e) /\ AddsTo(b, e, "pageviews", c, n)
      /\ \A w \in Metrics, k \in Campaigns : w # "pageviews" \/ k # c => SameField(b, e, w, k)
  BY <1>3, <1>6, <1>8, SegmentStep
<1>10. Grown(g, b) /\ Grown(a, e) /\ Grown(g, e)
  BY <1>7, <1>8, <1>9, GrownTwice
<1>11. \A m \in Metrics, k \in Campaigns : k # c => SameField(g, e, m, k)
  BY <1>7, <1>8, <1>9, <1>10, SameThenAdds
<1>12. AddsTo(g, e, "sessions", c, n)
  <2>1. SameField(a, b, "sessions", c) /\ SameField(b, e, "sessions", c)
    BY <1>3, <1>8, <1>9
  <2>2. SameField(a, e, "sessions", c)
    BY <1>8, <1>9, <2>1, SameThenAdds
  <2> QED BY <1>7, <1>10, <2>2, SameThenAdds
<1>13. AddsTo(g, e, "bounces", c, n)
  <2>1. SameField(g, a, "bounces", c) /\ SameField(b, e, "bounces", c)
    BY <1>3, <1>7, <1>9
  <2>2. AddsTo(g, b, "bounces", c, n)
    BY <1>7, <1>8, <2>1, SameThenAdds
  <2> QED BY <1>9, <1>10, <2>1, <2>2, SameThenAdds
<1>14. AddsTo(g, e, "pageviews", c, n)
  <2>1. SameField(g, a, "pageviews", c) /\ SameField(a, b, "pageviews", c)
    BY <1>3, <1>7, <1>8
  <2>2. SameField(g, b, "pageviews", c)
    BY <1>7, <1>8, <2>1, SameThenAdds
  <2> QED BY <1>9, <1>10, <2>2, SameThenAdds
<1>15. SameField(g, e, "duration", c)
  <2>1. SameField(g, a, "duration", c) /\ SameField(a, b, "duration", c) /\ SameField(b, e, "duration", c)
    BY <1>3, <1>7, <1>8, <1>9
  <2> QED BY <2>1 DEF SameField
<1>16. ~Has(e, "sessions", c) => Full(g)
  BY <1>3, <1>7, <1>8, <1>9 DEF SameField
<1> QED BY <1>1, <1>2, <1>9, <1>10, <1>11, <1>12, <1>13, <1>14, <1>15, <1>16 DEF SegmentsOpen

LEMMA SegmentContinues ==
    ASSUME NEW x, DayShape(x), NEW h, IsView(h), NEW s, IsVisit(s), NEW y,
           ContinuedParts(x, y, h, s), SegmentOf(h, s) \in Campaigns
    PROVE  SegmentsContinue(x.segments, y.segments, SegmentOf(h, s), Spent(h, s), EndsBounce(s))
<1>1. PICK c \in Campaigns : c = SegmentOf(h, s)
  OBVIOUS
<1>2. PICK g, e, i, n, j : g = x.segments /\ e = y.segments /\ i = 1 /\ n = Spent(h, s) /\ j = -1
  OBVIOUS
<1>3. i \in Int /\ n \in Int /\ j \in Int
      /\ "sessions" \in Metrics /\ "bounces" \in Metrics /\ "pageviews" \in Metrics
      /\ "duration" \in Metrics /\ IsSegments(g)
  BY <1>2, SegmentOfType DEF Metrics, DayShape, IsSegments
<1>4. PICK a : a = CountSegment(g, "pageviews", c, i)
  OBVIOUS
<1>5. PICK b : b = CountSegment(a, "duration", c, n)
  OBVIOUS
<1>6. e = IF EndsBounce(s) THEN CountSegment(b, "bounces", c, j) ELSE b
  BY <1>1, <1>2, <1>4, <1>5 DEF ContinuedParts, Longer
<1>7. /\ IsSegments(a) /\ Grown(g, a) /\ AddsTo(g, a, "pageviews", c, i)
      /\ \A w \in Metrics, k \in Campaigns : w # "pageviews" \/ k # c => SameField(g, a, w, k)
  BY <1>3, <1>4, SegmentStep
<1>8. /\ IsSegments(b) /\ Grown(a, b) /\ AddsTo(a, b, "duration", c, n)
      /\ \A w \in Metrics, k \in Campaigns : w # "duration" \/ k # c => SameField(a, b, w, k)
  BY <1>3, <1>5, <1>7, SegmentStep
<1>9. Grown(g, b)
  BY <1>7, <1>8, GrownTwice
<1>10. \A m \in Metrics, k \in Campaigns : k # c => SameField(g, b, m, k)
  BY <1>7, <1>8 DEF SameField
<1>11. AddsTo(g, b, "pageviews", c, i)
  <2>1. SameField(a, b, "pageviews", c)
    BY <1>3, <1>8
  <2> QED BY <1>7, <1>8, <2>1, SameThenAdds
<1>12. AddsTo(g, b, "duration", c, n)
  <2>1. SameField(g, a, "duration", c)
    BY <1>3, <1>7
  <2> QED BY <1>7, <1>8, <2>1, SameThenAdds
<1>13. SameField(g, b, "sessions", c) /\ SameField(g, b, "bounces", c)
  BY <1>3, <1>7, <1>8 DEF SameField
<1>14. CASE ~EndsBounce(s)
  <2>1. e = b
    BY <1>6, <1>14
  <2> QED BY <1>1, <1>2, <1>8, <1>9, <1>10, <1>11, <1>12, <1>13, <1>14, <2>1 DEF SegmentsContinue
<1>15. CASE EndsBounce(s)
  <2>1. e = CountSegment(b, "bounces", c, j)
    BY <1>6, <1>15
  <2>2. /\ IsSegments(e) /\ Grown(b, e) /\ AddsTo(b, e, "bounces", c, j)
        /\ \A w \in Metrics, k \in Campaigns : w # "bounces" \/ k # c => SameField(b, e, w, k)
    BY <1>3, <1>8, <2>1, SegmentStep
  <2>3. Grown(g, e)
    BY <1>9, <2>2, GrownTwice
  <2>4. \A m \in Metrics, k \in Campaigns : k # c => SameField(g, e, m, k)
    BY <1>10, <2>2 DEF SameField
  <2>5. AddsTo(g, e, "pageviews", c, i) /\ AddsTo(g, e, "duration", c, n)
    <3>1. SameField(b, e, "pageviews", c) /\ SameField(b, e, "duration", c)
      BY <1>3, <2>2
    <3> QED BY <1>9, <1>11, <1>12, <2>2, <3>1, SameThenAdds
  <2>6. AddsTo(g, e, "bounces", c, j)
    BY <1>9, <1>13, <2>2, SameThenAdds
  <2>7. SameField(g, e, "sessions", c)
    BY <1>3, <1>13, <2>2 DEF SameField
  <2> QED BY <1>1, <1>2, <1>15, <2>2, <2>3, <2>4, <2>5, <2>6, <2>7 DEF SegmentsContinue
<1> QED BY <1>14, <1>15

-----------------------------------------------------------------------------
(* The segments and the visits under way. *)

BouncingIn(s, d, c) == {v \in Bouncing(s, d) : s[v].campaign = c}

\* Visits of one view whose bounce is in no segment.
Uncounted(g, s, d) == {v \in Bouncing(s, d) : ~Has(g, "bounces", s[v].campaign)}

\* The script can take back a bounce: a segment without bounces has no visit under
\* way, unless the hash was full when it began.
SegmentAt(g, s, d, c) ==
    /\ Has(g, "bounces", c) => Has(g, "sessions", c)
    /\ Has(g, "bounces", c) \/ Full(g)
         \/ \A v \in Visitors : s[v].date = d => s[v].campaign # c
    /\ Has(g, "bounces", c) => Cardinality(BouncingIn(s, d, c)) <= In(g, "bounces", c)
    /\ In(g, "bounces", c) <= In(g, "sessions", c)
    /\ Full(g) \/ 2 * In(g, "sessions", c) - In(g, "bounces", c) <= In(g, "pageviews", c)

OverSegments(g, m) == [c \in Campaigns |-> In(g, m, c)]
SegmentSum(g, m) == SumOf(OverSegments(g, m), Campaigns)

SegmentSums(x, s, d) ==
    /\ SegmentSum(x.segments, "bounces") + Cardinality(Uncounted(x.segments, s, d)) <= x.bounces
    /\ SegmentSum(x.segments, "sessions") <= x.sessions
    /\ SegmentSum(x.segments, "pageviews") <= x.pageviews
    /\ SegmentSum(x.segments, "duration") <= x.duration

LEMMA BouncesMove ==
    ASSUME NEW s, NEW t, NEW v \in Visitors, Moves(s, t, v), NEW d, NEW c
    PROVE  /\ BouncingIn(s, d, c) \in SUBSET Visitors /\ BouncingIn(t, d, c) \in SUBSET Visitors
           /\ BouncingIn(t, d, c) \subseteq BouncingIn(s, d, c) \cup {v}
           /\ t[v].date # d \/ t[v].pages # 1 \/ t[v].campaign # c =>
                BouncingIn(t, d, c) = BouncingIn(s, d, c) \ {v}
           /\ s[v].date = d /\ s[v].pages = 1 /\ s[v].campaign = c => v \in BouncingIn(s, d, c)
BY DEF Moves, BouncingIn, Bouncing

LEMMA SegmentSumType ==
    ASSUME NEW g, IsSegments(g), NEW m
    PROVE  /\ SegmentSum(g, m) \in Int
           /\ \A c \in Campaigns : OverSegments(g, m)[c] = In(g, m, c) /\ OverSegments(g, m)[c] \in Int
<1>1. \A c \in Campaigns : OverSegments(g, m)[c] = In(g, m, c) /\ OverSegments(g, m)[c] \in Int
  BY InType DEF OverSegments
<1>2. PICK a : a = OverSegments(g, m)
  OBVIOUS
<1>3. \A c \in Campaigns : a[c] \in Int
  BY <1>1, <1>2
<1>4. SumOf(a, Campaigns) \in Int
  BY <1>3, Finite, SumType
<1> QED BY <1>1, <1>2, <1>4 DEF SegmentSum

\* The sum when one segment changes, and when none does.
LEMMA SegmentSumMoves ==
    ASSUME NEW g, NEW e, IsSegments(g), IsSegments(e), NEW m, NEW c \in Campaigns,
           \A k \in Campaigns : k # c => In(e, m, k) = In(g, m, k)
    PROVE  SegmentSum(e, m) = SegmentSum(g, m) + (In(e, m, c) - In(g, m, c))
<1>1. PICK a, b : a = OverSegments(g, m) /\ b = OverSegments(e, m)
  OBVIOUS
<1>2. \A k \in Campaigns : a[k] = In(g, m, k) /\ a[k] \in Int /\ b[k] = In(e, m, k) /\ b[k] \in Int
  BY <1>1, SegmentSumType
<1>3. /\ \A k \in Campaigns : a[k] \in Int /\ b[k] \in Int
      /\ \A k \in Campaigns \ {c} : b[k] = a[k]
  BY <1>2
<1>4. SumOf(b, Campaigns) = SumOf(a, Campaigns) - a[c] + b[c] /\ SumOf(a, Campaigns) \in Int
  BY <1>3, Finite, SumChange
<1>5. SumOf(b, Campaigns) = SumOf(a, Campaigns) + (b[c] - a[c])
  BY <1>2, <1>4
<1> QED BY <1>1, <1>2, <1>5 DEF SegmentSum

\* A segment whose fields stay, when another visitor's visit or one of another
\* segment moves.
LEMMA SegmentAside ==
    ASSUME NEW g, NEW e, IsSegments(g), IsSegments(e), Grown(g, e), NEW c \in Campaigns,
           \A m \in Metrics : SameField(g, e, m, c),
           NEW s, NEW t, NEW v \in Visitors, Moves(s, t, v), NEW d,
           t[v].date # d \/ t[v].campaign # c, SegmentAt(g, s, d, c)
    PROVE  SegmentAt(e, t, d, c)
<1>1. /\ SameField(g, e, "bounces", c) /\ SameField(g, e, "sessions", c)
      /\ SameField(g, e, "pageviews", c)
  BY DEF Metrics
<1>2. BouncingIn(s, d, c) \in SUBSET Visitors /\ BouncingIn(t, d, c) \in SUBSET BouncingIn(s, d, c)
  BY BouncesMove
<1>3. /\ Cardinality(BouncingIn(t, d, c)) \in Nat /\ Cardinality(BouncingIn(s, d, c)) \in Nat
      /\ Cardinality(BouncingIn(t, d, c)) <= Cardinality(BouncingIn(s, d, c))
  BY <1>2, FewerVisitors
<1>4. In(g, "bounces", c) \in Int
  BY InType
<1>5. (\A u \in Visitors : s[u].date = d => s[u].campaign # c)
        => \A u \in Visitors : t[u].date = d => t[u].campaign # c
  BY DEF Moves
<1>6. Has(e, "bounces", c) => Has(e, "sessions", c)
  BY <1>1 DEF SegmentAt, SameField
<1>7. Has(e, "bounces", c) \/ Full(e) \/ \A u \in Visitors : t[u].date = d => t[u].campaign # c
  BY <1>1, <1>5 DEF SegmentAt, SameField, Grown
<1>8. Has(e, "bounces", c) => Cardinality(BouncingIn(t, d, c)) <= In(e, "bounces", c)
  BY <1>1, <1>3, <1>4 DEF SegmentAt, SameField
<1>9. In(e, "bounces", c) <= In(e, "sessions", c)
  BY <1>1 DEF SegmentAt, SameField
<1>10. Full(e) \/ 2 * In(e, "sessions", c) - In(e, "bounces", c) <= In(e, "pageviews", c)
  BY <1>1 DEF SegmentAt, SameField, Grown
<1> QED BY <1>6, <1>7, <1>8, <1>9, <1>10 DEF SegmentAt

\* The segment of a new visit.
LEMMA SegmentAtOpens ==
    ASSUME NEW g, IsSegments(g), NEW c \in Campaigns, NEW e, SegmentsOpen(g, e, c),
           NEW s, NEW t, NEW v \in Visitors, Moves(s, t, v), NEW d, SegmentAt(g, s, d, c)
    PROVE  SegmentAt(e, t, d, c)
<1>1. IsSegments(e) /\ Grown(g, e)
  BY DEF SegmentsOpen
<1>2. PICK a, b, w : a = In(g, "sessions", c) /\ b = In(g, "bounces", c) /\ w = In(g, "pageviews", c)
  OBVIOUS
<1>3. PICK i, j, k : i = In(e, "sessions", c) /\ j = In(e, "bounces", c) /\ k = In(e, "pageviews", c)
  OBVIOUS
<1>4. a \in Int /\ b \in Int /\ w \in Int /\ i \in Int /\ j \in Int /\ k \in Int
  BY <1>1, <1>2, <1>3, InType
<1>5. \/ Has(e, "sessions", c) /\ i = a + 1
      \/ ~Has(g, "sessions", c) /\ ~Has(e, "sessions", c) /\ a = 0 /\ i = 0 /\ Full(e) /\ Full(g)
  BY <1>2, <1>3 DEF SegmentsOpen, AddsTo
<1>6. \/ Has(e, "bounces", c) /\ j = b + 1 /\ (Has(g, "bounces", c) \/ ~Full(g))
      \/ ~Has(g, "bounces", c) /\ ~Has(e, "bounces", c) /\ b = 0 /\ j = 0 /\ Full(e)
  BY <1>2, <1>3 DEF SegmentsOpen, AddsTo
<1>7. k = w + 1 \/ Full(e)
  BY <1>2, <1>3 DEF SegmentsOpen, AddsTo
<1>8. /\ Has(g, "bounces", c) => Has(g, "sessions", c)
      /\ b <= a /\ (Full(g) \/ 2 * a - b <= w)
  BY <1>2 DEF SegmentAt
<1>9. Has(e, "bounces", c) => Has(e, "sessions", c)
  BY <1>5, <1>6, <1>8
<1>10. Has(e, "bounces", c) \/ Full(e)
  BY <1>6
<1>11. j <= i
  BY <1>4, <1>5, <1>6, <1>8
<1>12. Full(e) \/ 2 * i - j <= k
  <2>1. CASE ~Full(e)
    <3>1. ~Full(g)
      BY <1>1, <2>1 DEF Grown
    <3>2. i = a + 1 /\ j = b + 1 /\ k = w + 1
      BY <1>5, <1>6, <1>7, <2>1
    <3> QED BY <1>4, <1>8, <3>1, <3>2
  <2> QED BY <2>1
<1>13. Has(e, "bounces", c) => Cardinality(BouncingIn(t, d, c)) <= j
  <2>1. SUFFICES ASSUME Has(e, "bounces", c) PROVE Cardinality(BouncingIn(t, d, c)) <= j
    OBVIOUS
  <2>2. /\ BouncingIn(s, d, c) \in SUBSET Visitors
        /\ BouncingIn(t, d, c) \in SUBSET (BouncingIn(s, d, c) \cup {v})
        /\ BouncingIn(s, d, c) \cup {v} \in SUBSET Visitors
    BY BouncesMove
  <2>3. /\ Cardinality(BouncingIn(t, d, c)) \in Nat
        /\ Cardinality(BouncingIn(t, d, c)) <= Cardinality(BouncingIn(s, d, c) \cup {v})
    BY <2>2, FewerVisitors
  <2>4. /\ Cardinality(BouncingIn(s, d, c)) \in Nat
        /\ Cardinality(BouncingIn(s, d, c) \cup {v}) \in Nat
        /\ Cardinality(BouncingIn(s, d, c) \cup {v}) <= Cardinality(BouncingIn(s, d, c)) + 1
    BY <2>2, OneMoreVisitor
  <2>5. Cardinality(BouncingIn(s, d, c)) <= b
    <3>1. CASE Has(g, "bounces", c)
      BY <1>2, <3>1 DEF SegmentAt
    <3>2. CASE ~Has(g, "bounces", c)
      <4>1. ~Full(g)
        BY <1>6, <2>1, <3>2
      <4>2. BouncingIn(s, d, c) = {}
        BY <3>2, <4>1 DEF SegmentAt, BouncingIn, Bouncing
      <4>3. b = 0
        BY <1>2, <3>2, InType
      <4>4. Cardinality({}) = 0
        BY FS_EmptySet
      <4> QED BY <4>2, <4>3, <4>4
    <3> QED BY <3>1, <3>2
  <2> QED BY <1>4, <1>6, <2>1, <2>3, <2>4, <2>5
<1> QED BY <1>2, <1>3, <1>9, <1>10, <1>11, <1>12, <1>13 DEF SegmentAt

\* The segment of a visit that goes on.
LEMMA SegmentAtContinues ==
    ASSUME NEW g, IsSegments(g), NEW c \in Campaigns, NEW e, NEW n,
           NEW s, NEW t, NEW v \in Visitors, NEW d, NEW h, GoesOn(s, t, v, d, h),
           SegmentsContinue(g, e, c, n, EndsBounce(s[v])),
           s[v].campaign = c, t[v].campaign = c, SegmentAt(g, s, d, c)
    PROVE  SegmentAt(e, t, d, c)
<1>0. Moves(s, t, v) /\ s[v].date = d /\ t[v].date = d /\ t[v].pages # 1
  BY VisitGoesOn
<1>1. IsSegments(e) /\ Grown(g, e)
  BY DEF SegmentsContinue
<1>2. PICK a, b, w : a = In(g, "sessions", c) /\ b = In(g, "bounces", c) /\ w = In(g, "pageviews", c)
  OBVIOUS
<1>3. PICK i, j, k : i = In(e, "sessions", c) /\ j = In(e, "bounces", c) /\ k = In(e, "pageviews", c)
  OBVIOUS
<1>4. a \in Int /\ b \in Int /\ w \in Int /\ i \in Int /\ j \in Int /\ k \in Int
  BY <1>1, <1>2, <1>3, InType
<1>5. (Has(e, "sessions", c) <=> Has(g, "sessions", c)) /\ i = a
  BY <1>2, <1>3 DEF SegmentsContinue, SameField
<1>6. Has(g, "bounces", c) \/ Full(g)
  BY <1>0 DEF SegmentAt
<1>7. /\ Has(e, "bounces", c) <=> Has(g, "bounces", c)
      /\ IF EndsBounce(s[v]) /\ Has(g, "bounces", c) THEN j = b - 1 ELSE j = b
  <2>1. CASE EndsBounce(s[v])
    <3>1. PICK l : l = -1
      OBVIOUS
    <3>2. \/ /\ Has(e, "bounces", c) /\ j = b + l
             /\ Has(g, "bounces", c) \/ ~Full(g)
          \/ ~Has(g, "bounces", c) /\ ~Has(e, "bounces", c) /\ b = 0 /\ j = 0
      BY <1>2, <1>3, <2>1, <3>1 DEF SegmentsContinue, AddsTo
    <3>3. b + l = b - 1
      BY <1>4, <3>1
    <3> QED BY <1>6, <2>1, <3>2, <3>3
  <2>2. CASE ~EndsBounce(s[v])
    BY <1>2, <1>3, <2>2 DEF SegmentsContinue, SameField
  <2> QED BY <2>1, <2>2
<1>8. k = w + 1 \/ Full(e)
  BY <1>2, <1>3 DEF SegmentsContinue, AddsTo
<1>9. /\ Has(g, "bounces", c) => Has(g, "sessions", c)
      /\ b <= a /\ (Full(g) \/ 2 * a - b <= w)
  BY <1>2 DEF SegmentAt
<1>10. Has(e, "bounces", c) => Has(e, "sessions", c)
  BY <1>5, <1>7, <1>9
<1>11. Has(e, "bounces", c) \/ Full(e)
  BY <1>1, <1>6, <1>7 DEF Grown
<1>12. j <= i
  BY <1>4, <1>5, <1>7, <1>9
<1>13. Full(e) \/ 2 * i - j <= k
  <2>1. CASE ~Full(e)
    <3>1. ~Full(g)
      BY <1>1, <2>1 DEF Grown
    <3> QED BY <1>4, <1>5, <1>7, <1>8, <1>9, <2>1, <3>1
  <2> QED BY <2>1
<1>14. Has(e, "bounces", c) => Cardinality(BouncingIn(t, d, c)) <= j
  <2>1. SUFFICES ASSUME Has(e, "bounces", c) PROVE Cardinality(BouncingIn(t, d, c)) <= j
    OBVIOUS
  <2>2. Cardinality(BouncingIn(s, d, c)) <= b
    BY <1>2, <1>7, <2>1 DEF SegmentAt
  <2>3. /\ BouncingIn(s, d, c) \in SUBSET Visitors
        /\ BouncingIn(t, d, c) = BouncingIn(s, d, c) \ {v}
        /\ BouncingIn(t, d, c) \in SUBSET BouncingIn(s, d, c)
    BY <1>0, BouncesMove
  <2>4. /\ Cardinality(BouncingIn(t, d, c)) \in Nat /\ Cardinality(BouncingIn(s, d, c)) \in Nat
        /\ Cardinality(BouncingIn(t, d, c)) <= Cardinality(BouncingIn(s, d, c))
    BY <2>3, FewerVisitors
  <2>5. CASE EndsBounce(s[v])
    <3>1. v \in BouncingIn(s, d, c)
      BY <1>0, <2>5, BouncesMove DEF EndsBounce
    <3>2. Cardinality(BouncingIn(t, d, c)) = Cardinality(BouncingIn(s, d, c)) - 1
      BY <2>3, <3>1, OneVisitorLess
    <3> QED BY <1>4, <1>7, <2>1, <2>2, <2>4, <2>5, <3>2
  <2>6. CASE ~EndsBounce(s[v])
    BY <1>4, <1>7, <2>2, <2>4, <2>6
  <2> QED BY <2>5, <2>6
<1> QED BY <1>2, <1>3, <1>10, <1>11, <1>12, <1>13, <1>14 DEF SegmentAt

-----------------------------------------------------------------------------
(* The segments together, and the day. *)

LEMMA UncountedMoves ==
    ASSUME NEW g, NEW e, Grown(g, e), NEW s, NEW t, NEW v \in Visitors, Moves(s, t, v), NEW d
    PROVE  /\ Uncounted(g, s, d) \in SUBSET Visitors
           /\ Uncounted(e, t, d) \in SUBSET (Uncounted(g, s, d) \cup {v})
           /\ Uncounted(g, s, d) \cup {v} \in SUBSET Visitors
           /\ t[v].date # d \/ t[v].pages # 1 \/ Has(e, "bounces", t[v].campaign) =>
                Uncounted(e, t, d) \in SUBSET (Uncounted(g, s, d) \ {v})
           /\ s[v].date = d /\ s[v].pages = 1 /\ ~Has(g, "bounces", s[v].campaign) =>
                v \in Uncounted(g, s, d)
BY DEF Moves, Grown, Uncounted, Bouncing, Has

LEMMA UncountedCount ==
    ASSUME NEW g, NEW e, Grown(g, e), NEW s, NEW t, NEW v \in Visitors, Moves(s, t, v), NEW d
    PROVE  /\ Cardinality(Uncounted(g, s, d)) \in Nat /\ Cardinality(Uncounted(e, t, d)) \in Nat
           /\ Cardinality(Uncounted(e, t, d)) <= Cardinality(Uncounted(g, s, d)) + 1
           /\ t[v].date # d \/ t[v].pages # 1 \/ Has(e, "bounces", t[v].campaign) =>
                /\ Cardinality(Uncounted(e, t, d)) <= Cardinality(Uncounted(g, s, d))
                /\ s[v].date = d /\ s[v].pages = 1 /\ ~Has(g, "bounces", s[v].campaign) =>
                     Cardinality(Uncounted(e, t, d)) <= Cardinality(Uncounted(g, s, d)) - 1
<1>1. PICK A, B : A = Uncounted(g, s, d) /\ B = Uncounted(e, t, d)
  OBVIOUS
<1>2. /\ A \in SUBSET Visitors /\ B \in SUBSET (A \cup {v}) /\ A \cup {v} \in SUBSET Visitors
      /\ t[v].date # d \/ t[v].pages # 1 \/ Has(e, "bounces", t[v].campaign) =>
           B \in SUBSET (A \ {v})
      /\ s[v].date = d /\ s[v].pages = 1 /\ ~Has(g, "bounces", s[v].campaign) => v \in A
  BY <1>1, UncountedMoves
<1>3. /\ Cardinality(B) \in Nat /\ Cardinality(B) <= Cardinality(A \cup {v})
  BY <1>2, FewerVisitors
<1>4. /\ Cardinality(A) \in Nat /\ Cardinality(A \cup {v}) \in Nat
      /\ Cardinality(A \cup {v}) <= Cardinality(A) + 1
  BY <1>2, OneMoreVisitor
<1>5. ASSUME B \in SUBSET (A \ {v})
      PROVE  Cardinality(B) <= Cardinality(A) /\ (v \in A => Cardinality(B) <= Cardinality(A) - 1)
  <2>1. A \ {v} \in SUBSET Visitors /\ B \in SUBSET A
    BY <1>2, <1>5
  <2>2. Cardinality(B) <= Cardinality(A)
    BY <1>2, <2>1, FewerVisitors
  <2>3. Cardinality(B) <= Cardinality(A \ {v})
    BY <1>5, <2>1, FewerVisitors
  <2>4. v \in A => Cardinality(A \ {v}) = Cardinality(A) - 1
    BY <1>2, OneVisitorLess
  <2> QED BY <2>2, <2>3, <2>4
<1> QED BY <1>1, <1>2, <1>3, <1>4, <1>5

LEMMA SumsElsewhere ==
    ASSUME NEW x, DayShape(x), NEW s, NEW t, NEW v \in Visitors, Moves(s, t, v), NEW d,
           t[v].date # d, SegmentSums(x, s, d)
    PROVE  SegmentSums(x, t, d)
<1>1. PICK g : g = x.segments
  OBVIOUS
<1>2. Grown(g, g) /\ IsSegments(g)
  BY <1>1 DEF Grown, DayShape, IsSegments
<1>3. /\ Cardinality(Uncounted(g, s, d)) \in Nat /\ Cardinality(Uncounted(g, t, d)) \in Nat
      /\ Cardinality(Uncounted(g, t, d)) <= Cardinality(Uncounted(g, s, d))
  BY <1>2, UncountedCount
<1>4. SegmentSum(g, "bounces") \in Int
  BY <1>2, SegmentSumType
<1> QED BY <1>1, <1>3, <1>4 DEF SegmentSums, DayShape

\* An empty value counts nowhere.
LEMMA NoSegment ==
    ASSUME NEW x, DayShape(x), NEW y, NEW h
    PROVE  /\ \A m : ~Has(x.segments, m, NoCampaign)
           /\ OpenedParts(x, y, h) /\ h.campaign = NoCampaign => y.segments = x.segments
           /\ \A s : ContinuedParts(x, y, h, s) /\ SegmentOf(h, s) = NoCampaign =>
                y.segments = x.segments
<1>1. \A m : ~Has(x.segments, m, NoCampaign)
  BY SessionsAssumption DEF SessionsAssumption, Has, DayShape, IsHash, SegmentFields
<1>2. OpenedParts(x, y, h) /\ h.campaign = NoCampaign => y.segments = x.segments
  BY DEF OpenedParts, CountSegment
<1>3. \A s : ContinuedParts(x, y, h, s) /\ SegmentOf(h, s) = NoCampaign => y.segments = x.segments
  BY DEF ContinuedParts, Longer, CountSegment
<1> QED BY <1>1, <1>2, <1>3

\* The sum over all segments when some are added to.
LEMMA AddedToSum ==
    ASSUME NEW g, NEW e, IsSegments(g), IsSegments(e), NEW m \in Metrics, NEW c \in Campaigns,
           \A k \in Campaigns : k # c => SameField(g, e, m, k)
    PROVE  /\ SegmentSum(g, m) \in Int /\ SegmentSum(e, m) \in Int
           /\ SameField(g, e, m, c) => SegmentSum(e, m) = SegmentSum(g, m)
           /\ \A n \in Int : AddsTo(g, e, m, c, n) =>
                SegmentSum(e, m) = IF Has(e, m, c) THEN SegmentSum(g, m) + n ELSE SegmentSum(g, m)
<1>1. SegmentSum(g, m) \in Int /\ SegmentSum(e, m) \in Int
  BY SegmentSumType
<1>2. \A k \in Campaigns : k # c => In(e, m, k) = In(g, m, k)
  BY DEF SameField
<1>3. SegmentSum(e, m) = SegmentSum(g, m) + (In(e, m, c) - In(g, m, c))
  BY <1>2, SegmentSumMoves
<1>4. In(e, m, c) \in Int /\ In(g, m, c) \in Int
  BY InType
<1>5. SameField(g, e, m, c) => SegmentSum(e, m) = SegmentSum(g, m)
  BY <1>1, <1>3, <1>4 DEF SameField
<1>6. ASSUME NEW n \in Int, AddsTo(g, e, m, c, n)
      PROVE  SegmentSum(e, m) = IF Has(e, m, c) THEN SegmentSum(g, m) + n ELSE SegmentSum(g, m)
  <2>1. IF Has(e, m, c) THEN In(e, m, c) = In(g, m, c) + n ELSE In(e, m, c) = In(g, m, c)
    BY <1>6 DEF AddsTo
  <2> QED BY <1>1, <1>3, <1>4, <2>1
<1> QED BY <1>1, <1>5, <1>6

LEMMA SumsOpen ==
    ASSUME NEW x, DayShape(x), NEW h, IsView(h), NEW y, OpenedParts(x, y, h),
           NEW s, NEW t, NEW v \in Visitors, Moves(s, t, v), NEW d, t[v].campaign = h.campaign,
           SegmentSums(x, s, d)
    PROVE  SegmentSums(y, t, d)
<1>1. PICK g, e, c : g = x.segments /\ e = y.segments /\ c = h.campaign
  OBVIOUS
<1>2. /\ x.sessions \in Int /\ x.bounces \in Int /\ x.pageviews \in Int /\ x.duration \in Int
      /\ y.sessions = x.sessions + 1 /\ y.bounces = x.bounces + 1
      /\ y.pageviews = x.pageviews + 1 /\ y.duration = x.duration /\ IsSegments(g)
  BY <1>1 DEF DayShape, OpenedParts, IsSegments
<1>3. /\ SegmentSum(g, "bounces") + Cardinality(Uncounted(g, s, d)) <= x.bounces
      /\ SegmentSum(g, "sessions") <= x.sessions
      /\ SegmentSum(g, "pageviews") <= x.pageviews /\ SegmentSum(g, "duration") <= x.duration
  BY <1>1 DEF SegmentSums
<1>4. CASE c = NoCampaign
  <2>1. e = g
    BY <1>1, <1>4, NoSegment
  <2>2. Grown(g, g)
    BY DEF Grown
  <2>3. /\ Cardinality(Uncounted(g, s, d)) \in Nat /\ Cardinality(Uncounted(g, t, d)) \in Nat
        /\ Cardinality(Uncounted(g, t, d)) <= Cardinality(Uncounted(g, s, d)) + 1
    BY <2>2, UncountedCount
  <2>4. SegmentSum(g, "bounces") \in Int /\ SegmentSum(g, "sessions") \in Int
        /\ SegmentSum(g, "pageviews") \in Int /\ SegmentSum(g, "duration") \in Int
    BY <1>2, SegmentSumType
  <2>5. SegmentSum(g, "bounces") + Cardinality(Uncounted(g, t, d)) <= x.bounces + 1
    BY <1>2, <1>3, <2>3, <2>4
  <2>6. SegmentSum(g, "sessions") <= x.sessions + 1 /\ SegmentSum(g, "pageviews") <= x.pageviews + 1
    BY <1>2, <1>3, <2>4
  <2> QED BY <1>1, <1>2, <1>3, <2>1, <2>5, <2>6 DEF SegmentSums
<1>5. CASE c # NoCampaign
  <2>1. c \in Campaigns /\ SegmentsOpen(g, e, c)
    BY <1>1, <1>5, SegmentOpens DEF IsView
  <2>2. IsSegments(e) /\ Grown(g, e) /\ \A m \in Metrics, k \in Campaigns : k # c => SameField(g, e, m, k)
    BY <2>1 DEF SegmentsOpen
  <2>3. PICK n \in Int : n = 1
    OBVIOUS
  <2>4. /\ AddsTo(g, e, "sessions", c, n) /\ AddsTo(g, e, "bounces", c, n)
        /\ AddsTo(g, e, "pageviews", c, n) /\ SameField(g, e, "duration", c)
    BY <2>1, <2>3 DEF SegmentsOpen
  <2>5. /\ SegmentSum(g, "bounces") \in Int /\ SegmentSum(e, "bounces") \in Int
        /\ SegmentSum(e, "bounces") =
             IF Has(e, "bounces", c) THEN SegmentSum(g, "bounces") + n ELSE SegmentSum(g, "bounces")
    <3>1. "bounces" \in Metrics
      BY DEF Metrics
    <3> QED BY <1>2, <2>1, <2>2, <2>4, <3>1, AddedToSum
  <2>6. SegmentSum(e, "sessions") <= x.sessions + 1
    <3>1. "sessions" \in Metrics
      BY DEF Metrics
    <3>2. /\ SegmentSum(g, "sessions") \in Int
          /\ SegmentSum(e, "sessions") =
               IF Has(e, "sessions", c) THEN SegmentSum(g, "sessions") + n ELSE SegmentSum(g, "sessions")
      BY <1>2, <2>1, <2>2, <2>4, <3>1, AddedToSum
    <3> QED BY <1>2, <1>3, <2>3, <3>2
  <2>7. SegmentSum(e, "pageviews") <= x.pageviews + 1
    <3>1. "pageviews" \in Metrics
      BY DEF Metrics
    <3>2. /\ SegmentSum(g, "pageviews") \in Int
          /\ SegmentSum(e, "pageviews") =
               IF Has(e, "pageviews", c) THEN SegmentSum(g, "pageviews") + n
                                         ELSE SegmentSum(g, "pageviews")
      BY <1>2, <2>1, <2>2, <2>4, <3>1, AddedToSum
    <3> QED BY <1>2, <1>3, <2>3, <3>2
  <2>8. SegmentSum(e, "duration") <= x.duration
    <3>1. "duration" \in Metrics
      BY DEF Metrics
    <3>2. SegmentSum(e, "duration") = SegmentSum(g, "duration")
      BY <1>2, <2>1, <2>2, <2>4, <3>1, AddedToSum
    <3> QED BY <1>3, <3>2
  <2>9. /\ Cardinality(Uncounted(g, s, d)) \in Nat /\ Cardinality(Uncounted(e, t, d)) \in Nat
        /\ Cardinality(Uncounted(e, t, d)) <= Cardinality(Uncounted(g, s, d)) + 1
        /\ Has(e, "bounces", c) => Cardinality(Uncounted(e, t, d)) <= Cardinality(Uncounted(g, s, d))
    BY <1>1, <2>2, UncountedCount
  <2>10. SegmentSum(e, "bounces") + Cardinality(Uncounted(e, t, d)) <= x.bounces + 1
    BY <1>2, <1>3, <2>3, <2>5, <2>9
  <2> QED BY <1>1, <1>2, <2>6, <2>7, <2>8, <2>10 DEF SegmentSums
<1> QED BY <1>4, <1>5

LEMMA SumsContinue ==
    ASSUME NEW x, DayShape(x), NEW h, IsView(h), NEW s, NEW t, NEW v \in Visitors, NEW d,
           GoesOn(s, t, v, d, h), NEW y, ContinuedParts(x, y, h, s[v]),
           SegmentOf(h, s[v]) = s[v].campaign,
           \A c \in Campaigns : SegmentAt(x.segments, s, d, c), SegmentSums(x, s, d)
    PROVE  SegmentSums(y, t, d)
<1>1. PICK g, e, c, n : g = x.segments /\ e = y.segments /\ c = s[v].campaign /\ n = Spent(h, s[v])
  OBVIOUS
<1>2. Moves(s, t, v) /\ IsVisit(s[v]) /\ s[v].date = d /\ t[v].date = d /\ t[v].pages # 1
  BY VisitGoesOn
<1>3. /\ x.sessions \in Int /\ x.bounces \in Int /\ x.pageviews \in Int /\ x.duration \in Int
      /\ y.sessions = x.sessions
      /\ y.bounces = (IF EndsBounce(s[v]) THEN x.bounces - 1 ELSE x.bounces)
      /\ y.pageviews = x.pageviews + 1 /\ y.duration = x.duration + n /\ IsSegments(g)
  BY <1>1 DEF DayShape, ContinuedParts, IsSegments
<1>4. /\ SegmentSum(g, "bounces") + Cardinality(Uncounted(g, s, d)) <= x.bounces
      /\ SegmentSum(g, "sessions") <= x.sessions
      /\ SegmentSum(g, "pageviews") <= x.pageviews /\ SegmentSum(g, "duration") <= x.duration
  BY <1>1 DEF SegmentSums
<1>5. n \in Nat /\ c \in Campaigns \cup {NoCampaign}
  BY <1>1, <1>2, SegmentOfType
<1>6. CASE c = NoCampaign
  <2>1. e = g /\ ~Has(g, "bounces", c)
    BY <1>1, <1>6, NoSegment
  <2>2. Grown(g, g)
    BY DEF Grown
  <2>3. /\ Cardinality(Uncounted(g, s, d)) \in Nat /\ Cardinality(Uncounted(g, t, d)) \in Nat
        /\ Cardinality(Uncounted(g, t, d)) <= Cardinality(Uncounted(g, s, d))
        /\ EndsBounce(s[v]) =>
             Cardinality(Uncounted(g, t, d)) <= Cardinality(Uncounted(g, s, d)) - 1
    BY <1>1, <1>2, <2>1, <2>2, UncountedCount DEF EndsBounce
  <2>4. SegmentSum(g, "bounces") \in Int /\ SegmentSum(g, "sessions") \in Int
        /\ SegmentSum(g, "pageviews") \in Int /\ SegmentSum(g, "duration") \in Int
    BY <1>3, SegmentSumType
  <2>5. SegmentSum(g, "bounces") + Cardinality(Uncounted(g, t, d)) <= y.bounces
    BY <1>3, <1>4, <2>3, <2>4
  <2>6. SegmentSum(g, "duration") <= x.duration + n /\ SegmentSum(g, "pageviews") <= x.pageviews + 1
    BY <1>3, <1>4, <1>5, <2>4
  <2> QED BY <1>1, <1>3, <1>4, <2>1, <2>5, <2>6 DEF SegmentSums
<1>7. CASE c # NoCampaign
  <2>1. c \in Campaigns
    BY <1>5, <1>7
  <2>2. SegmentsContinue(g, e, c, n, EndsBounce(s[v]))
    <3>1. SegmentOf(h, s[v]) \in Campaigns
      BY <1>1, <2>1
    <3>2. SegmentsContinue(x.segments, y.segments, SegmentOf(h, s[v]), Spent(h, s[v]),
                           EndsBounce(s[v]))
      BY <1>2, <3>1, SegmentContinues
    <3> QED BY <1>1, <3>2
  <2>3. IsSegments(e) /\ Grown(g, e) /\ \A m \in Metrics, k \in Campaigns : k # c => SameField(g, e, m, k)
    BY <2>2 DEF SegmentsContinue
  <2>4. PICK i \in Int, l \in Int : i = 1 /\ l = -1
    OBVIOUS
  <2>5. /\ SameField(g, e, "sessions", c) /\ AddsTo(g, e, "pageviews", c, i)
        /\ AddsTo(g, e, "duration", c, n)
        /\ IF EndsBounce(s[v]) THEN AddsTo(g, e, "bounces", c, l) ELSE SameField(g, e, "bounces", c)
    BY <2>2, <2>4 DEF SegmentsContinue
  <2>6. SegmentSum(e, "sessions") <= x.sessions
    <3>1. "sessions" \in Metrics
      BY DEF Metrics
    <3>2. SegmentSum(e, "sessions") = SegmentSum(g, "sessions")
      BY <1>3, <2>1, <2>3, <2>5, <3>1, AddedToSum
    <3> QED BY <1>4, <3>2
  <2>7. SegmentSum(e, "pageviews") <= x.pageviews + 1
    <3>1. "pageviews" \in Metrics
      BY DEF Metrics
    <3>2. /\ SegmentSum(g, "pageviews") \in Int
          /\ SegmentSum(e, "pageviews") =
               IF Has(e, "pageviews", c) THEN SegmentSum(g, "pageviews") + i
                                         ELSE SegmentSum(g, "pageviews")
      BY <1>3, <2>1, <2>3, <2>5, <3>1, AddedToSum
    <3> QED BY <1>3, <1>4, <2>4, <3>2
  <2>8. SegmentSum(e, "duration") <= x.duration + n
    <3>1. "duration" \in Metrics /\ n \in Int
      BY <1>5 DEF Metrics
    <3>2. /\ SegmentSum(g, "duration") \in Int
          /\ SegmentSum(e, "duration") =
               IF Has(e, "duration", c) THEN SegmentSum(g, "duration") + n
                                        ELSE SegmentSum(g, "duration")
      BY <1>3, <2>1, <2>3, <2>5, <3>1, AddedToSum
    <3> QED BY <1>3, <1>4, <1>5, <3>2
  <2>9. /\ Cardinality(Uncounted(g, s, d)) \in Nat /\ Cardinality(Uncounted(e, t, d)) \in Nat
        /\ Cardinality(Uncounted(e, t, d)) <= Cardinality(Uncounted(g, s, d))
        /\ EndsBounce(s[v]) /\ ~Has(g, "bounces", c) =>
             Cardinality(Uncounted(e, t, d)) <= Cardinality(Uncounted(g, s, d)) - 1
    BY <1>1, <1>2, <2>3, UncountedCount DEF EndsBounce
  <2>10. SegmentSum(e, "bounces") + Cardinality(Uncounted(e, t, d)) <= y.bounces
    <3>0. "bounces" \in Metrics
      BY DEF Metrics
    <3>1. CASE EndsBounce(s[v])
      <4>1. Has(g, "bounces", c) \/ Full(g)
        BY <1>1, <1>2, <2>1 DEF SegmentAt
      <4>2. /\ SegmentSum(g, "bounces") \in Int /\ SegmentSum(e, "bounces") \in Int
            /\ SegmentSum(e, "bounces") =
                 IF Has(e, "bounces", c) THEN SegmentSum(g, "bounces") + l
                                         ELSE SegmentSum(g, "bounces")
        BY <1>3, <2>1, <2>3, <2>5, <3>0, <3>1, AddedToSum
      <4>3. Has(e, "bounces", c) <=> Has(g, "bounces", c)
        <5>1. \/ Has(e, "bounces", c) /\ (Has(g, "bounces", c) \/ ~Full(g))
              \/ ~Has(g, "bounces", c) /\ ~Has(e, "bounces", c)
          BY <2>5, <3>1 DEF AddsTo
        <5> QED BY <4>1, <5>1
      <4> QED BY <1>3, <1>4, <2>4, <2>9, <3>1, <4>2, <4>3
    <3>2. CASE ~EndsBounce(s[v])
      <4>1. /\ SegmentSum(g, "bounces") \in Int
            /\ SegmentSum(e, "bounces") = SegmentSum(g, "bounces")
        BY <1>3, <2>1, <2>3, <2>5, <3>0, <3>2, AddedToSum
      <4> QED BY <1>3, <1>4, <2>9, <3>2, <4>1
    <3> QED BY <3>1, <3>2
  <2> QED BY <1>1, <1>3, <2>6, <2>7, <2>8, <2>10 DEF SegmentSums
<1> QED BY <1>6, <1>7

-----------------------------------------------------------------------------
SegmentsOf(x, s, d) ==
    /\ \A c \in Campaigns : SegmentAt(x.segments, s, d, c)
    /\ SegmentSums(x, s, d)

SegmentInv == \A d \in Dates : SegmentsOf(day[d], sess, d)

LEMMA SegmentsElsewhere ==
    ASSUME NEW x, DayShape(x), NEW s, NEW t, NEW v \in Visitors, Moves(s, t, v), NEW d,
           t[v].date # d, SegmentsOf(x, s, d)
    PROVE  SegmentsOf(x, t, d)
<1>1. PICK g : g = x.segments
  OBVIOUS
<1>2. IsSegments(g) /\ Grown(g, g) /\ \A c \in Campaigns, m \in Metrics : SameField(g, g, m, c)
  BY <1>1 DEF IsSegments, DayShape, Grown, SameField
<1>3. ASSUME NEW c \in Campaigns PROVE SegmentAt(g, t, d, c)
  BY <1>1, <1>2, SegmentAside DEF SegmentsOf
<1>4. SegmentSums(x, t, d)
  BY SumsElsewhere DEF SegmentsOf
<1> QED BY <1>1, <1>3, <1>4 DEF SegmentsOf

\* Other segments than the one of the view.
LEMMA OthersStay ==
    ASSUME NEW g, NEW e, IsSegments(g), IsSegments(e), Grown(g, e), NEW c,
           \A m \in Metrics, k \in Campaigns : k # c => SameField(g, e, m, k),
           NEW s, NEW t, NEW v \in Visitors, Moves(s, t, v), NEW d, t[v].campaign = c,
           \A k \in Campaigns : SegmentAt(g, s, d, k)
    PROVE  \A k \in Campaigns : k # c => SegmentAt(e, t, d, k)
<1>1. ASSUME NEW k \in Campaigns, k # c PROVE SegmentAt(e, t, d, k)
  <2>1. \A m \in Metrics : SameField(g, e, m, k)
    BY <1>1
  <2>2. t[v].campaign # k /\ SegmentAt(g, s, d, k)
    BY <1>1
  <2> QED BY <2>1, <2>2, SegmentAside
<1> QED BY <1>1

LEMMA SegmentsOfOpen ==
    ASSUME NEW x, DayShape(x), NEW h, IsView(h), NEW y, OpenedParts(x, y, h),
           NEW s, NEW t, NEW v \in Visitors, Moves(s, t, v), NEW d, t[v].campaign = h.campaign,
           SegmentsOf(x, s, d)
    PROVE  SegmentsOf(y, t, d)
<1>1. PICK g, e, c : g = x.segments /\ e = y.segments /\ c = h.campaign
  OBVIOUS
<1>2. SegmentSums(y, t, d)
  BY SumsOpen DEF SegmentsOf
<1>3. IsSegments(g) /\ \A k \in Campaigns : SegmentAt(g, s, d, k)
  BY <1>1 DEF DayShape, IsSegments, SegmentsOf
<1>4. CASE c = NoCampaign
  <2>1. e = g /\ Grown(g, g) /\ \A m \in Metrics, k \in Campaigns : SameField(g, g, m, k)
    BY <1>1, <1>4, NoSegment DEF Grown, SameField
  <2>2. \A k \in Campaigns : k # c => SegmentAt(g, t, d, k)
    BY <1>1, <1>3, <2>1, OthersStay
  <2>3. \A k \in Campaigns : k # c
    BY <1>4, SessionsAssumption DEF SessionsAssumption
  <2> QED BY <1>1, <1>2, <2>1, <2>2, <2>3 DEF SegmentsOf
<1>5. CASE c # NoCampaign
  <2>1. c \in Campaigns /\ SegmentsOpen(g, e, c)
    BY <1>1, <1>5, SegmentOpens DEF IsView
  <2>2. /\ IsSegments(e) /\ Grown(g, e)
        /\ \A m \in Metrics, k \in Campaigns : k # c => SameField(g, e, m, k)
    BY <2>1 DEF SegmentsOpen
  <2>3. \A k \in Campaigns : k # c => SegmentAt(e, t, d, k)
    BY <1>1, <1>3, <2>2, OthersStay
  <2>4. SegmentAt(e, t, d, c)
    BY <1>3, <2>1, SegmentAtOpens
  <2> QED BY <1>1, <1>2, <2>3, <2>4 DEF SegmentsOf
<1> QED BY <1>4, <1>5

LEMMA SegmentsOfContinue ==
    ASSUME NEW x, DayShape(x), NEW h, IsView(h), NEW s, NEW t, NEW v \in Visitors, NEW d,
           GoesOn(s, t, v, d, h), NEW y, ContinuedParts(x, y, h, s[v]),
           SegmentOf(h, s[v]) = s[v].campaign, t[v].campaign = s[v].campaign,
           SegmentsOf(x, s, d)
    PROVE  SegmentsOf(y, t, d)
<1>1. PICK g, e, c : g = x.segments /\ e = y.segments /\ c = s[v].campaign
  OBVIOUS
<1>2. SegmentSums(y, t, d)
  BY SumsContinue DEF SegmentsOf
<1>3. IsSegments(g) /\ \A k \in Campaigns : SegmentAt(g, s, d, k)
  BY <1>1 DEF DayShape, IsSegments, SegmentsOf
<1>4. Moves(s, t, v) /\ IsVisit(s[v])
  BY VisitGoesOn
<1>5. CASE c = NoCampaign
  <2>1. e = g /\ Grown(g, g) /\ \A m \in Metrics, k \in Campaigns : SameField(g, g, m, k)
    BY <1>1, <1>5, NoSegment DEF Grown, SameField
  <2>2. \A k \in Campaigns : k # c => SegmentAt(g, t, d, k)
    BY <1>1, <1>3, <1>4, <2>1, OthersStay
  <2>3. \A k \in Campaigns : k # c
    BY <1>5, SessionsAssumption DEF SessionsAssumption
  <2> QED BY <1>1, <1>2, <2>1, <2>2, <2>3 DEF SegmentsOf
<1>6. CASE c # NoCampaign
  <2>1. c \in Campaigns
    BY <1>1, <1>4, <1>6 DEF IsVisit
  <2>2. PICK n : n = Spent(h, s[v])
    OBVIOUS
  <2>3. SegmentsContinue(g, e, c, n, EndsBounce(s[v]))
    <3>1. SegmentOf(h, s[v]) \in Campaigns
      BY <1>1, <2>1
    <3>2. SegmentsContinue(x.segments, y.segments, SegmentOf(h, s[v]), Spent(h, s[v]),
                           EndsBounce(s[v]))
      BY <1>4, <3>1, SegmentContinues
    <3> QED BY <1>1, <2>2, <3>2
  <2>4. /\ IsSegments(e) /\ Grown(g, e)
        /\ \A m \in Metrics, k \in Campaigns : k # c => SameField(g, e, m, k)
    BY <2>3 DEF SegmentsContinue
  <2>5. \A k \in Campaigns : k # c => SegmentAt(e, t, d, k)
    BY <1>1, <1>3, <1>4, <2>4, OthersStay
  <2>6. SegmentAt(e, t, d, c)
    BY <1>1, <1>3, <2>1, <2>3, SegmentAtContinues
  <2> QED BY <1>1, <1>2, <2>5, <2>6 DEF SegmentsOf
<1> QED BY <1>5, <1>6

LEMMA SegmentsStay ==
    ASSUME NEW x, NEW y, SameVisits(x, y), NEW s, NEW d, SegmentsOf(x, s, d)
    PROVE  SegmentsOf(y, s, d)
BY DEF SameVisits, SegmentsOf, SegmentSums

LEMMA SegmentsOfEmpty ==
    ASSUME NEW s, \A v \in Visitors : s[v] = NoSession, NEW d \in Dates
    PROVE  SegmentsOf(EmptyDay, s, d)
<1>1. /\ EmptyDay.segments = Empty /\ EmptyDay.sessions = 0 /\ EmptyDay.bounces = 0
      /\ EmptyDay.pageviews = 0 /\ EmptyDay.duration = 0
  BY DEF EmptyDay
<1>2. \A m, c : ~Has(Empty, m, c) /\ In(Empty, m, c) = 0
  BY EmptyHash DEF Has, In, Empty
<1>3. \A v \in Visitors : s[v].date # d
  BY NoSessionIs DEF Dates
<1>4. \A c \in Campaigns : SegmentAt(Empty, s, d, c)
  BY <1>2, <1>3 DEF SegmentAt
<1>5. ASSUME NEW m PROVE SegmentSum(Empty, m) = 0
  <2>1. PICK a : a = OverSegments(Empty, m)
    OBVIOUS
  <2>2. \A c \in Campaigns : a[c] = 0
    BY <1>2, <2>1 DEF OverSegments
  <2>3. SumOf(a, Campaigns) = 0
    BY <2>2, Finite, SumZero
  <2> QED BY <2>1, <2>3 DEF SegmentSum
<1>6. Uncounted(Empty, s, d) = {} /\ Cardinality({}) = 0
  BY <1>3, FS_EmptySet DEF Uncounted, Bouncing
<1>7. SegmentSums(EmptyDay, s, d)
  BY <1>1, <1>5, <1>6 DEF SegmentSums
<1> QED BY <1>1, <1>4, <1>7 DEF SegmentsOf

LEMMA SegmentsStep ==
    ASSUME ShapeInv, SegmentInv, [Next]_vars
    PROVE  SegmentInv'
<1>1. CASE Steady
  <2>1. sess' = sess /\ \A d \in Dates : SameVisits(day[d], day'[d])
    BY <1>1 DEF Steady
  <2> QED BY <2>1, SegmentsStay DEF SegmentInv
<1>2. ASSUME NEW h, Viewing(h)
      PROVE  SegmentInv'
  <2>1. Recorded(h) /\ now' = now /\ (Starting(h) \/ Following(h))
    BY <1>2 DEF Viewing, Starting, Following
  <2>2. PICK v \in Visitors, d \in Dates : v = h.who /\ d = DateOf(h.at) /\ sess'[v].date = d
    BY <2>1, Rewritten
  <2>3. /\ Moves(sess, sess', v) /\ sess'[v].path = h.path /\ IsView(h)
        /\ sess'[v].campaign = SegmentOf(h, Stored(v))
    BY <2>1, <2>2, Rewritten, RecordedShapes DEF Recorded
  <2>4. ASSUME NEW e \in Dates, e # d PROVE SegmentsOf(day'[e], sess', e)
    <3>1. day'[e] = day[e] /\ DayShape(day[e]) /\ SegmentsOf(day[e], sess, e)
      BY <2>1, <2>2, <2>4 DEF Recorded, ShapeInv, DayInv, SegmentInv
    <3>2. sess'[v].date # e
      BY <2>2, <2>4
    <3>3. SegmentsOf(day[e], sess', e)
      BY <2>3, <3>1, <3>2, SegmentsElsewhere
    <3> QED BY <3>1, <3>3
  <2>5. PICK x, y : x = day[d] /\ y = day'[d]
    OBVIOUS
  <2>6. DayShape(x) /\ SegmentsOf(x, sess, d)
    BY <2>5 DEF ShapeInv, DayInv, SegmentInv
  <2>7. CASE Starting(h)
    <3>1. OpenedParts(x, y, h) /\ IsNew(h, Stored(v))
      BY <2>2, <2>5, <2>7 DEF Starting
    <3>2. sess'[v].campaign = h.campaign
      BY <2>3, <3>1 DEF SegmentOf
    <3>3. SegmentsOf(y, sess', d)
      BY <2>3, <2>6, <3>1, <3>2, SegmentsOfOpen
    <3> QED BY <2>4, <2>5, <3>3 DEF SegmentInv
  <2>8. CASE Following(h)
    <3>1. /\ ContinuedParts(x, y, h, sess[v]) /\ ~IsNew(h, sess[v]) /\ Stored(v) = sess[v]
          /\ sess'[v].pages = sess[v].pages + 1
      BY <2>1, <2>2, <2>5, <2>8, Rewritten DEF Following
    <3>2. sess[v].date = d /\ h.at - sess[v].last <= Timeout /\ d # 0
      <4>1. h.at \in Nat /\ sess[v].last \in Nat
        BY <2>3 DEF IsView, Moves, SessShape, StoredShape
      <4> QED BY <2>2, <3>1, <4>1, Numbers DEF IsNew, Dates
    <3>3. GoesOn(sess, sess', v, d, h)
      BY <2>2, <2>3, <3>1, <3>2 DEF GoesOn
    <3>4. SegmentOf(h, sess[v]) = sess[v].campaign /\ sess'[v].campaign = sess[v].campaign
      BY <2>3, <3>1 DEF SegmentOf
    <3>5. SegmentsOf(y, sess', d)
      BY <2>3, <2>6, <3>1, <3>3, <3>4, SegmentsOfContinue
    <3> QED BY <2>4, <2>5, <3>5 DEF SegmentInv
  <2> QED BY <2>1, <2>7, <2>8
<1>3. CASE Losing
  <2>1. /\ \A d \in Dates : day'[d] = EmptyDay
        /\ \A v \in Visitors : sess'[v] = NoSession
    BY <1>3 DEF Losing
  <2> QED BY <2>1, SegmentsOfEmpty DEF SegmentInv
<1> QED BY <1>1, <1>2, <1>3, VisitCases

LEMMA SegmentsInit ==
    ASSUME Init
    PROVE  SegmentInv
BY SegmentsOfEmpty DEF Init, SegmentInv

\* First touch: a visit counts in the segment it began with to its end. No segment
\* has more bounces than visits or visits without their views, and the segments
\* together do not exceed the day (SegmentsConsistent).
THEOREM SegmentsCorrect == Spec => []SegmentsConsistent
<1>1. Init => ShapeInv /\ SegmentInv
  BY ShapeInit, SegmentsInit
<1>2. ShapeInv /\ SegmentInv /\ [Next]_vars => ShapeInv' /\ SegmentInv'
  BY ShapeStep, SegmentsStep
<1>3. ShapeInv /\ SegmentInv => SegmentsConsistent
  <2>1. SUFFICES ASSUME ShapeInv, SegmentInv PROVE SegmentsConsistent
    OBVIOUS
  <2>2. ASSUME NEW d \in Dates
        PROVE  LET x == day[d]
                   Seg(metric, c) == Value(x.segments, <<metric, c>>)
                   Sum(metric) == Total([c \in Campaigns |-> Seg(metric, c)])
               IN /\ \A c \in Campaigns :
                       /\ 0 <= Seg("bounces", c) /\ Seg("bounces", c) <= Seg("sessions", c)
                       /\ \/ Cardinality(DOMAIN x.segments) >= SegmentLimit
                          \/ 2 * Seg("sessions", c) - Seg("bounces", c) <= Seg("pageviews", c)
                  /\ Sum("sessions") <= x.sessions /\ Sum("bounces") <= x.bounces
                  /\ Sum("pageviews") <= x.pageviews /\ Sum("duration") <= x.duration
    <3>1. PICK x, g : x = day[d] /\ g = x.segments
      OBVIOUS
    <3>2. IsSegments(g) /\ DayShape(x) /\ SegmentsOf(x, sess, d)
      BY <2>1, <3>1 DEF ShapeInv, DayInv, DayShape, IsSegments, SegmentInv
    <3>3. ASSUME NEW c \in Campaigns
          PROVE  /\ 0 <= In(g, "bounces", c) /\ In(g, "bounces", c) <= In(g, "sessions", c)
                 /\ Full(g) \/ 2 * In(g, "sessions", c) - In(g, "bounces", c) <= In(g, "pageviews", c)
      <4>1. SegmentAt(g, sess, d, c)
        BY <3>1, <3>2 DEF SegmentsOf
      <4>2. In(g, "bounces", c) \in Int /\ (~Has(g, "bounces", c) => In(g, "bounces", c) = 0)
        BY <3>2, InType
      <4>3. Cardinality(BouncingIn(sess, d, c)) \in Nat
        BY Finite DEF BouncingIn, Bouncing
      <4> QED BY <4>1, <4>2, <4>3 DEF SegmentAt
    <3>4. ASSUME NEW m PROVE Total([c \in Campaigns |-> Value(g, <<m, c>>)]) = SegmentSum(g, m)
      <4>1. PICK a : a = OverSegments(g, m)
        OBVIOUS
      <4>2. DOMAIN a = Campaigns /\ a = [c \in Campaigns |-> Value(g, <<m, c>>)]
        BY <4>1 DEF OverSegments, In
      <4>3. Total(a) = SumOf(a, Campaigns)
        BY <4>2 DEF Total, SumOf
      <4> QED BY <4>1, <4>2, <4>3 DEF SegmentSum
    <3>5. /\ SegmentSum(g, "sessions") <= x.sessions /\ SegmentSum(g, "bounces") <= x.bounces
          /\ SegmentSum(g, "pageviews") <= x.pageviews /\ SegmentSum(g, "duration") <= x.duration
      <4>1. SegmentSums(x, sess, d)
        BY <3>2 DEF SegmentsOf
      <4>2. Cardinality(Uncounted(g, sess, d)) \in Nat
        BY Finite DEF Uncounted, Bouncing
      <4>3. SegmentSum(g, "bounces") \in Int /\ x.bounces \in Int
        BY <3>2, SegmentSumType DEF DayShape
      <4> QED BY <3>1, <4>1, <4>2, <4>3 DEF SegmentSums
    <3> QED BY <3>1, <3>3, <3>4, <3>5 DEF In, Full
  <2> QED BY <2>2 DEF SegmentsConsistent
<1> QED BY <1>1, <1>2, <1>3, PTL DEF Spec

-----------------------------------------------------------------------------
(* The visits counted and the views seen. *)

StartSet(S, d, pause) ==
    {x \in S : /\ DateOf(x[2]) = d
               /\ \A y \in S : /\ y[1] = x[1] /\ DateOf(y[2]) = d /\ y[2] < x[2]
                               => x[2] - y[2] > pause}

\* The session hash of a visitor holds the last view of its day, and after a late view
\* of the first day, the second has only views of its first tick.
LastOf(v, S, s) ==
    /\ s.date = 0 => \A x \in S : x[1] # v
    /\ s.date # 0 => /\ <<v, s.last>> \in S /\ DateOf(s.last) = s.date
                     /\ s.until >= s.last + Timeout
                     /\ \A x \in S : x[1] = v /\ DateOf(x[2]) = s.date => x[2] <= s.last
    /\ s.date = 1 => \A x \in S : x[1] = v /\ DateOf(x[2]) = 2 => x[2] = Midnight

LastInv ==
    /\ seen \subseteq Visitors \X (0..now)
    /\ \A v \in Visitors : LastOf(v, seen, sess[v])

\* The visits of the second day that a late view of the first has closed: the next
\* view of that day opens another, without a pause.
Owed(S, s) == {v \in Visitors : s[v].date = 1 /\ \E x \in S : x[1] = v /\ DateOf(x[2]) = 2}

MatchInv ==
    /\ late \in Nat
    /\ \A d \in Dates : Cardinality(StartSet(seen, d, Timeout)) <= day[d].sessions
    /\ day[1].sessions <= Cardinality(StartSet(seen, 1, Timeout - 2)) + late
    /\ day[2].sessions + Cardinality(Owed(seen, sess)) <=
         Cardinality(StartSet(seen, 2, Timeout - 2)) + late

\* A view that comes last of its visitor's day.
IsLatest(S, v, a) ==
    \A y \in S : y[1] = v /\ DateOf(y[2]) = DateOf(a) => y[2] <= a

LEMMA StartsGrow ==
    ASSUME NEW n \in Nat, NEW S \in SUBSET (Visitors \X (0..n)), NEW v \in Visitors, NEW a \in 0..n,
           IsLatest(S, v, a), NEW e \in Dates, NEW p \in Int
    PROVE  /\ StartSet(S, e, p) \subseteq StartSet(S \cup {<<v, a>>}, e, p)
           /\ StartSet(S \cup {<<v, a>>}, e, p) \subseteq StartSet(S, e, p) \cup {<<v, a>>}
           /\ e # DateOf(a) => StartSet(S \cup {<<v, a>>}, e, p) = StartSet(S, e, p)
<1>1. PICK x : x = <<v, a>>
  OBVIOUS
<1>2. x[1] = v /\ x[2] = a
  BY <1>1
<1>3. \A y \in S : y[2] \in Int /\ a \in Int
  OBVIOUS
<1>4. PICK T : T = S \cup {x}
  OBVIOUS
<1>5. ASSUME NEW z \in StartSet(S, e, p) PROVE z \in StartSet(T, e, p)
  <2>1. /\ z \in S /\ DateOf(z[2]) = e
        /\ \A y \in S : y[1] = z[1] /\ DateOf(y[2]) = e /\ y[2] < z[2] => z[2] - y[2] > p
    BY <1>5 DEF StartSet
  <2>2. ~(x[1] = z[1] /\ DateOf(x[2]) = e /\ x[2] < z[2])
    BY <1>2, <1>3, <2>1 DEF IsLatest
  <2> QED BY <1>4, <2>1, <2>2 DEF StartSet
<1>6. ASSUME NEW z \in StartSet(T, e, p) PROVE z \in StartSet(S, e, p) \/ (z = x /\ DateOf(a) = e)
  <2>1. /\ z \in T /\ DateOf(z[2]) = e
        /\ \A y \in T : y[1] = z[1] /\ DateOf(y[2]) = e /\ y[2] < z[2] => z[2] - y[2] > p
    BY <1>6 DEF StartSet
  <2>2. CASE z \in S
    <3>1. \A y \in S : y[1] = z[1] /\ DateOf(y[2]) = e /\ y[2] < z[2] => z[2] - y[2] > p
      BY <1>4, <2>1
    <3> QED BY <2>1, <2>2, <3>1 DEF StartSet
  <2>3. CASE z = x
    BY <1>2, <2>1, <2>3
  <2> QED BY <1>4, <2>1, <2>2, <2>3
<1> QED BY <1>1, <1>4, <1>5, <1>6

\* It begins a visit unless the pause before it was short.
LEMMA StartsSame ==
    ASSUME NEW n \in Nat, NEW S \in SUBSET (Visitors \X (0..n)), NEW v \in Visitors, NEW a \in 0..n,
           IsLatest(S, v, a), NEW p \in Int, NEW l, <<v, l>> \in S, DateOf(l) = DateOf(a), a - l <= p
    PROVE  StartSet(S \cup {<<v, a>>}, DateOf(a), p) = StartSet(S, DateOf(a), p)
<1>1. PICK x, y : x = <<v, a>> /\ y = <<v, l>>
  OBVIOUS
<1>2. x[1] = v /\ x[2] = a /\ y[1] = v /\ y[2] = l /\ y \in S
  BY <1>1
<1>3. l \in Int /\ a \in Int /\ l <= a
  BY <1>2 DEF IsLatest
<1>4. PICK d \in Dates : d = DateOf(a)
  BY DateType
<1>5. /\ StartSet(S, d, p) \subseteq StartSet(S \cup {x}, d, p)
      /\ StartSet(S \cup {x}, d, p) \subseteq StartSet(S, d, p) \cup {x}
  BY <1>1, StartsGrow
<1>6. CASE l = a
  <2>1. S \cup {x} = S
    BY <1>1, <1>2, <1>6
  <2> QED BY <1>1, <2>1
<1>7. CASE l # a
  <2>1. x \notin StartSet(S \cup {x}, d, p)
    BY <1>2, <1>3, <1>4, <1>7 DEF StartSet
  <2> QED BY <1>1, <1>4, <1>5, <2>1
<1> QED BY <1>6, <1>7

LEMMA StartsMore ==
    ASSUME NEW n \in Nat, NEW S \in SUBSET (Visitors \X (0..n)), NEW v \in Visitors, NEW a \in 0..n,
           NEW p \in Nat,
           \A y \in S : y[1] = v /\ DateOf(y[2]) = DateOf(a) => a - y[2] > p
    PROVE  /\ <<v, a>> \in StartSet(S \cup {<<v, a>>}, DateOf(a), p)
           /\ <<v, a>> \notin StartSet(S, DateOf(a), p)
<1>1. PICK x : x = <<v, a>>
  OBVIOUS
<1>2. x[1] = v /\ x[2] = a /\ a \in Int
  BY <1>1
<1>3. x \notin S
  <2>1. ASSUME x \in S PROVE FALSE
    <3>1. a - a > p
      BY <1>2, <2>1
    <3> QED BY <1>2, <3>1
  <2> QED BY <2>1
<1>4. \A y \in S : y[2] \in Int
  OBVIOUS
<1>5. x \in StartSet(S \cup {x}, DateOf(a), p)
  BY <1>2, <1>3, <1>4 DEF StartSet
<1> QED BY <1>1, <1>3, <1>5 DEF StartSet

-----------------------------------------------------------------------------
(* A view reaches the script. *)

LEMMA DatesMeet ==
    ASSUME NEW a \in Int, NEW b \in Int
    PROVE  /\ DateOf(a) = 2 <=> a >= Midnight
           /\ DateOf(a) = 1 <=> a < Midnight
           /\ DateOf(a) = 1 \/ DateOf(a) = 2
           /\ DateOf(a) = 1 /\ DateOf(b) = 2 => a < b
BY Numbers DEF DateOf

\* What is known of the hash it finds.
LEMMA FoundHash ==
    ASSUME ShapeInv, LastInv, NEW h, Recorded(h), NEW v, v = h.who
    PROVE  /\ v \in Visitors /\ h.at \in 0..now /\ now \in Nat /\ (h.at = now \/ h.at = now - 1)
           /\ sess[v].date \in {0, 1, 2} /\ sess[v].last \in 0..now
           /\ LastOf(v, seen, sess[v])
           /\ sess[v].date # 0 => \/ Stored(v) = sess[v]
                                  \/ Stored(v) = NoSession /\ now >= sess[v].last + Timeout
<1>1. v \in Visitors /\ h.at \in 0..now /\ now \in Nat /\ (h.at = now \/ h.at = now - 1)
  BY Rewritten, Numbers DEF Recorded
<1>2. sess[v] \in VisitsBy(now) /\ LastOf(v, seen, sess[v])
  BY <1>1 DEF ShapeInv, SessInv, LastInv
<1>3. sess[v].until \in Int /\ sess[v].last \in 0..now /\ sess[v].date \in {0, 1, 2}
  <2>1. PICK u : u = now + Timeout
    OBVIOUS
  <2>2. sess[v].until \in 0..u
    BY <1>2, <2>1 DEF VisitsBy
  <2> QED BY <1>2, <2>2 DEF VisitsBy, Dates
<1>4. sess[v].date # 0 => sess[v].until >= sess[v].last + Timeout
  BY <1>2 DEF LastOf
<1>5. sess[v].date # 0 => \/ Stored(v) = sess[v]
                          \/ Stored(v) = NoSession /\ now >= sess[v].last + Timeout
  BY <1>1, <1>3, <1>4, Numbers DEF Stored
<1> QED BY <1>1, <1>2, <1>3, <1>5

\* A late view of the first day is one of its last tick, in the first of the second.
LEMMA LateView ==
    ASSUME ShapeInv, LastInv, NEW h, Recorded(h), sess[h.who].date = 2, DateOf(h.at) = 1
    PROVE  /\ now = Midnight /\ h.at = now - 1 /\ sess[h.who].last = Midnight
           /\ Stored(h.who) = sess[h.who] /\ late' = late + 1
<1>1. PICK v : v = h.who
  OBVIOUS
<1>2. /\ v \in Visitors /\ h.at \in 0..now /\ now \in Nat /\ (h.at = now \/ h.at = now - 1)
      /\ sess[v].last \in 0..now /\ LastOf(v, seen, sess[v])
      /\ sess[v].date # 0 => \/ Stored(v) = sess[v]
                             \/ Stored(v) = NoSession /\ now >= sess[v].last + Timeout
  BY <1>1, FoundHash
<1>3. DateOf(sess[v].last) = 2
  BY <1>1, <1>2 DEF LastOf
<1>4. h.at < Midnight /\ sess[v].last >= Midnight
  BY <1>2, <1>3, DatesMeet
<1>5. now = Midnight /\ h.at = now - 1 /\ sess[v].last = Midnight
  BY <1>2, <1>4, Numbers
<1>6. Stored(v) = sess[v]
  BY <1>1, <1>2, <1>5, Numbers
<1>7. late' = late + 1
  BY <1>1, <1>6 DEF Recorded
<1> QED BY <1>1, <1>5, <1>6, <1>7

\* No view of its visitor and day was later.
LEMMA ViewIsLatest ==
    ASSUME ShapeInv, LastInv, NEW h, Recorded(h)
    PROVE  IsLatest(seen, h.who, h.at)
<1>1. PICK v, a : v = h.who /\ a = h.at
  OBVIOUS
<1>2. /\ v \in Visitors /\ a \in 0..now /\ now \in Nat /\ (a = now \/ a = now - 1)
      /\ sess[v].date \in {0, 1, 2} /\ sess[v].last \in 0..now
      /\ LastOf(v, seen, sess[v])
      /\ sess[v].date # 0 => \/ Stored(v) = sess[v]
                             \/ Stored(v) = NoSession /\ now >= sess[v].last + Timeout
  BY <1>1, FoundHash
<1>3. seen \subseteq Visitors \X (0..now)
  BY DEF LastInv
<1>4. SUFFICES ASSUME NEW y \in seen, y[1] = v, DateOf(y[2]) = DateOf(a) PROVE y[2] <= a
  BY <1>1 DEF IsLatest
<1>5. y[2] \in 0..now
  BY <1>3
<1>6. CASE sess[v].date = DateOf(a)
  <2>1. sess[v].date # 0 /\ y[2] <= sess[v].last
    BY <1>4, <1>6, DateType, <1>2 DEF LastOf, Dates
  <2>2. CASE Stored(v) = sess[v]
    <3>1. ~IsStale(h, sess[v])
      BY <1>1, <2>2 DEF Recorded
    <3>2. a >= sess[v].last
      BY <1>1, <1>2, <1>6, <3>1 DEF IsStale
    <3> QED BY <1>2, <1>5, <2>1, <3>2
  <2>3. CASE now >= sess[v].last + Timeout
    BY <1>2, <1>5, <2>1, <2>3, Numbers
  <2> QED BY <1>2, <2>1, <2>2, <2>3
<1>7. CASE sess[v].date = 0
  BY <1>2, <1>4, <1>7 DEF LastOf
<1>8. CASE sess[v].date = 1 /\ DateOf(a) = 2
  <2>1. y[2] = Midnight
    BY <1>2, <1>4, <1>8 DEF LastOf
  <2>2. a >= Midnight
    BY <1>2, <1>8, DatesMeet
  <2> QED BY <2>1, <2>2
<1>9. CASE sess[v].date = 2 /\ DateOf(a) = 1
  <2>1. now = Midnight /\ a = now - 1
    BY <1>1, <1>9, LateView
  <2>2. y[2] < Midnight
    BY <1>4, <1>5, <1>9, DatesMeet
  <2> QED BY <1>2, <1>5, <2>1, <2>2
<1>10. DateOf(a) = 1 \/ DateOf(a) = 2
  BY <1>2, DatesMeet
<1> QED BY <1>2, <1>6, <1>7, <1>8, <1>9, <1>10

\* The views of its visitor and day end a visit when its hash did not.
LEMMA PauseBefore ==
    ASSUME ShapeInv, LastInv, NEW h, Starting(h), sess[h.who].date = DateOf(h.at)
    PROVE  h.at - sess[h.who].last > Timeout - 2
<1>1. PICK v, a : v = h.who /\ a = h.at
  OBVIOUS
<1>2. /\ a \in 0..now /\ now \in Nat /\ (a = now \/ a = now - 1) /\ sess[v].last \in 0..now
      /\ sess[v].date # 0 => \/ Stored(v) = sess[v]
                             \/ Stored(v) = NoSession /\ now >= sess[v].last + Timeout
  BY <1>1, FoundHash DEF Starting
<1>3. sess[v].date # 0
  BY <1>1, DateType DEF Dates
<1>4. CASE Stored(v) = sess[v]
  <2>1. a - sess[v].last > Timeout
    BY <1>1, <1>4 DEF Starting, IsNew
  <2> QED BY <1>1, <1>2, <2>1, Numbers
<1>5. CASE now >= sess[v].last + Timeout
  BY <1>1, <1>2, <1>5, Numbers
<1> QED BY <1>2, <1>3, <1>4, <1>5

\* A later view follows the last one of its day soon.
LEMMA ViewFollows ==
    ASSUME ShapeInv, LastInv, NEW h, Following(h)
    PROVE  /\ sess[h.who].date = DateOf(h.at) /\ <<h.who, sess[h.who].last>> \in seen
           /\ DateOf(sess[h.who].last) = DateOf(h.at) /\ h.at - sess[h.who].last <= Timeout
<1>1. PICK v : v = h.who
  OBVIOUS
<1>2. h.at \in 0..now /\ now \in Nat /\ sess[v].last \in 0..now /\ LastOf(v, seen, sess[v])
  BY <1>1, FoundHash DEF Following
<1>3. ~IsNew(h, sess[v])
  BY <1>1 DEF Following
<1>4. sess[v].date = DateOf(h.at) /\ h.at - sess[v].last <= Timeout
  BY <1>2, <1>3, Numbers DEF IsNew
<1>5. sess[v].date # 0
  BY <1>4, DateType DEF Dates
<1> QED BY <1>1, <1>2, <1>4, <1>5 DEF LastOf

-----------------------------------------------------------------------------
(* The last view of every session. *)

LEMMA LastInit ==
    ASSUME Init
    PROVE  LastInv
<1>1. seen = {} /\ \A v \in Visitors : sess[v] = NoSession
  BY DEF Init
<1> QED BY <1>1, NoSessionIs DEF LastInv, LastOf

LEMMA LastStep ==
    ASSUME ShapeInv, LastInv, [Next]_vars
    PROVE  LastInv'
<1>0. now \in Nat /\ seen \subseteq Visitors \X (0..now)
  BY Numbers DEF ShapeInv, ClockInv, LastInv
<1>1. CASE Steady /\ (now' = now \/ now' = now + 1)
  <2>1. seen' = seen /\ sess' = sess
    BY <1>1 DEF Steady
  <2>2. 0..now \subseteq 0..now'
    BY <1>0, <1>1
  <2> QED BY <1>0, <2>1, <2>2 DEF LastInv
<1>2. ASSUME NEW h, Viewing(h)
      PROVE  LastInv'
  <2>1. Recorded(h) /\ now' = now
    BY <1>2 DEF Viewing, Starting, Following
  <2>2. PICK v, a : v = h.who /\ a = h.at
    OBVIOUS
  <2>3. PICK d \in Dates : d = DateOf(a)
    BY DateType
  <2>4. PICK x : x = <<v, a>>
    OBVIOUS
  <2>5. x[1] = v /\ x[2] = a
    BY <2>4
  <2>6. /\ v \in Visitors /\ a \in 0..now /\ sess[v].date \in {0, 1, 2}
        /\ LastOf(v, seen, sess[v])
    BY <2>1, <2>2, FoundHash
  <2>7. /\ sess'[v].date = d /\ sess'[v].date # 0 /\ sess'[v].last = a
        /\ sess'[v].until = now + Timeout
    BY <2>1, <2>2, <2>3, Rewritten
  <2>8. seen' = seen \cup {x} /\ \A u \in Visitors \ {v} : sess'[u] = sess[u]
    BY <2>1, <2>2, <2>4, RecordedShapes DEF Recorded, Moves
  <2>9. seen' \subseteq Visitors \X (0..now)
    BY <1>0, <2>4, <2>6, <2>8
  <2>10. ASSUME NEW u \in Visitors \ {v} PROVE LastOf(u, seen', sess'[u])
    <3>1. LastOf(u, seen, sess[u]) /\ sess'[u] = sess[u]
      BY <2>8 DEF LastInv
    <3>2. \A y \in seen' : y[1] = u => y \in seen
      BY <2>5, <2>8
    <3>3. seen \subseteq seen'
      BY <2>8
    <3> QED BY <3>1, <3>2, <3>3 DEF LastOf
  <2>11. LastOf(v, seen', sess'[v])
    <3>1. <<v, sess'[v].last>> \in seen' /\ DateOf(sess'[v].last) = sess'[v].date
      BY <2>3, <2>4, <2>7, <2>8
    <3>2. sess'[v].until >= sess'[v].last + Timeout
      BY <1>0, <2>6, <2>7, Numbers
    <3>3. ASSUME NEW y \in seen', y[1] = v, DateOf(y[2]) = sess'[v].date PROVE y[2] <= sess'[v].last
      <4>1. IsLatest(seen, v, a)
        BY <2>1, <2>2, ViewIsLatest
      <4>2. CASE y \in seen
        BY <2>3, <2>7, <3>3, <4>1, <4>2 DEF IsLatest
      <4>3. CASE y = x
        BY <2>5, <2>6, <2>7, <4>3
      <4> QED BY <2>8, <4>2, <4>3
    <3>4. ASSUME sess'[v].date = 1, NEW y \in seen', y[1] = v, DateOf(y[2]) = 2
          PROVE  y[2] = Midnight
      <4>0. DateOf(x[2]) = 1
        BY <2>3, <2>5, <2>7, <3>4
      <4>1. y \in seen
        BY <2>8, <3>4, <4>0
      <4>2. y[2] \in 0..now
        BY <1>0, <4>1
      <4>3. CASE sess[v].date = 0
        BY <2>6, <3>4, <4>1, <4>3 DEF LastOf
      <4>4. CASE sess[v].date = 1
        BY <2>6, <3>4, <4>1, <4>4 DEF LastOf
      <4>5. CASE sess[v].date = 2
        <5>1. now = Midnight
          BY <2>1, <2>2, <2>3, <2>7, <3>4, <4>5, LateView
        <5>2. y[2] >= Midnight
          BY <3>4, <4>2, DatesMeet
        <5> QED BY <1>0, <4>2, <5>1, <5>2
      <4> QED BY <2>6, <4>3, <4>4, <4>5
    <3> QED BY <2>7, <3>1, <3>2, <3>3, <3>4 DEF LastOf
  <2>12. \A u \in Visitors : LastOf(u, seen', sess'[u])
    BY <2>10, <2>11
  <2> QED BY <2>1, <2>9, <2>12 DEF LastInv
<1>3. CASE Losing /\ now' = now
  <2>1. seen' = {} /\ \A v \in Visitors : sess'[v] = NoSession
    BY <1>3 DEF Losing
  <2> QED BY <2>1, NoSessionIs DEF LastInv, LastOf
<1> QED BY <1>1, <1>2, <1>3, VisitCases

-----------------------------------------------------------------------------
(* A view and the number of visits. *)

LEMMA StartsFinite ==
    ASSUME NEW n \in Nat, NEW S \in SUBSET (Visitors \X (0..n)), NEW e, NEW p
    PROVE  IsFiniteSet(StartSet(S, e, p)) /\ Cardinality(StartSet(S, e, p)) \in Nat
<1>1. PICK I : I = 0..n
  OBVIOUS
<1>2. IsFiniteSet(I)
  BY <1>1, FS_Interval
<1>3. IsFiniteSet(Visitors \X I)
  BY <1>2, Finite, FS_Product
<1>4. StartSet(S, e, p) \subseteq Visitors \X I
  BY <1>1 DEF StartSet
<1> QED BY <1>3, <1>4, FiniteTurn

\* A view that is the last of its day begins at most one visit more, and one exactly when
\* it comes late enough.
StartsMove(S, R, v, a, e, p) ==
    /\ Cardinality(StartSet(S, e, p)) \in Nat /\ Cardinality(StartSet(R, e, p)) \in Nat
    /\ Cardinality(StartSet(S, e, p)) <= Cardinality(StartSet(R, e, p))
    /\ Cardinality(StartSet(R, e, p)) <= Cardinality(StartSet(S, e, p)) + 1
    /\ e # DateOf(a) => Cardinality(StartSet(R, e, p)) = Cardinality(StartSet(S, e, p))
    /\ e = DateOf(a) /\ (\A y \in S : y[1] = v /\ DateOf(y[2]) = DateOf(a) => a - y[2] > p)
         => Cardinality(StartSet(R, e, p)) = Cardinality(StartSet(S, e, p)) + 1

LEMMA StartsCount ==
    ASSUME NEW n \in Nat, NEW S \in SUBSET (Visitors \X (0..n)), NEW v \in Visitors, NEW a \in 0..n,
           IsLatest(S, v, a), NEW e \in Dates, NEW p \in Nat,
           NEW R, R = S \cup {<<v, a>>}
    PROVE  StartsMove(S, R, v, a, e, p)
<1>1. PICK x : x = <<v, a>>
  OBVIOUS
<1>2. PICK A : A = StartSet(S, e, p)
  OBVIOUS
<1>3. PICK B : B = StartSet(R, e, p)
  OBVIOUS
<1>4. A \subseteq B /\ B \subseteq A \cup {x} /\ (e # DateOf(a) => B = A)
  <2>1. p \in Int /\ R = S \cup {<<v, a>>}
    OBVIOUS
  <2>2. /\ StartSet(S, e, p) \subseteq StartSet(S \cup {<<v, a>>}, e, p)
        /\ StartSet(S \cup {<<v, a>>}, e, p) \subseteq StartSet(S, e, p) \cup {<<v, a>>}
        /\ e # DateOf(a) => StartSet(S \cup {<<v, a>>}, e, p) = StartSet(S, e, p)
    BY <2>1, StartsGrow
  <2> QED BY <1>1, <1>2, <1>3, <2>1, <2>2
<1>5. IsFiniteSet(A) /\ Cardinality(A) \in Nat
  BY <1>2, StartsFinite
<1>6. B = A \/ (B = A \cup {x} /\ x \notin A)
  BY <1>4
<1>7. /\ Cardinality(B) \in Nat
      /\ Cardinality(B) = IF B = A THEN Cardinality(A) ELSE Cardinality(A) + 1
  <2>1. CASE B = A
    BY <1>5, <2>1
  <2>2. CASE B # A
    BY <1>5, <1>6, <2>2, FiniteTurn
  <2> QED BY <2>1, <2>2
<1>8. ASSUME e = DateOf(a), \A y \in S : y[1] = v /\ DateOf(y[2]) = DateOf(a) => a - y[2] > p
      PROVE  B # A
  <2>1. x \in B /\ x \notin A
    BY <1>1, <1>2, <1>3, <1>8, StartsMore
  <2> QED BY <2>1
<1> QED BY <1>2, <1>3, <1>4, <1>5, <1>7, <1>8 DEF StartsMove

\* Who is owed a visit after the view.
LEMMA OwedMoves ==
    ASSUME ShapeInv, LastInv, NEW h, Recorded(h), now' = now, NEW v, v = h.who
    PROVE  /\ Owed(seen', sess') \subseteq Owed(seen, sess) \cup {v}
           /\ DateOf(h.at) = 2 => Owed(seen', sess') \subseteq Owed(seen, sess) \ {v}
           /\ DateOf(h.at) = 1 /\ sess[v].date # 2 => Owed(seen', sess') \subseteq Owed(seen, sess)
<1>1. PICK x : x = <<v, h.at>>
  OBVIOUS
<1>2. x[1] = v /\ x[2] = h.at
  BY <1>1
<1>3. seen' = seen \cup {x} /\ \A u \in Visitors \ {v} : sess'[u] = sess[u]
  <2>1. seen' = seen \cup {x}
    BY <1>1 DEF Recorded
  <2>2. Moves(sess, sess', v)
    BY RecordedShapes
  <2> QED BY <2>1, <2>2 DEF Moves
<1>4. /\ v \in Visitors /\ sess'[v].date = DateOf(h.at) /\ sess[v].date \in {0, 1, 2}
      /\ LastOf(v, seen, sess[v])
  BY Rewritten, FoundHash
<1>5. ASSUME NEW u \in Owed(seen', sess'), u # v PROVE u \in Owed(seen, sess)
  BY <1>2, <1>3, <1>5 DEF Owed
<1>6. ASSUME v \in Owed(seen', sess') PROVE DateOf(h.at) = 1 /\ \E y \in seen : y[1] = v /\ DateOf(y[2]) = 2
  <2>1. DateOf(h.at) = 1
    BY <1>4, <1>6 DEF Owed
  <2> QED BY <1>2, <1>3, <1>6, <2>1 DEF Owed
<1>7. ASSUME v \in Owed(seen', sess'), sess[v].date # 2 PROVE v \in Owed(seen, sess)
  <2>1. sess[v].date # 0
    BY <1>4, <1>6, <1>7 DEF LastOf
  <2> QED BY <1>4, <1>6, <1>7, <2>1 DEF Owed
<1> QED BY <1>5, <1>6, <1>7

\* A visit the hash begins is one the views begin, unless the view is late or follows one
\* that was.
LEMMA StartsCounted ==
    ASSUME ShapeInv, LastInv, NEW h, Starting(h), NEW v, v = h.who,
           sess[v].date # 2 \/ DateOf(h.at) # 1, v \notin Owed(seen, sess) \/ DateOf(h.at) # 2
    PROVE  \A y \in seen : y[1] = v /\ DateOf(y[2]) = DateOf(h.at) => h.at - y[2] > Timeout - 2
<1>1. /\ v \in Visitors /\ h.at \in 0..now /\ now \in Nat
      /\ sess[v].date \in {0, 1, 2} /\ sess[v].last \in 0..now /\ LastOf(v, seen, sess[v])
  BY FoundHash DEF Starting
<1>2. seen \subseteq Visitors \X (0..now)
  BY DEF LastInv
<1>3. SUFFICES ASSUME NEW y \in seen, y[1] = v, DateOf(y[2]) = DateOf(h.at)
               PROVE  h.at - y[2] > Timeout - 2
  OBVIOUS
<1>4. y[2] \in 0..now
  BY <1>2
<1>5. sess[v].date # 0
  BY <1>1, <1>3 DEF LastOf
<1>6. DateOf(h.at) = 1 \/ DateOf(h.at) = 2
  BY <1>1, DatesMeet
<1>7. CASE sess[v].date = DateOf(h.at)
  <2>1. h.at - sess[v].last > Timeout - 2
    BY <1>7, PauseBefore
  <2>2. y[2] <= sess[v].last
    BY <1>1, <1>3, <1>5, <1>7 DEF LastOf
  <2> QED BY <1>1, <1>4, <2>1, <2>2, Numbers
<1>8. CASE sess[v].date = 1 /\ DateOf(h.at) = 2
  BY <1>1, <1>3, <1>8 DEF Owed
<1> QED BY <1>1, <1>5, <1>6, <1>7, <1>8

-----------------------------------------------------------------------------
(* The visits counted stay between those of the views. *)

\* The parts of MatchInv.
AtLeast(S, y, d) == Cardinality(StartSet(S, d, Timeout)) <= y[d].sessions
AtMostFirst(S, y, n) == y[1].sessions <= Cardinality(StartSet(S, 1, Timeout - 2)) + n
AtMostSecond(S, y, s, n) ==
    y[2].sessions + Cardinality(Owed(S, s)) <= Cardinality(StartSet(S, 2, Timeout - 2)) + n

LEMMA MatchParts ==
    MatchInv <=> /\ late \in Nat /\ \A d \in Dates : AtLeast(seen, day, d)
                 /\ AtMostFirst(seen, day, late) /\ AtMostSecond(seen, day, sess, late)
BY DEF MatchInv, AtLeast, AtMostFirst, AtMostSecond

LEMMA OwedType ==
    \A S, s : Owed(S, s) \in SUBSET Visitors /\ Cardinality(Owed(S, s)) \in Nat
BY Finite DEF Owed

LEMMA MatchOfNone ==
    ASSUME NEW S, S = {}, NEW s, \A v \in Visitors : s[v] = NoSession,
           NEW y, \A d \in Dates : y[d] = EmptyDay
    PROVE  /\ \A d \in Dates : AtLeast(S, y, d)
           /\ AtMostFirst(S, y, 0) /\ AtMostSecond(S, y, s, 0)
<1>1. \A d, p : StartSet(S, d, p) = {}
  BY DEF StartSet
<1>2. Owed(S, s) = {}
  BY DEF Owed
<1>3. EmptyDay.sessions = 0 /\ Cardinality({}) = 0
  BY FS_EmptySet DEF EmptyDay
<1>4. y[1].sessions = 0 /\ y[2].sessions = 0 /\ \A d \in Dates : y[d].sessions = 0
  BY <1>3 DEF Dates
<1>5. \A d \in Dates : AtLeast(S, y, d)
  BY <1>1, <1>3, <1>4 DEF AtLeast
<1>6. AtMostFirst(S, y, 0)
  BY <1>1, <1>3, <1>4 DEF AtMostFirst
<1>7. AtMostSecond(S, y, s, 0)
  <2>1. StartSet(S, 2, Timeout - 2) = {}
    BY <1>1
  <2> QED BY <1>2, <1>3, <1>4, <2>1 DEF AtMostSecond
<1> QED BY <1>5, <1>6, <1>7


LEMMA SessionsOf ==
    ASSUME ShapeInv, NEW h, Starting(h) \/ Following(h)
    PROVE  /\ \A e \in Dates : day[e].sessions \in Int
           /\ \A e \in Dates : day'[e].sessions =
                IF e = DateOf(h.at) /\ Starting(h) THEN day[e].sessions + 1 ELSE day[e].sessions
<1>1. \A e \in Dates : day[e].sessions \in Int
  BY DEF ShapeInv, DayInv, DayShape
<1>2. ASSUME NEW e \in Dates, e # DateOf(h.at) PROVE day'[e] = day[e]
  BY <1>2 DEF Starting, Following, Recorded
<1>3. Starting(h) => day'[DateOf(h.at)].sessions = day[DateOf(h.at)].sessions + 1
  BY DEF Starting, OpenedParts
<1>4. ~Starting(h) => day'[DateOf(h.at)].sessions = day[DateOf(h.at)].sessions
  BY DEF Following, ContinuedParts
<1> QED BY <1>1, <1>2, <1>3, <1>4

LEMMA LateGrows ==
    ASSUME NEW h, Recorded(h), late \in Nat
    PROVE  late' \in Nat /\ late' >= late
BY DEF Recorded

LEMMA PauseType == Timeout \in Nat /\ Timeout - 2 \in Nat
BY Numbers

LEMMA ViewMoves ==
    ASSUME ShapeInv, LastInv, NEW h, Recorded(h), NEW e \in Dates, NEW p \in Nat
    PROVE  StartsMove(seen, seen', h.who, h.at, e, p)
<1>1. PICK v, a : v = h.who /\ a = h.at
  OBVIOUS
<1>2. PICK n \in Nat : n = now
  BY FoundHash
<1>3. v \in Visitors /\ a \in 0..n /\ IsLatest(seen, v, a) /\ seen \in SUBSET (Visitors \X (0..n))
  BY <1>1, <1>2, FoundHash, ViewIsLatest DEF LastInv
<1>4. PICK R : R = seen'
  OBVIOUS
<1>5. R = seen \cup {<<v, a>>}
  BY <1>1, <1>4 DEF Recorded
<1>6. StartsMove(seen, R, v, a, e, p)
  BY <1>3, <1>5, StartsCount
<1> QED BY <1>1, <1>4, <1>6

\* At least the visits that the views begin.
LEMMA AtLeastStep ==
    ASSUME ShapeInv, LastInv, NEW h, Starting(h) \/ Following(h), NEW d \in Dates,
           AtLeast(seen, day, d)
    PROVE  AtLeast(seen', day', d)
<1>1. Recorded(h)
  BY DEF Starting, Following
<1>2. StartsMove(seen, seen', h.who, h.at, d, Timeout)
  BY <1>1, ViewMoves, PauseType
<1>3. /\ day[d].sessions \in Int
      /\ day'[d].sessions =
           IF d = DateOf(h.at) /\ Starting(h) THEN day[d].sessions + 1 ELSE day[d].sessions
  BY SessionsOf
<1>4. CASE d # DateOf(h.at) \/ Starting(h)
  BY <1>2, <1>3, <1>4 DEF AtLeast, StartsMove
<1>5. CASE d = DateOf(h.at) /\ ~Starting(h)
  <2>1. Following(h)
    BY <1>5
  <2>2. PICK v, a, l : v = h.who /\ a = h.at /\ l = sess[v].last
    OBVIOUS
  <2>3. <<v, l>> \in seen /\ DateOf(l) = DateOf(a) /\ a - l <= Timeout
    BY <2>1, <2>2, ViewFollows
  <2>4. PICK n \in Nat : n = now
    BY <1>1, FoundHash
  <2>5. v \in Visitors /\ a \in 0..n /\ IsLatest(seen, v, a) /\ seen \in SUBSET (Visitors \X (0..n))
    BY <1>1, <2>2, <2>4, FoundHash, ViewIsLatest DEF LastInv
  <2>6. Timeout \in Int
    BY PauseType
  <2>7. StartSet(seen \cup {<<v, a>>}, DateOf(a), Timeout) = StartSet(seen, DateOf(a), Timeout)
    BY <2>3, <2>5, <2>6, StartsSame
  <2>8. StartSet(seen', d, Timeout) = StartSet(seen, d, Timeout)
    BY <1>1, <1>5, <2>2, <2>7 DEF Recorded
  <2> QED BY <1>3, <1>5, <2>8 DEF AtLeast
<1> QED BY <1>4, <1>5

\* At most those that the views begin after a shorter pause and the late views of the
\* first day.
LEMMA AtMostFirstStep ==
    ASSUME ShapeInv, LastInv, NEW h, Starting(h) \/ Following(h), late \in Nat,
           AtMostFirst(seen, day, late)
    PROVE  AtMostFirst(seen', day', late')
<1>1. Recorded(h) /\ late' \in Nat /\ late' >= late
  BY LateGrows DEF Starting, Following
<1>2. PICK p \in Nat : p = Timeout - 2
  BY PauseType
<1>3. PICK d \in Dates : d = 1
  BY DEF Dates
<1>4. StartsMove(seen, seen', h.who, h.at, d, p)
  BY <1>1, ViewMoves
<1>5. /\ day[d].sessions \in Int
      /\ day'[d].sessions =
           IF d = DateOf(h.at) /\ Starting(h) THEN day[d].sessions + 1 ELSE day[d].sessions
  BY SessionsOf
<1>6. day[d].sessions <= Cardinality(StartSet(seen, d, p)) + late
  BY <1>2, <1>3 DEF AtMostFirst
<1>7. day'[d].sessions <= Cardinality(StartSet(seen', d, p)) + late'
  <2>1. CASE d # DateOf(h.at) \/ ~Starting(h)
    BY <1>1, <1>4, <1>5, <1>6, <2>1 DEF StartsMove
  <2>2. CASE d = DateOf(h.at) /\ Starting(h) /\ sess[h.who].date = 2
    <3>1. late' = late + 1
      BY <1>1, <1>3, <2>2, LateView
    <3> QED BY <1>1, <1>4, <1>5, <1>6, <2>2, <3>1 DEF StartsMove
  <2>3. CASE d = DateOf(h.at) /\ Starting(h) /\ sess[h.who].date # 2
    <3>1. \A y \in seen : y[1] = h.who /\ DateOf(y[2]) = DateOf(h.at) => h.at - y[2] > p
      BY <1>2, <1>3, <2>3, StartsCounted
    <3>2. Cardinality(StartSet(seen', d, p)) = Cardinality(StartSet(seen, d, p)) + 1
      BY <1>4, <2>3, <3>1 DEF StartsMove
    <3> QED BY <1>1, <1>4, <1>5, <1>6, <2>3, <3>2 DEF StartsMove
  <2> QED BY <2>1, <2>2, <2>3
<1> QED BY <1>2, <1>3, <1>7 DEF AtMostFirst

\* And of the second: a visit that a late view of the first day cut is owed to it.
LEMMA AtMostSecondStep ==
    ASSUME ShapeInv, LastInv, NEW h, Starting(h) \/ Following(h), now' = now, late \in Nat,
           AtMostSecond(seen, day, sess, late)
    PROVE  AtMostSecond(seen', day', sess', late')
<1>1. Recorded(h) /\ late' \in Nat /\ late' >= late
  BY LateGrows DEF Starting, Following
<1>2. PICK p \in Nat : p = Timeout - 2
  BY PauseType
<1>3. PICK d \in Dates : d = 2
  BY DEF Dates
<1>4. StartsMove(seen, seen', h.who, h.at, d, p)
  BY <1>1, ViewMoves
<1>5. /\ day[d].sessions \in Int
      /\ day'[d].sessions =
           IF d = DateOf(h.at) /\ Starting(h) THEN day[d].sessions + 1 ELSE day[d].sessions
  BY SessionsOf
<1>6. PICK v : v = h.who
  OBVIOUS
<1>7. PICK A : A = Owed(seen, sess)
  OBVIOUS
<1>8. PICK B : B = Owed(seen', sess')
  OBVIOUS
<1>9. /\ B \subseteq A \cup {v}
      /\ DateOf(h.at) = 2 => B \subseteq A \ {v}
      /\ DateOf(h.at) = 1 /\ sess[v].date # 2 => B \subseteq A
  BY <1>1, <1>6, <1>7, <1>8, OwedMoves
<1>10. /\ v \in Visitors /\ A \in SUBSET Visitors /\ B \in SUBSET Visitors
       /\ Cardinality(A) \in Nat /\ Cardinality(B) \in Nat
       /\ DateOf(h.at) = 1 \/ DateOf(h.at) = 2
  BY <1>1, <1>6, <1>7, <1>8, OwedType, Rewritten DEF Dates
<1>11. day[d].sessions + Cardinality(A) <= Cardinality(StartSet(seen, d, p)) + late
  BY <1>2, <1>3, <1>7 DEF AtMostSecond
<1>12. day'[d].sessions + Cardinality(B) <= Cardinality(StartSet(seen', d, p)) + late'
  <2>1. CASE DateOf(h.at) = 1 /\ sess[v].date = 2
    <3>1. late' = late + 1
      BY <1>1, <1>6, <2>1, LateView
    <3>2. Cardinality(B) <= Cardinality(A) + 1
      <4>1. A \cup {v} \in SUBSET Visitors /\ B \in SUBSET (A \cup {v})
        BY <1>9, <1>10
      <4>2. Cardinality(B) <= Cardinality(A \cup {v})
        BY <4>1, FewerVisitors
      <4>3. Cardinality(A \cup {v}) \in Nat /\ Cardinality(A \cup {v}) <= Cardinality(A) + 1
        BY <1>10, OneMoreVisitor
      <4> QED BY <1>10, <4>2, <4>3
    <3>3. day'[d].sessions = day[d].sessions
      BY <1>3, <1>5, <2>1
    <3> QED BY <1>1, <1>4, <1>5, <1>10, <1>11, <3>1, <3>2, <3>3 DEF StartsMove
  <2>2. CASE DateOf(h.at) = 1 /\ sess[v].date # 2
    <3>1. Cardinality(B) <= Cardinality(A)
      BY <1>9, <1>10, <2>2, FewerVisitors
    <3>2. day'[d].sessions = day[d].sessions
      BY <1>3, <1>5, <2>2
    <3> QED BY <1>1, <1>4, <1>5, <1>10, <1>11, <3>1, <3>2 DEF StartsMove
  <2>3. CASE DateOf(h.at) = 2 /\ v \in A
    <3>1. Cardinality(B) <= Cardinality(A) - 1
      <4>1. A \ {v} \in SUBSET Visitors /\ B \in SUBSET (A \ {v})
        BY <1>9, <1>10, <2>3
      <4>2. Cardinality(B) <= Cardinality(A \ {v})
        BY <4>1, FewerVisitors
      <4>3. Cardinality(A \ {v}) = Cardinality(A) - 1
        BY <1>10, <2>3, OneVisitorLess
      <4> QED BY <4>2, <4>3
    <3>2. day'[d].sessions <= day[d].sessions + 1 /\ day'[d].sessions \in Int
      BY <1>5
    <3> QED BY <1>1, <1>4, <1>5, <1>10, <1>11, <3>1, <3>2 DEF StartsMove
  <2>4. CASE DateOf(h.at) = 2 /\ v \notin A
    <3>1. Cardinality(B) <= Cardinality(A)
      <4>1. B \in SUBSET A
        BY <1>9, <2>4
      <4> QED BY <1>10, <4>1, FewerVisitors
    <3>2. CASE Starting(h)
      <4>1. \A y \in seen : y[1] = h.who /\ DateOf(y[2]) = DateOf(h.at) => h.at - y[2] > p
        BY <1>2, <1>6, <1>7, <2>4, <3>2, StartsCounted
      <4>2. Cardinality(StartSet(seen', d, p)) = Cardinality(StartSet(seen, d, p)) + 1
        BY <1>3, <1>4, <2>4, <4>1 DEF StartsMove
      <4>3. day'[d].sessions = day[d].sessions + 1
        BY <1>3, <1>5, <2>4, <3>2
      <4> QED BY <1>1, <1>4, <1>5, <1>10, <1>11, <3>1, <4>2, <4>3 DEF StartsMove
    <3>3. CASE ~Starting(h)
      <4>1. day'[d].sessions = day[d].sessions
        BY <1>5, <3>3
      <4> QED BY <1>1, <1>4, <1>5, <1>10, <1>11, <3>1, <4>1 DEF StartsMove
    <3> QED BY <3>2, <3>3
  <2> QED BY <1>10, <2>1, <2>2, <2>3, <2>4
<1> QED BY <1>2, <1>3, <1>8, <1>12 DEF AtMostSecond

LEMMA MatchStep ==
    ASSUME ShapeInv, LastInv, MatchInv, [Next]_vars
    PROVE  MatchInv'
<1>1. /\ late \in Nat /\ \A d \in Dates : AtLeast(seen, day, d)
      /\ AtMostFirst(seen, day, late) /\ AtMostSecond(seen, day, sess, late)
  BY MatchParts
<1>2. SUFFICES /\ late' \in Nat /\ \A d \in Dates : AtLeast(seen', day', d)
               /\ AtMostFirst(seen', day', late') /\ AtMostSecond(seen', day', sess', late')
  BY DEF MatchInv, AtLeast, AtMostFirst, AtMostSecond
<1>3. CASE Steady
  <2>1. seen' = seen /\ sess' = sess /\ late' = late
    BY <1>3 DEF Steady
  <2>2. \A d \in Dates : day'[d].sessions = day[d].sessions
    BY <1>3 DEF Steady, SameVisits
  <2>3. day'[1].sessions = day[1].sessions /\ day'[2].sessions = day[2].sessions
    BY <2>2 DEF Dates
  <2> QED BY <1>1, <2>1, <2>2, <2>3 DEF AtLeast, AtMostFirst, AtMostSecond
<1>4. ASSUME NEW h, Viewing(h)
      PROVE  /\ late' \in Nat /\ \A d \in Dates : AtLeast(seen', day', d)
             /\ AtMostFirst(seen', day', late') /\ AtMostSecond(seen', day', sess', late')
  <2>1. Recorded(h) /\ now' = now /\ (Starting(h) \/ Following(h))
    BY <1>4 DEF Viewing, Starting, Following
  <2> QED BY <1>1, <2>1, LateGrows, AtLeastStep, AtMostFirstStep, AtMostSecondStep
<1>5. CASE Losing
  <2>1. /\ \A d \in Dates : day'[d] = EmptyDay
        /\ \A v \in Visitors : sess'[v] = NoSession
        /\ seen' = {} /\ late' = 0
    BY <1>5 DEF Losing
  <2> QED BY <2>1, MatchOfNone
<1> QED BY <1>3, <1>4, <1>5, VisitCases

LEMMA MatchInit ==
    ASSUME Init
    PROVE  MatchInv
<1>1. /\ seen = {} /\ late = 0 /\ \A v \in Visitors : sess[v] = NoSession
      /\ \A d \in Dates : day[d] = EmptyDay
  BY DEF Init
<1> QED BY <1>1, MatchOfNone, MatchParts

\* The script counts the visits one would count with all views of the day at hand: at
\* least those separated by more than the timeout, at most those separated by the timeout
\* less the tick a view may be on its way, and one per late view (SessionsMatchViews).
THEOREM VisitsMatch == Spec => []SessionsMatchViews
<1>1. Init => ShapeInv /\ LastInv /\ MatchInv
  BY ShapeInit, LastInit, MatchInit
<1>2. ShapeInv /\ LastInv /\ MatchInv /\ [Next]_vars => ShapeInv' /\ LastInv' /\ MatchInv'
  BY ShapeStep, LastStep, MatchStep
<1>3. ShapeInv /\ LastInv /\ MatchInv => SessionsMatchViews
  <2>1. SUFFICES ASSUME ShapeInv, LastInv, MatchInv PROVE SessionsMatchViews
    OBVIOUS
  <2>2. /\ late \in Nat /\ \A d \in Dates : AtLeast(seen, day, d)
        /\ AtMostFirst(seen, day, late) /\ AtMostSecond(seen, day, sess, late)
    BY <2>1, MatchParts
  <2>3. \A d, p : Starts(d, p) = StartSet(seen, d, p)
    BY DEF Starts, StartSet
  <2>4. ASSUME NEW d \in Dates
        PROVE  /\ Cardinality(Starts(d, Timeout)) <= day[d].sessions
               /\ day[d].sessions <= Cardinality(Starts(d, Timeout - 2)) + late
    <3>1. PICK n \in Nat : n = now
      BY <2>1, Numbers DEF ShapeInv, ClockInv
    <3>2. seen \in SUBSET (Visitors \X (0..n))
      BY <2>1, <3>1 DEF LastInv
    <3>3. /\ Cardinality(StartSet(seen, d, Timeout - 2)) \in Nat
          /\ Cardinality(Owed(seen, sess)) \in Nat /\ day[d].sessions \in Int
      BY <2>1, <3>2, StartsFinite, OwedType DEF ShapeInv, DayInv, DayShape
    <3>4. Cardinality(StartSet(seen, d, Timeout)) <= day[d].sessions
      BY <2>2 DEF AtLeast
    <3>5. day[d].sessions <= Cardinality(StartSet(seen, d, Timeout - 2)) + late
      <4>1. CASE d = 1
        BY <2>2, <4>1 DEF AtMostFirst
      <4>2. CASE d = 2
        BY <2>2, <3>3, <4>2 DEF AtMostSecond
      <4> QED BY <4>1, <4>2 DEF Dates
    <3> QED BY <2>3, <3>4, <3>5
  <2> QED BY <2>4 DEF SessionsMatchViews
<1> QED BY <1>1, <1>2, <1>3, PTL DEF Spec
=============================================================================
