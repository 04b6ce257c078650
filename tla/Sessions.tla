------------------------------ MODULE Sessions ------------------------------
(***************************************************************************)
(* How a page view enters the daily keys of Redis: analytics.go            *)
(* (trackRequestData, reserveExactVisitor) and the Lua script of           *)
(* sessions.go, for one project.                                           *)
(*                                                                         *)
(* A view takes the time of the application before it talks to Redis       *)
(* (`at`, which also names the day's keys), reserves its visitor in one    *)
(* round trip, and sends one pipeline: the counts first, the script last.  *)
(* Requests interleave between these, so views reach the script out of     *)
(* order and on the other side of midnight, where the one session hash a   *)
(* visitor has meets the keys of two days.                                 *)
(***************************************************************************)
EXTENDS Integers, FiniteSets, FiniteSetsExt, Functions, TLC

CONSTANTS
    Visitors,       \* visitor hashes
    Paths,          \* pages; websiteAttribution never gives an empty one
    Campaigns,      \* values of one segment dimension that may be empty
    NoCampaign,     \* the empty value
    Trackers,       \* requests in flight
    Timeout,        \* sessionTimeout, in ticks
    Midnight,       \* the first tick of the second day
    PageLimit,      \* sessionPageLimit
    FlowLimit,      \* sessionFlowLimit
    SegmentLimit,   \* maxDimensionValues * 4
    MaxVisitors,    \* maxDailyVisitors
    MaxTime,        \* bound: the last tick
    MaxViews,       \* bound: views begun
    MaxFaults       \* bound: losses of Redis and failed reservations

\* Hashes have 16 digits, and the names of pages and segments are cut to a length. A
\* view is in flight for less than two ticks, far less than a session lasts.
ASSUME SessionsAssumption ==
    /\ IsFiniteSet(Visitors) /\ IsFiniteSet(Paths) /\ IsFiniteSet(Campaigns)
    /\ Paths # {} /\ NoCampaign \notin Campaigns
    /\ Timeout \in Nat /\ Timeout >= 3
    /\ Midnight \in Nat /\ MaxTime \in Nat /\ MaxViews \in Nat /\ MaxFaults \in Nat
    /\ {PageLimit, FlowLimit, SegmentLimit, MaxVisitors} \subseteq Nat \ {0}

VARIABLES
    now,        \* the clock, of the application and of Redis
    hit,        \* the view each tracker is working on
    guard,      \* exact_visitors_guard of each day
    day,        \* the counters of each day
    sess,       \* the session hash of each visitor
    views, faults,
    \* history: the views the script counted, how many of them came after a
    \* view of the next day, the hashes that refused a field, and whether
    \* Redis lost data under a view in flight
    seen, late, capped, torn

vars == <<now, hit, guard, day, sess, views, faults, seen, late, capped, torn>>

Dates == {1, 2}
DateOf(t) == IF t < Midnight THEN 1 ELSE 2

Metrics == {"sessions", "bounces", "pageviews", "duration"}

-----------------------------------------------------------------------------
(* Redis hashes, as functions from the fields they have. *)

Empty == [f \in {} |-> 0]

Value(hash, f) == IF f \in DOMAIN hash THEN hash[f] ELSE 0

Refuses(hash, f, limit) == f \notin DOMAIN hash /\ Cardinality(DOMAIN hash) >= limit

CappedIncrement(hash, f, amount, limit) ==
    IF Refuses(hash, f, limit) THEN hash
    ELSE [e \in DOMAIN hash \cup {f} |-> IF e = f THEN Value(hash, f) + amount ELSE hash[e]]

\* A visit leaves page p: the field goes when it reaches 0.
Leave(exits, p) ==
    CASE Value(exits, p) = 0 -> exits
      [] Value(exits, p) = 1 -> Restrict(exits, DOMAIN exits \ {p})
      [] OTHER -> [exits EXCEPT ![p] = @ - 1]

\* Mutant: the empty value is counted like any other.
CountEmptyToo(segments, metric, c, amount) ==
    CappedIncrement(segments, <<metric, c>>, amount, SegmentLimit)

\* increment_segments for one dimension; an empty value counts nowhere.
CountSegment(segments, metric, c, amount) ==
    IF c = NoCampaign THEN segments
                      ELSE CappedIncrement(segments, <<metric, c>>, amount, SegmentLimit)

-----------------------------------------------------------------------------
EmptyDay == [pv |-> 0, uv |-> {}, sessions |-> 0, bounces |-> 0, duration |-> 0,
             pageviews |-> 0, entrances |-> Empty, exits |-> Empty, flows |-> Empty,
             segments |-> Empty]

NoSession == [date |-> 0, last |-> 0, path |-> CHOOSE p \in Paths : TRUE, pages |-> 0,
              campaign |-> NoCampaign, until |-> 0]

Idle == [stage |-> "idle", who |-> CHOOSE v \in Visitors : TRUE,
         path |-> CHOOSE p \in Paths : TRUE, campaign |-> NoCampaign, at |-> 0, exact |-> FALSE]

Init ==
    /\ now = 0 /\ views = 0 /\ faults = 0
    /\ hit = [k \in Trackers |-> Idle]
    /\ guard = [d \in Dates |-> {}]
    /\ day = [d \in Dates |-> EmptyDay]
    /\ sess = [v \in Visitors |-> NoSession]
    /\ seen = {} /\ late = 0 /\ capped = {} /\ torn = FALSE

-----------------------------------------------------------------------------
(* A page view. *)

Begin(k, v, p, c) ==
    /\ hit[k].stage = "idle" /\ views < MaxViews
    /\ views' = views + 1
    /\ hit' = [hit EXCEPT ![k] = [stage |-> "reserve", who |-> v, path |-> p, campaign |-> c,
                                  at |-> now, exact |-> FALSE]]
    /\ UNCHANGED <<now, guard, day, sess, faults, seen, late, capped, torn>>

\* Mutant: no limit.
AllowedAlways(v, d) == TRUE

\* reserveMemberScript: at most MaxVisitors are followed one by one.
Allowed(v, d) == v \in guard[d] \/ Cardinality(guard[d]) < MaxVisitors

Reserve(k) ==
    LET v == hit[k].who
        d == DateOf(hit[k].at)
        allowed == Allowed(v, d)
    IN /\ hit[k].stage = "reserve"
       /\ guard' = IF allowed THEN [guard EXCEPT ![d] = @ \cup {v}] ELSE guard
       /\ hit' = [hit EXCEPT ![k].stage = "count", ![k].exact = allowed]
       /\ UNCHANGED <<now, day, sess, views, faults, seen, late, capped, torn>>

\* The script fails: only the plain counts are kept.
ReserveFails(k) ==
    /\ hit[k].stage = "reserve" /\ faults < MaxFaults
    /\ faults' = faults + 1
    /\ hit' = [hit EXCEPT ![k].stage = "count", ![k].exact = FALSE]
    /\ UNCHANGED <<now, guard, day, sess, views, seen, late, capped, torn>>

\* The pipeline up to the session script: INCR pv and, for an exact visitor,
\* SADD uvset.
Count(k) ==
    LET d == DateOf(hit[k].at)
    IN /\ hit[k].stage = "count"
       /\ day' = [day EXCEPT ![d].pv = @ + 1,
                             ![d].uv = IF hit[k].exact THEN @ \cup {hit[k].who} ELSE @]
       /\ hit' = IF hit[k].exact THEN [hit EXCEPT ![k].stage = "session"]
                                 ELSE [hit EXCEPT ![k] = Idle]
       /\ UNCHANGED <<now, guard, sess, views, faults, seen, late, capped, torn>>

-----------------------------------------------------------------------------
(* updateSessionScript. *)

\* Mutant: the hash is kept for less than a session lasts.
StoredTooBriefly(v) == IF now < sess[v].until - 2 THEN sess[v] ELSE NoSession

\* The session hash, which EXPIRE removes Timeout after the last update.
Stored(v) == IF now < sess[v].until THEN sess[v] ELSE NoSession

IsStale(h, s) == s.date = DateOf(h.at) /\ h.at < s.last

\* Mutant: only a pause ends a visit, not midnight.
IsNewByPause(h, s) == s.date = 0 \/ h.at - s.last > Timeout

IsNew(h, s) == s.date # DateOf(h.at) \/ h.at - s.last > Timeout

OpenVisit(x, h) ==
    LET Segment(segments, metric) == CountSegment(segments, metric, h.campaign, 1)
    IN [x EXCEPT !.sessions = @ + 1, !.bounces = @ + 1, !.pageviews = @ + 1,
                 !.entrances = CappedIncrement(@, h.path, 1, PageLimit),
                 !.exits = CappedIncrement(@, h.path, 1, PageLimit),
                 !.segments = Segment(Segment(Segment(@, "sessions"), "bounces"), "pageviews")]

\* Mutant: every view counts in its own segment.
SegmentOfView(h, s) == h.campaign

\* The segments of a visit are those it began with (use_stored).
SegmentOf(h, s) == IF IsNew(h, s) THEN h.campaign ELSE s.campaign

\* Mutant: every later view takes a bounce away.
EndsBounceAgain(s) == s.pages >= 1

\* With its second view a visit is no bounce any more.
EndsBounce(s) == s.pages = 1

\* A later view of the visit s.
ContinueVisit(x, h, s) ==
    LET spent == IF h.at < s.last THEN 0 ELSE h.at - s.last
        Segment(segments, metric, n) == CountSegment(segments, metric, SegmentOf(h, s), n)
        longer == Segment(Segment(x.segments, "pageviews", 1), "duration", spent)
    IN [x EXCEPT !.duration = @ + spent, !.pageviews = @ + 1,
                 !.exits = CappedIncrement(Leave(@, s.path), h.path, 1, PageLimit),
                 !.flows = IF s.path = h.path THEN @
                           ELSE CappedIncrement(@, <<s.path, h.path>>, 1, FlowLimit),
                 !.segments = IF EndsBounce(s) THEN Segment(longer, "bounces", -1) ELSE longer,
                 !.bounces = IF EndsBounce(s) THEN @ - 1 ELSE @]

\* The hashes that refuse a field of view h (history).
Refusals(x, h, s) ==
    {name \in {"entrances", "exits", "flows"} :
        CASE name = "entrances" -> IsNew(h, s) /\ Refuses(x.entrances, h.path, PageLimit)
          [] name = "exits" -> Refuses(IF IsNew(h, s) THEN x.exits ELSE Leave(x.exits, s.path),
                                       h.path, PageLimit)
          [] name = "flows" -> /\ ~IsNew(h, s) /\ s.path # h.path
                               /\ Refuses(x.flows, <<s.path, h.path>>, FlowLimit)}

Update(k) ==
    LET h == hit[k]
        v == h.who
        d == DateOf(h.at)
        s == Stored(v)
        fresh == IsNew(h, s)
    IN /\ h.stage = "session"
       /\ hit' = [hit EXCEPT ![k] = Idle]
       /\ IF IsStale(h, s) THEN UNCHANGED <<day, sess, seen, late, capped>>
          ELSE /\ day' = [day EXCEPT ![d] = IF fresh THEN OpenVisit(@, h)
                                                     ELSE ContinueVisit(@, h, s)]
               /\ sess' = [sess EXCEPT ![v] =
                    [date |-> d, last |-> h.at, path |-> h.path, until |-> now + Timeout,
                     pages |-> IF fresh THEN 1 ELSE s.pages + 1,
                     campaign |-> SegmentOf(h, s)]]
               /\ seen' = seen \cup {<<v, h.at>>}
               /\ late' = IF s.date > d THEN late + 1 ELSE late
               /\ capped' = capped \cup Refusals(day[d], h, s)
       /\ UNCHANGED <<now, guard, views, faults, torn>>

\* The client goes, Redis refuses or the process stops: the rest of the view is
\* not counted.
Abandon(k) ==
    /\ hit[k].stage # "idle"
    /\ hit' = [hit EXCEPT ![k] = Idle]
    /\ UNCHANGED <<now, guard, day, sess, views, faults, seen, late, capped, torn>>

-----------------------------------------------------------------------------
Tick ==
    /\ now < MaxTime
    /\ \A k \in Trackers : hit[k].stage = "idle" \/ hit[k].at = now
    /\ now' = now + 1
    /\ UNCHANGED <<hit, guard, day, sess, views, faults, seen, late, capped, torn>>

\* Redis starts again empty.
LoseRedis ==
    /\ faults < MaxFaults
    /\ faults' = faults + 1
    /\ guard' = [d \in Dates |-> {}]
    /\ day' = [d \in Dates |-> EmptyDay]
    /\ sess' = [v \in Visitors |-> NoSession]
    /\ seen' = {} /\ late' = 0 /\ capped' = {}
    /\ torn' = (torn \/ \E k \in Trackers : hit[k].stage # "idle")
    /\ UNCHANGED <<now, hit, views>>

Track ==
    \E k \in Trackers :
        \/ \E v \in Visitors, p \in Paths, c \in Campaigns \cup {NoCampaign} : Begin(k, v, p, c)
        \/ Reserve(k) \/ ReserveFails(k) \/ Count(k) \/ Update(k) \/ Abandon(k)

Next == Track \/ Tick \/ LoseRedis

Spec == Init /\ [][Next]_vars

-----------------------------------------------------------------------------
(* Properties. *)

Session == [date : Dates \cup {0}, last : 0..MaxTime, path : Paths, pages : 0..MaxViews,
            campaign : Campaigns \cup {NoCampaign}, until : 0..MaxTime + Timeout]

\* Every variable keeps its shape: counters are numbers, and the hashes of a day
\* have only the fields a view can give them.
TypeOK ==
    /\ now \in 0..MaxTime /\ views \in 0..MaxViews /\ faults \in 0..MaxFaults
    /\ \A k \in Trackers : hit[k].stage \in {"idle", "reserve", "count", "session"}
    /\ sess \in [Visitors -> Session]
    /\ \A d \in Dates :
        /\ guard[d] \subseteq Visitors /\ day[d].uv \subseteq Visitors
        /\ DOMAIN day[d].entrances \subseteq Paths /\ DOMAIN day[d].exits \subseteq Paths
        /\ DOMAIN day[d].flows \subseteq Paths \X Paths
        /\ DOMAIN day[d].segments \subseteq Metrics \X Campaigns

Total(hash) == MapThenSumSet(LAMBDA f : hash[f], DOMAIN hash)

\* The figures of a session report make sense together.
QualityMakesSense(x) ==
    /\ 0 <= x.bounces /\ x.bounces <= x.sessions
    /\ 2 * x.sessions - x.bounces <= x.pageviews
    /\ 0 <= x.duration /\ x.duration <= Timeout * (x.pageviews - x.sessions)
    /\ Total(x.entrances) <= x.sessions
    /\ Total(x.exits) <= x.sessions

\* On every day, at any moment a report may read Redis, a visit is a bounce or
\* has two views, a pause within a visit is not longer than the timeout, every
\* page view of a visit is one of the pages viewed (unless Redis lost data while
\* a view was in flight), and a visit has at most one entry and one exit page.
QualityConsistent ==
    \A d \in Dates : /\ QualityMakesSense(day[d])
                     /\ torn \/ day[d].pageviews <= day[d].pv

\* Who enters a page, from outside or from another page, leaves it or ends there:
\* entry pages, exit pages and flows describe the same visits, also when a late
\* view of yesterday cuts a visit of today in two, unless a hash was full.
FlowConserved ==
    \A d \in Dates : capped = {} =>
        \A p \in Paths :
            LET x == day[d]
                inflow == {f \in DOMAIN x.flows : f[2] = p}
                outflow == {f \in DOMAIN x.flows : f[1] = p}
            IN Value(x.entrances, p) + Total(Restrict(x.flows, inflow))
                 = Value(x.exits, p) + Total(Restrict(x.flows, outflow))

\* First touch: a visit counts in the segment it began with to its end. No segment
\* has more bounces than visits, or visits of two views with one view only, and
\* the segments together do not exceed the whole day.
SegmentsConsistent ==
    \A d \in Dates :
        LET x == day[d]
            Seg(metric, c) == Value(x.segments, <<metric, c>>)
            Sum(metric) == Total([c \in Campaigns |-> Seg(metric, c)])
        IN /\ \A c \in Campaigns :
                /\ 0 <= Seg("bounces", c) /\ Seg("bounces", c) <= Seg("sessions", c)
                /\ \/ Cardinality(DOMAIN x.segments) >= SegmentLimit
                   \/ 2 * Seg("sessions", c) - Seg("bounces", c) <= Seg("pageviews", c)
           /\ Sum("sessions") <= x.sessions /\ Sum("bounces") <= x.bounces
           /\ Sum("pageviews") <= x.pageviews /\ Sum("duration") <= x.duration

\* The views of day d that begin a visit when a pause of more than `pause` ends one.
Starts(d, pause) ==
    {x \in seen : /\ DateOf(x[2]) = d
                  /\ \A y \in seen : /\ y[1] = x[1] /\ DateOf(y[2]) = d /\ y[2] < x[2]
                                     => x[2] - y[2] > pause}

\* The script, which sees one view at a time and one hash that expires on its own
\* clock, counts the visits one would count with all views of the day at hand: at
\* least those separated by more than the timeout, at most those separated by the
\* timeout less the tick a view may be on its way (the hash may expire meanwhile),
\* plus one per view that came after a view of the next day.
SessionsMatchViews ==
    \A d \in Dates : /\ Cardinality(Starts(d, Timeout)) <= day[d].sessions
                     /\ day[d].sessions <= Cardinality(Starts(d, Timeout - 2)) + late

\* However requests interleave, no day follows more visitors than configured, and
\* a visit is one of a visitor that was counted.
VisitorsBounded ==
    torn \/ \A d \in Dates :
        /\ Cardinality(day[d].uv) <= MaxVisitors
        /\ \A v \in Visitors : Stored(v).date = d => v \in day[d].uv
=============================================================================
