----------------------------- MODULE RateLimit -----------------------------
(***************************************************************************)
(* The limiter of middleware.go for one client address: a counter in Redis *)
(* that all instances share (rateLimitScript) and, for an instance that    *)
(* gets no answer from Redis, a counter in its memory.                     *)
(***************************************************************************)
EXTENDS Integers, FiniteSets, FiniteSetsExt

CONSTANTS
    Instances,      \* processes of the API server
    Redis,          \* the shared counter, beside the instances' own
    Limit,          \* attempts let through per window
    Window          \* its length, in ticks

ASSUME RateAssumption ==
    /\ Limit \in Nat \ {0} /\ Window \in Nat \ {0}
    /\ Redis \notin Instances

VARIABLES
    clock,
    reached,        \* the instances that get answers from Redis
    shared,         \* the counter in Redis and the rest of its TTL
    local,          \* entries of each instance, with windowStart
    passed,         \* history: the attempts each counter let through, by their age
    emptied         \* history: the counters that were lost

rateVars == <<clock, reached, shared, local, passed, emptied>>

Ages == 0 .. Window - 1

NoEntry == [count |-> 0, since |-> 0]

RateInit ==
    /\ clock = 0 /\ reached = Instances
    /\ shared = [count |-> 0, left |-> 0]
    /\ local = [i \in Instances |-> NoEntry]
    /\ passed = [x \in Instances \cup {Redis} |-> [a \in Ages |-> 0]]
    /\ emptied = {}

-----------------------------------------------------------------------------
\* Mutant: every attempt opens a window of its own.
IncrFresh == [count |-> 1, left |-> Window]

\* rateLimitScript: the first INCR of a window sets its TTL.
Incr == IF shared.left = 0 THEN [count |-> 1, left |-> Window]
                           ELSE [shared EXCEPT !.count = @ + 1]

\* rateLimiter.allow without Redis.
Expired(entry) == entry.count = 0 \/ clock - entry.since >= Window

Entry(i) == IF Expired(local[i]) THEN [count |-> 1, since |-> clock]
            ELSE [local[i] EXCEPT !.count = Min({@ + 1, Limit})]

Noted(x, ok) == passed' = IF ok THEN [passed EXCEPT ![x][0] = @ + 1] ELSE passed

\* An attempt at instance i, with its answer. Without an answer of Redis the INCR
\* may have run all the same.
Allow(i, ok) ==
    \/ /\ i \in reached
       /\ shared' = Incr
       /\ ok = (Incr.count <= Limit)
       /\ Noted(Redis, ok) /\ UNCHANGED local
    \/ /\ i \notin reached
       /\ shared' \in {shared, Incr}
       /\ ok = (Expired(local[i]) \/ local[i].count < Limit)
       /\ local' = [local EXCEPT ![i] = Entry(i)]
       /\ Noted(i, ok)

\* Time passes: Redis expires the counter.
RateTick ==
    /\ clock' = clock + 1
    /\ shared' = IF shared.left <= 1 THEN [count |-> 0, left |-> 0]
                                     ELSE [shared EXCEPT !.left = @ - 1]
    /\ passed' = [x \in DOMAIN passed |->
                    [a \in Ages |-> IF a = 0 THEN 0 ELSE passed[x][a - 1]]]
    /\ UNCHANGED <<reached, local, emptied>>

Unreach(i) == /\ i \in reached /\ reached' = reached \ {i}
              /\ UNCHANGED <<clock, shared, local, passed, emptied>>

Reach(i) == /\ i \notin reached /\ reached' = reached \cup {i}
            /\ UNCHANGED <<clock, shared, local, passed, emptied>>

LoseShared == /\ shared' = [count |-> 0, left |-> 0] /\ emptied' = emptied \cup {Redis}
              /\ UNCHANGED <<clock, reached, local, passed>>

-----------------------------------------------------------------------------
\* A window begins with the first attempt after the last one ended, so that any
\* stretch of time as long as a window meets two of them at most, the first without
\* its beginning: whatever instances the attempts go to, each counter that was not
\* lost lets through less than twice the limit in it. Without Redis there is one
\* counter for each instance.
RateBounded ==
    \A x \in DOMAIN passed \ emptied :
        MapThenSumSet(LAMBDA a : passed[x][a], Ages) <= 2 * Limit - 1
=============================================================================
