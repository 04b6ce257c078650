------------------------------- MODULE Counter -------------------------------
(***************************************************************************)
(* The cumulative counters of svgstat: the counters and badges a visitor   *)
(* sees, kept in Redis under a sliding TTL (internal/counter/counter.go)   *)
(* and made durable by the flush worker's flushCounters                    *)
(* (internal/worker/worker.go).                                            *)
(*                                                                         *)
(* One project is modelled.  Every Redis command and every SQL statement   *)
(* is one step, because each is atomic on its server and nothing makes two *)
(* of them atomic together; the Lua scripts are one step each, as Redis    *)
(* runs them.  Time advances in ticks of a third of the default key TTL    *)
(* (72h): see Tick for what is assumed of a tick.                          *)
(***************************************************************************)
EXTENDS Integers, FiniteSets

CONSTANTS
    Names,      \* counter names of the project
    Reqs,       \* HTTP requests the API serves at the same time
    Workers,    \* flush rounds that may overlap (the API worker, cmd/sync)
    KeyTTL,     \* keyTTL, in ticks
    MaxHits,    \* bound: increments begun per counter name
    Faults,     \* the kinds of fault injected, of "load", "upsert", "redis"
    MaxFaults   \* bound: faults injected

ASSUME CounterAssumption ==
    /\ Names # {}
    /\ KeyTTL \in Nat /\ KeyTTL >= 3
    /\ MaxHits \in Nat /\ MaxFaults \in Nat

VARIABLES
    cnt,        \* the value of project:<id>:counter:<name>, 0 when absent
    ttl,        \* that key's remaining TTL, 0 when it is absent
    reg,        \* project:<id>:counters, the registry set
    pg,         \* project_counters.value, 0 when there is no row
    req,        \* the requests in flight
    wk,         \* the flush rounds in flight
    flushed,    \* a whole round began and ended without error in this tick
    served,     \* history: the numbers the increments of a name returned
    hits,       \* history: how often INCR ran on a name
    lapsed,     \* history: names whose unflushed increments a fault cost
    faults      \* history: faults injected so far

vars == <<cnt, ttl, reg, pg, req, wk, flushed, served, hits, lapsed, faults>>

-----------------------------------------------------------------------------
(***************************************************************************)
(* stage: the command the request runs next ("idle": no request).          *)
(* val:   the number read from PostgreSQL, then the number to be returned. *)
(* floor: some number already served when the request began, for a Get.    *)
(* old:   the request was already running at the last tick.                *)
(***************************************************************************)
Stages == {"idle", "script", "get", "load", "setnx", "incr", "sadd", "reply"}
Request ==
    [stage: Stages, op: {"Increment", "Get"}, name: Names,
     val: Nat, floor: Nat, old: BOOLEAN]

(***************************************************************************)
(* todo:  the names of the SMEMBERS answer still to be handled.            *)
(* seen:  the GET answers; 0 stands for nil, a live counter is at least 1. *)
(* fresh: the round began in this tick and has met no error.               *)
(***************************************************************************)
Round ==
    [stage: {"idle", "get", "write"}, todo: SUBSET Names,
     seen: [Names -> Nat], fresh: BOOLEAN]

NoValues == [n \in Names |-> 0]
IdleRequest == [stage |-> "idle", op |-> "Get", name |-> CHOOSE n \in Names : TRUE,
                val |-> 0, floor |-> 0, old |-> FALSE]
IdleRound == [stage |-> "idle", todo |-> {}, seen |-> NoValues, fresh |-> FALSE]

Live(n) == ttl[n] > 0
InFlight(n) == {r \in Reqs : req[r].stage # "idle" /\ req[r].name = n}

\* The request's INCR has run and its number is not returned yet.
Issued(r) == req[r].op = "Increment" /\ req[r].stage \in {"sadd", "reply"}

\* Increments of n begun whose INCR has not run.
Waiting(n) == {r \in InFlight(n) : req[r].op = "Increment" /\ ~Issued(r)}

Init ==
    /\ cnt = NoValues
    /\ ttl = NoValues
    /\ reg = {}
    /\ pg = NoValues
    /\ req = [r \in Reqs |-> IdleRequest]
    /\ wk = [w \in Workers |-> IdleRound]
    /\ flushed = FALSE
    /\ served = [n \in Names |-> {}]
    /\ hits = NoValues
    /\ lapsed = {}
    /\ faults = 0

-----------------------------------------------------------------------------
(* The commands, and below each the plausible bugs the checks must notice. *)

\* SETNX: an existing key keeps its value.
SetPlain(n, v) == v
SetAdding(n, v) == cnt[n] + v
SetNX(n, v) == IF Live(n) THEN cnt[n] ELSE v

\* PEXPIRE was set on an earlier command; SETNX gives a TTL to a new key only.
SetNXTTL(n) == IF Live(n) THEN ttl[n] ELSE KeyTTL

\* SADD to the registry.
NoSAdd(n) == reg
SAdd(n) == reg \union {n}

\* pruneCounterScript: SREM unless the key is back.
PruneBlindly(n) == reg \ {n}
Prune(n) == IF Live(n) THEN reg ELSE reg \ {n}

\* UpsertCounter: GREATEST(project_counters.value, EXCLUDED.value).
UpsertLast(n, v) == v
UpsertCounter(n, v) == IF v > pg[n] THEN v ELSE pg[n]

\* GetCounter: the stored value, 0 without a row.
GetNothing(n) == 0
GetCounter(n) == pg[n]

\* The TTL of a key after a tick.
AgedBelowZero(n) == ttl[n] - 1
Aged(n) == IF Live(n) THEN ttl[n] - 1 ELSE 0

-----------------------------------------------------------------------------
(* Requests: Increment and IncrementWithAnalytics (incr, then SADD), Get.  *)

\* The request's next command is s.
At(r, s) == req[r].stage = s
Goto(r, s) == req' = [req EXCEPT ![r].stage = s]
GotoWith(r, s, v) == req' = [req EXCEPT ![r] = [@ EXCEPT !.stage = s, !.val = v]]

Begin(r, n, op) ==
    /\ At(r, "idle")
    /\ op = "Increment" => hits[n] + Cardinality(Waiting(n)) < MaxHits
    /\ \E f \in IF served[n] = {} THEN {0} ELSE served[n] :
         req' = [req EXCEPT ![r] =
                   [stage |-> IF op = "Get" THEN "get" ELSE "script", op |-> op,
                    name |-> n, val |-> 0, floor |-> IF op = "Get" THEN f ELSE 0,
                    old |-> FALSE]]
    /\ UNCHANGED <<cnt, ttl, reg, pg, wk, flushed, served, hits, lapsed, faults>>

\* INCR and PEXPIRE on key n for request r.
Incr(r, n) ==
    /\ cnt' = [cnt EXCEPT ![n] = @ + 1]
    /\ ttl' = [ttl EXCEPT ![n] = KeyTTL]
    /\ hits' = [hits EXCEPT ![n] = @ + 1]
    /\ GotoWith(r, "sadd", cnt[n] + 1)

\* incrExistingScript: increments a key that exists, else answers nil.
IncrExisting(r) ==
    /\ At(r, "script")
    /\ LET n == req[r].name IN
         IF Live(n) THEN Incr(r, n)
         ELSE Goto(r, "load") /\ UNCHANGED <<cnt, ttl, hits>>
    /\ UNCHANGED <<reg, pg, wk, flushed, served, lapsed, faults>>

\* Get's GET: a live key answers the request, a missing one is loaded.
GetKey(r) ==
    /\ At(r, "get")
    /\ LET n == req[r].name IN
         IF Live(n) THEN GotoWith(r, "reply", cnt[n]) ELSE Goto(r, "load")
    /\ UNCHANGED <<cnt, ttl, reg, pg, wk, flushed, served, hits, lapsed, faults>>

\* GetCounter answered: only a positive value is stored in Redis; without
\* one an increment goes on to INCR and a Get returns 0.
Load(r) ==
    /\ At(r, "load")
    /\ LET v == GetCounter(req[r].name) IN
         \/ v > 0 /\ GotoWith(r, "setnx", v)
         \/ v = 0 /\ req[r].op = "Increment" /\ Goto(r, "incr")
         \/ v = 0 /\ req[r].op = "Get" /\ GotoWith(r, "reply", 0)
    /\ UNCHANGED <<cnt, ttl, reg, pg, wk, flushed, served, hits, lapsed, faults>>

\* A fault of the given kind happens, and costs the names in ns their
\* unflushed increments.
Fault(kind, ns) ==
    /\ kind \in Faults
    /\ faults < MaxFaults
    /\ faults' = faults + 1
    /\ lapsed' = lapsed \union ns

\* GetCounter failed.  loadFromDB only logs it and the increment goes on to
\* INCR, so the name lapses if PostgreSQL has a value; Get returns 0 and no
\* error.  Its floor is lowered: nothing is promised of such an answer.
LoadFails(r) ==
    /\ At(r, "load")
    /\ LET n == req[r].name IN
         \/ /\ req[r].op = "Increment"
            /\ Fault("load", IF pg[n] > 0 THEN {n} ELSE {})
            /\ Goto(r, "incr")
         \/ /\ req[r].op = "Get"
            /\ Fault("load", {})
            /\ req' = [req EXCEPT ![r] = [@ EXCEPT !.stage = "reply", !.val = 0, !.floor = 0]]
    /\ UNCHANGED <<cnt, ttl, reg, pg, wk, flushed, served, hits>>

\* SETNX of the loaded value.
Seed(r) ==
    /\ At(r, "setnx")
    /\ LET n == req[r].name IN
         /\ cnt' = [cnt EXCEPT ![n] = SetNX(n, req[r].val)]
         /\ ttl' = [ttl EXCEPT ![n] = SetNXTTL(n)]
    /\ Goto(r, IF req[r].op = "Get" THEN "sadd" ELSE "incr")
    /\ UNCHANGED <<reg, pg, wk, flushed, served, hits, lapsed, faults>>

\* The SETNX failed, and nobody notices: an increment goes on to INCR, so the
\* name lapses unless another request has seeded it.
SeedFails(r) ==
    /\ At(r, "setnx")
    /\ LET n == req[r].name IN
         Fault("load", IF req[r].op = "Increment" /\ ~Live(n) THEN {n} ELSE {})
    /\ Goto(r, IF req[r].op = "Get" THEN "sadd" ELSE "incr")
    /\ UNCHANGED <<cnt, ttl, reg, pg, wk, flushed, served, hits>>

\* The INCR, PEXPIRE pipeline after a load.
IncrLoaded(r) ==
    /\ At(r, "incr")
    /\ Incr(r, req[r].name)
    /\ UNCHANGED <<reg, pg, wk, flushed, served, lapsed, faults>>

\* SADD of the name to the registry.
Register(r) ==
    /\ At(r, "sadd")
    /\ reg' = SAdd(req[r].name)
    /\ Goto(r, "reply")
    /\ UNCHANGED <<cnt, ttl, pg, wk, flushed, served, hits, lapsed, faults>>

\* Get ignores that its SADD failed.
RegisterFails(r) ==
    /\ At(r, "sadd") /\ req[r].op = "Get"
    /\ Fault("load", {})
    /\ Goto(r, "reply")
    /\ UNCHANGED <<cnt, ttl, reg, pg, wk, flushed, served, hits>>

\* The number is rendered and sent.
Reply(r) ==
    /\ At(r, "reply")
    /\ served' = IF req[r].op = "Get" THEN served
                 ELSE [served EXCEPT ![req[r].name] = @ \union {req[r].val}]
    /\ req' = [req EXCEPT ![r] = IdleRequest]
    /\ UNCHANGED <<cnt, ttl, reg, pg, wk, flushed, hits, lapsed, faults>>

\* The request ends without an answer: a Redis error on its next command, a
\* client that went away (its context is cancelled), or an API process that
\* stopped.  What it has done so far stays done.
Abandon(r) ==
    /\ req[r].stage \in {"script", "get", "load", "setnx", "incr", "sadd"}
    /\ req' = [req EXCEPT ![r] = IdleRequest]
    /\ UNCHANGED <<cnt, ttl, reg, pg, wk, flushed, served, hits, lapsed, faults>>

-----------------------------------------------------------------------------
(* Flush rounds: flushCounters. *)

\* SMEMBERS of the registry.
BeginRound(w) ==
    /\ wk[w].stage = "idle"
    /\ wk' = [wk EXCEPT ![w] = [stage |-> "get", todo |-> reg,
                                seen |-> NoValues, fresh |-> TRUE]]
    /\ UNCHANGED <<cnt, ttl, reg, pg, req, flushed, served, hits, lapsed, faults>>

\* The pipelined GETs.  Names are independent of each other, so reading them
\* in one step loses no interleaving.
ReadValues(w) ==
    /\ wk[w].stage = "get"
    /\ LET answers == [n \in Names |-> IF n \in wk[w].todo THEN cnt[n] ELSE 0]
       IN  wk' = [wk EXCEPT ![w] = [@ EXCEPT !.stage = "write", !.seen = answers]]
    /\ UNCHANGED <<cnt, ttl, reg, pg, req, flushed, served, hits, lapsed, faults>>

\* The round is done with name n.
Handled(w, n) == wk' = [wk EXCEPT ![w].todo = @ \ {n}]

\* A name without a key is pruned.
PruneName(w, n) ==
    /\ wk[w].stage = "write" /\ n \in wk[w].todo
    /\ wk[w].seen[n] = 0
    /\ reg' = Prune(n)
    /\ Handled(w, n)
    /\ UNCHANGED <<cnt, ttl, pg, req, flushed, served, hits, lapsed, faults>>

\* A name with a value is written to PostgreSQL.
PersistName(w, n) ==
    /\ wk[w].stage = "write" /\ n \in wk[w].todo
    /\ wk[w].seen[n] > 0
    /\ pg' = [pg EXCEPT ![n] = UpsertCounter(n, wk[w].seen[n])]
    /\ Handled(w, n)
    /\ UNCHANGED <<cnt, ttl, reg, req, flushed, served, hits, lapsed, faults>>

\* The upsert failed: logged, and the round goes on with the next name.
PersistFails(w, n) ==
    /\ wk[w].stage = "write" /\ n \in wk[w].todo
    /\ wk[w].seen[n] > 0
    /\ Fault("upsert", {})
    /\ wk' = [wk EXCEPT ![w] = [wk[w] EXCEPT !.todo = @ \ {n}, !.fresh = FALSE]]
    /\ UNCHANGED <<cnt, ttl, reg, pg, req, flushed, served, hits>>

EndRound(w) ==
    /\ wk[w].stage = "write" /\ wk[w].todo = {}
    /\ flushed' = (flushed \/ wk[w].fresh)
    /\ wk' = [wk EXCEPT ![w] = IdleRound]
    /\ UNCHANGED <<cnt, ttl, reg, pg, req, served, hits, lapsed, faults>>

\* The round stops half-way: a Redis error on SMEMBERS or GET, or its
\* process stopped.
AbortRound(w) ==
    /\ wk[w].stage # "idle"
    /\ Fault("upsert", {})
    /\ wk' = [wk EXCEPT ![w] = IdleRound]
    /\ UNCHANGED <<cnt, ttl, reg, pg, req, flushed, served, hits>>

-----------------------------------------------------------------------------
(* The environment. *)

(***************************************************************************)
(* A tick: a third of keyTTL passes and keys whose TTL ran out disappear.  *)
(* "The worker flushes well within keyTTL": at least one whole round ran   *)
(* without error since the last tick.  A request runs for seconds, so none *)
(* is running at two ticks in a row.  A round may be of any age.           *)
(***************************************************************************)
Tick ==
    /\ flushed
    /\ \A r \in Reqs : ~At(r, "idle") => ~req[r].old
    /\ ttl' = [n \in Names |-> Aged(n)]
    /\ cnt' = [n \in Names |-> IF Aged(n) > 0 THEN cnt[n] ELSE 0]
    /\ req' = [r \in Reqs |-> [req[r] EXCEPT !.old = ~At(r, "idle")]]
    /\ wk' = [w \in Workers |-> [wk[w] EXCEPT !.fresh = FALSE]]
    /\ flushed' = FALSE
    /\ UNCHANGED <<reg, pg, served, hits, lapsed, faults>>

\* Redis restarts empty.  A name lapses unless all its increments are in
\* PostgreSQL and no request is at work on it.
LoseRedis ==
    /\ Fault("redis", {n \in Names : cnt[n] > pg[n] \/ InFlight(n) # {}})
    /\ cnt' = NoValues
    /\ ttl' = NoValues
    /\ reg' = {}
    /\ UNCHANGED <<pg, req, wk, flushed, served, hits>>

-----------------------------------------------------------------------------
RequestStep(r) ==
    \/ \E n \in Names, op \in {"Increment", "Get"} : Begin(r, n, op)
    \/ IncrExisting(r)
    \/ GetKey(r)
    \/ Load(r)
    \/ LoadFails(r)
    \/ Seed(r)
    \/ SeedFails(r)
    \/ IncrLoaded(r)
    \/ Register(r)
    \/ RegisterFails(r)
    \/ Reply(r)
    \/ Abandon(r)

RoundStep(w) ==
    \/ BeginRound(w)
    \/ ReadValues(w)
    \/ \E n \in Names : PruneName(w, n) \/ PersistName(w, n)
    \/ EndRound(w)

RoundFault(w) ==
    \/ \E n \in Names : PersistFails(w, n)
    \/ AbortRound(w)

Next ==
    \/ \E r \in Reqs : RequestStep(r)
    \/ \E w \in Workers : RoundStep(w) \/ RoundFault(w)
    \/ Tick
    \/ LoseRedis

\* Only the worker is fair: its ticker starts round after round, and a round
\* that started goes on.  No visitor has to come and no request to finish.
Fairness == \A w \in Workers : WF_vars(RoundStep(w))

Spec == Init /\ [][Next]_vars /\ Fairness

-----------------------------------------------------------------------------
(* Properties. *)

TypeOK ==
    /\ cnt \in [Names -> Nat]
    /\ ttl \in [Names -> 0..KeyTTL]
    /\ reg \subseteq Names
    /\ pg \in [Names -> Nat]
    /\ req \in [Reqs -> Request]
    /\ wk \in [Workers -> Round]
    /\ flushed \in BOOLEAN
    /\ served \in [Names -> SUBSET Nat]
    /\ hits \in [Names -> Nat]
    /\ lapsed \subseteq Names
    /\ faults \in 0..MaxFaults

\* A number shown to a visitor is never lost: PostgreSQL has it, or a live
\* key holds it and the registry names that key, so the next flush round
\* finds it.  This is what the order INCR, SADD of counter.go and the
\* conditional prune of the worker are for.
ServedIsKept ==
    \A n \in Names \ lapsed : \A v \in served[n] :
        \/ pg[n] >= v
        \/ Live(n) /\ cnt[n] >= v /\ n \in reg

\* Each increment gets a number of its own: the number a request is about to
\* return was returned by nobody and is about to be returned by nobody else,
\* however expiry, reload from PostgreSQL and other requests interleave.
NumbersAreUnique ==
    \A r \in Reqs : LET n == req[r].name IN
        Issued(r) /\ n \notin lapsed =>
            /\ req[r].val \notin served[n]
            /\ \A s \in Reqs \ {r} :
                 Issued(s) /\ req[s].name = n => req[s].val # req[r].val

\* Nothing counts a hit twice: neither Redis, nor PostgreSQL, nor a value in
\* flight ever exceeds the INCRs that ran, even after faults.
NeverOvercounts ==
    \A n \in Names :
        /\ cnt[n] <= hits[n]
        /\ pg[n] <= hits[n]
        /\ \A r \in Reqs : req[r].name = n => req[r].val <= hits[n]
        /\ \A w \in Workers : wk[w].seen[n] <= hits[n]

\* A preview (Get) shows at least every number served before it began, also
\* when it finds the key missing and answers from PostgreSQL.
ReadsAreFresh ==
    \A r \in Reqs :
        req[r].op = "Get" /\ At(r, "reply") /\ req[r].name \notin lapsed =>
            req[r].val >= req[r].floor

\* The durable value never goes back, although rounds overlap and a round may
\* write a value it read long ago.
DurableNeverDecreases == [][\A n \in Names : pg'[n] >= pg[n]]_vars

\* A number shown to a visitor is eventually in PostgreSQL.
ServedBecomesDurable ==
    \A n \in Names : \A v \in 1..MaxHits :
        (v \in served[n]) ~> (pg[n] >= v \/ n \in lapsed)

\* "an expired key is reloaded from PostgreSQL instead of restarting from
\* zero" (counter.go:31-32): a live key never shows less than PostgreSQL has.
ReloadedNotRestarted == \A n \in Names : Live(n) => cnt[n] >= pg[n]

-----------------------------------------------------------------------------
\* The counter and number each request is about to return.
Given == [r \in Reqs |-> IF Issued(r) THEN <<req[r].name, req[r].val>> ELSE <<>>]

Promise == INSTANCE HitCounter
               WITH Visitors <- Reqs, given <- Given, shown <- served, durable <- pg

\* The counters keep what HitCounter promises: each step of a request, a round
\* or the environment gives a new number, shows it, drops it, makes one
\* durable or lapses, or changes nothing of these, and the worker's fairness
\* lets no durable number stay behind.
ImplementsHitCounter == Promise!HitSpec
=============================================================================
