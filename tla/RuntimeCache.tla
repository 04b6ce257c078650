---------------------------- MODULE RuntimeCache ----------------------------
(***************************************************************************)
(* The runtime project cache of svgstat (internal/project/runtime_cache.go)*)
(* and the management calls that change a project and refresh the cache    *)
(* (internal/api/handlers.go, internal/admin/admin.go).                    *)
(*                                                                         *)
(* Every API instance answers visitors from its process memory, else from  *)
(* a record in Redis, else from PostgreSQL; a management call on any       *)
(* instance writes the row, then refreshes its own memory and Redis, and   *)
(* tells the other instances over Redis pub/sub to forget the slug.        *)
(*                                                                         *)
(* One project is modelled, with the slugs it may have.  A version number  *)
(* stands for the content of a row; 0 is the record "missing".  A tick is  *)
(* the lifetime of a memory entry divided by MemTTL.                       *)
(***************************************************************************)
EXTENDS Integers, Sequences, FiniteSets

CONSTANTS
    Instances,  \* API processes
    Slugs,      \* slugs the project may have
    Calls,      \* management calls in flight at the same time
    Statuses,   \* statuses an administrator sets, "active" included
    MemTTL,     \* memoryTTL, in ticks; also the TTL of a negative record
    RedisTTL,   \* backendTTL, in ticks
    MaxLoads,   \* bound: loads in flight
    MaxCommits, \* bound: writes of the row
    Faults,     \* the kinds of fault injected, of "redis", "postgres", "message",
                \* "restart"
    MaxFaults   \* bound: faults injected

ASSUME RuntimeAssumption ==
    /\ Instances # {} /\ Slugs # {} /\ "active" \in Statuses
    /\ MemTTL \in Nat \ {0} /\ RedisTTL \in Nat /\ RedisTTL >= MemTTL
    /\ MaxLoads \in Nat /\ MaxCommits \in Nat /\ MaxFaults \in Nat

VARIABLES
    row,      \* the project's row in PostgreSQL
    mem,      \* memory, of every instance
    redis,    \* svgstat:runtime:project:slug:<slug>
    inbox,    \* invalidation messages on their way to every instance
    call,     \* management calls in flight
    load,     \* loads in flight: singleflight runs one per instance and slug
    audited,  \* the status of the last entry of admin_audit_logs
    raced,    \* history: slugs whose refresh overlapped a load, another write
              \* or a fault
    faults    \* history: faults injected so far

vars == <<row, mem, redis, inbox, call, load, audited, raced, faults>>

-----------------------------------------------------------------------------
Row == [state: {"none", "live", "deleted"}, slug: Slugs, status: Statuses, ver: Nat]

\* ver, age: a cached version, and the ticks since it was read from
\* PostgreSQL or committed.  An entry with ttl 0 is absent.
Entry == [ttl: Nat, ver: Nat, age: Nat]
NoEntry == [ttl |-> 0, ver |-> 0, age |-> 0]
Present(e) == e.ttl > 0

\* What GetBySlug of the repository answers: deleted rows are filtered out.
Current(s) == IF row.state = "live" /\ row.slug = s THEN row.ver ELSE 0

(***************************************************************************)
(* A load holds (ver, age) from its read on.  "hit" and "memory" are about *)
(* to store in memory what came from Redis and from PostgreSQL, "backend"  *)
(* is about to store it in Redis.                                          *)
(***************************************************************************)
LoadStages == {"idle", "redis", "postgres", "hit", "memory", "backend"}
Loading == [stage: LoadStages, ver: Nat, age: Nat, old: BOOLEAN]
IdleLoad == [stage |-> "idle", ver |-> 0, age |-> 0, old |-> FALSE]

\* The remote and shared-state steps of the calls, in their order.
CreateSteps == <<"insert", "store", "share", "announce">>

Program == [
    create   |-> CreateSteps,
    edit     |-> <<"read", "update", "drop", "unshare", "recall",
                   "store", "share", "announce">>,
    tracking |-> <<"read", "update", "store", "share", "announce">>,
    delete   |-> <<"read", "remove", "drop", "unshare", "recall">>,
    admin    |-> <<"override", "store", "share", "announce">>]
Ops == DOMAIN Program

(***************************************************************************)
(* pc: the position of the next step in the call's program, 0 when there   *)
(* is no call.  p: the row as the call last read or wrote it, and age, the *)
(* ticks since it wrote it.  was: the slug of p before an edit.  slug,     *)
(* status: the new values asked for.  old: it ran at the last tick.        *)
(***************************************************************************)
Call == [pc: 0..8, op: Ops, at: Instances, p: Row, age: Nat, was: Slugs,
         slug: Slugs, status: Statuses, old: BOOLEAN]
SomeSlug == CHOOSE s \in Slugs : TRUE
NoRow == [state |-> "none", slug |-> SomeSlug, status |-> "active", ver |-> 0]
IdleCall == [pc |-> 0, op |-> "create", at |-> CHOOSE i \in Instances : TRUE, p |-> NoRow,
             age |-> 0, was |-> SomeSlug, slug |-> SomeSlug, status |-> "active", old |-> FALSE]

Step(c) == IF call[c].pc = 0 THEN "idle" ELSE Program[call[c].op][call[c].pc]
Writes == {"insert", "update", "remove", "override"}

\* The call has written the row and not finished refreshing the caches.
Written(c) == Step(c) \notin {"idle", "read"} \union Writes

Init ==
    /\ row = NoRow
    /\ mem = [i \in Instances |-> [s \in Slugs |-> NoEntry]]
    /\ redis = [s \in Slugs |-> NoEntry]
    /\ inbox = [i \in Instances |-> <<>>]
    /\ call = [c \in Calls |-> IdleCall]
    /\ load = [i \in Instances |-> [s \in Slugs |-> IdleLoad]]
    /\ audited = "active"
    /\ raced = {}
    /\ faults = 0

\* A fault of the given kind, which costs the slugs in ss their refresh.
Fault(kind, ss) ==
    /\ kind \in Faults
    /\ faults < MaxFaults
    /\ faults' = faults + 1
    /\ raced' = raced \union ss

-----------------------------------------------------------------------------
(* Visitors: GetBySlug.  A memory hit changes nothing; followers of a load *)
(* wait for its answer and are not distinguished from it.                  *)

\* The TTL of what a load stores in Redis.
BackendTTL(ver) == IF ver = 0 THEN MemTTL ELSE RedisTTL

\* Where a load goes on with a record it found in Redis: to memory alone.
FoundIsShared == "memory"
Found == "hit"

Loads == {x \in Instances \X Slugs : load[x[1]][x[2]].stage # "idle"}

StartLoad(i, s) ==
    /\ load[i][s].stage = "idle" /\ ~Present(mem[i][s])
    /\ Cardinality(Loads) < MaxLoads
    /\ load' = [load EXCEPT ![i][s].stage = "redis"]
    /\ raced' = IF \E c \in Calls : Written(c) THEN raced \union {s} ELSE raced
    /\ UNCHANGED <<row, mem, redis, inbox, call, audited, faults>>

\* The load holds version v, read age ticks ago, and goes on to the stage.
Holding(i, s, stage, v, age) ==
    load' = [load EXCEPT ![i][s] = [@ EXCEPT !.stage = stage, !.ver = v, !.age = age]]

AskRedis(i, s) ==
    /\ load[i][s].stage = "redis"
    /\ IF Present(redis[s]) THEN Holding(i, s, Found, redis[s].ver, redis[s].age)
       ELSE Holding(i, s, "postgres", 0, 0)
    /\ UNCHANGED <<row, mem, redis, inbox, call, audited, raced, faults>>

\* A Redis error on the GET is treated as a miss.
AskRedisFails(i, s) ==
    /\ load[i][s].stage = "redis"
    /\ Fault("redis", {})
    /\ Holding(i, s, "postgres", 0, 0)
    /\ UNCHANGED <<row, mem, redis, inbox, call, audited>>

AskPostgres(i, s) ==
    /\ load[i][s].stage = "postgres"
    /\ Holding(i, s, "memory", Current(s), 0)
    /\ UNCHANGED <<row, mem, redis, inbox, call, audited, raced, faults>>

\* The load ends; so it does, with an error, when PostgreSQL does not answer.
Loaded(i, s) == load' = [load EXCEPT ![i][s] = IdleLoad]

AskPostgresFails(i, s) ==
    /\ load[i][s].stage = "postgres"
    /\ Fault("postgres", {})
    /\ Loaded(i, s)
    /\ UNCHANGED <<row, mem, redis, inbox, call, audited>>

StoreMemory(i, s) ==
    LET l == load[i][s] IN
    /\ l.stage \in {"hit", "memory"}
    /\ mem' = [mem EXCEPT ![i][s] = [ttl |-> MemTTL, ver |-> l.ver, age |-> l.age]]
    /\ IF l.stage = "memory" THEN Holding(i, s, "backend", l.ver, l.age) ELSE Loaded(i, s)
    /\ UNCHANGED <<row, redis, inbox, call, audited, raced, faults>>

StoreBackend(i, s) ==
    LET l == load[i][s] IN
    /\ l.stage = "backend"
    /\ redis' = [redis EXCEPT ![s] = [ttl |-> BackendTTL(l.ver), ver |-> l.ver, age |-> l.age]]
    /\ Loaded(i, s)
    /\ UNCHANGED <<row, mem, inbox, call, audited, raced, faults>>

\* The error of the SET is ignored.
StoreBackendFails(i, s) ==
    /\ load[i][s].stage = "backend"
    /\ Fault("redis", {})
    /\ Loaded(i, s)
    /\ UNCHANGED <<row, mem, redis, inbox, call, audited>>

-----------------------------------------------------------------------------
(* Management calls. *)

\* Call c goes on with the record k, d steps further in its program.
Advance(c, k, d) ==
    call' = [call EXCEPT ![c] = IF k.pc + d > Len(Program[k.op]) THEN IdleCall
                                ELSE [k EXCEPT !.pc = @ + d]]
End(c) == call' = [call EXCEPT ![c] = IdleCall]

BeginCall(c, op, i, s, t) ==
    /\ Step(c) = "idle"
    /\ (op = "create") <=> (row.state = "none")
    /\ op \notin {"create", "edit"} => s = row.slug
    /\ op # "admin" => t = row.status
    /\ row.ver < MaxCommits
    /\ call' = [call EXCEPT ![c] =
                  [pc |-> 1, op |-> op, at |-> i, p |-> NoRow, age |-> 0, was |-> s,
                   slug |-> s, status |-> t, old |-> FALSE]]
    /\ UNCHANGED <<row, mem, redis, inbox, load, audited, raced, faults>>

\* GetByIDAndUser: a deleted project is not found.
Read(c) ==
    /\ Step(c) = "read"
    /\ IF row.state = "live"
       THEN Advance(c, [call[c] EXCEPT !.p = row, !.was = row.slug], 1)
       ELSE End(c)
    /\ UNCHANGED <<row, mem, redis, inbox, load, audited, raced, faults>>

\* Call c commits row r; what it read may be outdated by then.
Commit(c, r) ==
    LET outdated == call[c].op \notin {"create", "admin"} /\ call[c].p.ver # row.ver
        loading == {s \in Slugs : \E i \in Instances : load[i][s].stage # "idle"}
    IN
    /\ row' = [r EXCEPT !.ver = row.ver + 1]
    /\ raced' = IF outdated \/ \E d \in Calls : Written(d) THEN Slugs ELSE raced \union loading

Insert(c) ==
    /\ Step(c) = "insert"
    /\ IF row.state = "none"
       THEN /\ Commit(c, [NoRow EXCEPT !.state = "live", !.slug = call[c].slug])
            /\ Advance(c, [call[c] EXCEPT !.p = row'], 1)
       ELSE End(c) /\ UNCHANGED <<row, raced>>
    /\ UNCHANGED <<mem, redis, inbox, load, audited, faults>>

\* Update writes every column of the row that was read, where id matches:
\* status, slug and deleted_at included.
Update(c) ==
    LET k == call[c] IN
    /\ Step(c) = "update"
    /\ Commit(c, IF k.op = "edit" THEN [k.p EXCEPT !.slug = k.slug] ELSE k.p)
    /\ Advance(c, [k EXCEPT !.p = row'], 1)
    /\ UNCHANGED <<mem, redis, inbox, load, audited, faults>>

\* Delete marks the row; the call keeps the row it read.
Remove(c) ==
    /\ Step(c) = "remove"
    /\ Commit(c, [row EXCEPT !.state = "deleted"])
    /\ Advance(c, call[c], 1)
    /\ UNCHANGED <<mem, redis, inbox, load, audited, faults>>

\* The administrator's transaction: SELECT FOR UPDATE, UPDATE, the audit
\* entry.  The row lock makes it one step.
Override(c) ==
    /\ Step(c) = "override"
    /\ IF row.state = "live"
       THEN /\ Commit(c, [row EXCEPT !.status = call[c].status])
            /\ audited' = call[c].status
            /\ Advance(c, [call[c] EXCEPT !.p = row', !.was = row.slug], 1)
       ELSE End(c) /\ UNCHANGED <<row, raced, audited>>
    /\ UNCHANGED <<mem, redis, inbox, load, faults>>

\* The slugs of Invalidate(previousSlug, slug).
NewSlugOnly(c) == {call[c].p.slug}
Touched(c) == {call[c].was, call[c].p.slug}

Forget(m, ss) == [s \in Slugs |-> IF s \in ss THEN NoEntry ELSE m[s]]

Drop(c) ==
    /\ Step(c) = "drop"
    /\ mem' = [mem EXCEPT ![call[c].at] = Forget(@, Touched(c))]
    /\ Advance(c, call[c], 1)
    /\ UNCHANGED <<row, redis, inbox, load, audited, raced, faults>>

Unshare(c) ==
    /\ Step(c) = "unshare"
    /\ redis' = Forget(redis, Touched(c))
    /\ Advance(c, call[c], 1)
    /\ UNCHANGED <<row, mem, inbox, load, audited, raced, faults>>

\* A failed DEL: Invalidate returns before it tells anybody, and the call,
\* which only logs that, goes on with Put.
UnshareFails(c) ==
    /\ Step(c) = "unshare"
    /\ Fault("redis", Touched(c))
    /\ Advance(c, call[c], 2)
    /\ UNCHANGED <<row, mem, redis, inbox, load, audited>>

\* PUBLISH to the other instances (an instance ignores its own message).
PublishNothing(c, ss) == inbox' = inbox
Publish(c, ss) ==
    inbox' = [i \in Instances |->
                IF i = call[c].at THEN inbox[i] ELSE Append(inbox[i], ss)]

Recall(c) ==
    /\ Step(c) = "recall"
    /\ Publish(c, Touched(c))
    /\ Advance(c, call[c], 1)
    /\ UNCHANGED <<row, mem, redis, load, audited, raced, faults>>

Store(c) ==
    LET k == call[c] IN
    /\ Step(c) = "store"
    /\ mem' = [mem EXCEPT ![k.at][k.p.slug] = [ttl |-> MemTTL, ver |-> k.p.ver, age |-> k.age]]
    /\ Advance(c, k, 1)
    /\ UNCHANGED <<row, redis, inbox, load, audited, raced, faults>>

Share(c) ==
    LET k == call[c] IN
    /\ Step(c) = "share"
    /\ redis' = [redis EXCEPT ![k.p.slug] = [ttl |-> RedisTTL, ver |-> k.p.ver, age |-> k.age]]
    /\ Advance(c, k, 1)
    /\ UNCHANGED <<row, mem, inbox, load, audited, raced, faults>>

\* A failed SET: Put returns before it tells anybody.
ShareFails(c) ==
    /\ Step(c) = "share"
    /\ Fault("redis", Touched(c))
    /\ End(c)
    /\ UNCHANGED <<row, mem, redis, inbox, load, audited>>

Announce(c) ==
    /\ Step(c) = "announce"
    /\ Publish(c, {call[c].p.slug})
    /\ Advance(c, call[c], 1)
    /\ UNCHANGED <<row, mem, redis, load, audited, raced, faults>>

PublishFails(c) ==
    /\ Step(c) \in {"recall", "announce"}
    /\ Fault("redis", Touched(c))
    /\ Advance(c, call[c], 1)
    /\ UNCHANGED <<row, mem, redis, inbox, load, audited>>

-----------------------------------------------------------------------------
(* Instances and time. *)

\* handleInvalidation.
Deliver(i) ==
    /\ inbox[i] # <<>>
    /\ mem' = [mem EXCEPT ![i] = Forget(@, Head(inbox[i]))]
    /\ inbox' = [inbox EXCEPT ![i] = Tail(@)]
    /\ UNCHANGED <<row, redis, call, load, audited, raced, faults>>

\* Pub/sub keeps nothing for a subscriber whose connection is down.
LoseMessage(i) ==
    /\ inbox[i] # <<>>
    /\ Fault("message", Head(inbox[i]))
    /\ inbox' = [inbox EXCEPT ![i] = Tail(@)]
    /\ UNCHANGED <<row, mem, redis, call, load, audited>>

\* An API process restarts: its memory and its calls are gone, and Warm,
\* which has listed the projects, is about to store the live one.
Restart(i) ==
    LET cut == {c \in Calls : Step(c) # "idle" /\ call[c].at = i}
        lost == UNION {Touched(c) : c \in {d \in cut : Written(d)}}
        warm == {s \in Slugs : Current(s) # 0}
    IN
    /\ Fault("restart", lost \union IF \E c \in Calls : Written(c) THEN warm ELSE {})
    /\ call' = [c \in Calls |-> IF c \in cut THEN IdleCall ELSE call[c]]
    /\ mem' = [mem EXCEPT ![i] = [s \in Slugs |-> NoEntry]]
    /\ load' = [load EXCEPT ![i] =
                  [s \in Slugs |-> IF s \in warm
                                   THEN [IdleLoad EXCEPT !.stage = "memory", !.ver = Current(s)]
                                   ELSE IdleLoad]]
    /\ inbox' = [inbox EXCEPT ![i] = <<>>]
    /\ UNCHANGED <<row, redis, audited>>

\* An entry after a tick.
AgedBelowZero(e) == [e EXCEPT !.ttl = @ - 1]
Aged(e) == IF e.ttl > 1 THEN [e EXCEPT !.ttl = @ - 1, !.age = @ + 1] ELSE NoEntry

\* A call or a load runs for seconds, so none is running at two ticks in a
\* row; a message may be late.
Tick ==
    /\ \A c \in Calls : ~call[c].old
    /\ \A i \in Instances, s \in Slugs : ~load[i][s].old
    /\ mem' = [i \in Instances |-> [s \in Slugs |-> Aged(mem[i][s])]]
    /\ redis' = [s \in Slugs |-> Aged(redis[s])]
    /\ call' = [c \in Calls |->
                  IF Step(c) = "idle" THEN call[c]
                  ELSE [call[c] EXCEPT !.old = TRUE, !.age = IF Written(c) THEN @ + 1 ELSE @]]
    /\ load' = [i \in Instances |-> [s \in Slugs |->
                  IF load[i][s].stage = "idle" THEN load[i][s]
                  ELSE [load[i][s] EXCEPT !.old = TRUE, !.age = @ + 1]]]
    /\ UNCHANGED <<row, inbox, audited, raced, faults>>

-----------------------------------------------------------------------------
LoadStep(i, s) ==
    \/ AskRedis(i, s)
    \/ AskPostgres(i, s)
    \/ StoreMemory(i, s)
    \/ StoreBackend(i, s)

LoadFault(i, s) ==
    \/ AskRedisFails(i, s)
    \/ AskPostgresFails(i, s)
    \/ StoreBackendFails(i, s)

CallStep(c) ==
    \/ Read(c) \/ Insert(c) \/ Update(c) \/ Remove(c) \/ Override(c)
    \/ Drop(c) \/ Unshare(c) \/ Recall(c)
    \/ Store(c) \/ Share(c) \/ Announce(c)

CallFault(c) == UnshareFails(c) \/ ShareFails(c) \/ PublishFails(c)

Next ==
    \/ \E i \in Instances, s \in Slugs : StartLoad(i, s) \/ LoadStep(i, s) \/ LoadFault(i, s)
    \/ \E c \in Calls :
         \/ \E op \in Ops, i \in Instances, s \in Slugs, t \in Statuses : BeginCall(c, op, i, s, t)
         \/ CallStep(c)
         \/ CallFault(c)
    \/ \E i \in Instances : Deliver(i) \/ LoseMessage(i) \/ Restart(i)
    \/ Tick

Spec == Init /\ [][Next]_vars

-----------------------------------------------------------------------------
(* Properties. *)

TypeOK ==
    /\ row \in Row
    /\ mem \in [Instances -> [Slugs -> Entry]]
    /\ redis \in [Slugs -> Entry]
    /\ inbox \in [Instances -> Seq(SUBSET Slugs)]
    /\ call \in [Calls -> Call]
    /\ load \in [Instances -> [Slugs -> Loading]]
    /\ audited \in Statuses
    /\ raced \subseteq Slugs
    /\ faults \in 0..MaxFaults

\* How long a cached record of version v may lag: the TTL in Redis, the TTL
\* in memory, and less than a tick for the load between them.
MaxAge(v) == BackendTTL(v) + MemTTL

\* Staleness is bounded whatever races, losses and restarts happen: a record
\* given to a visitor was the truth of PostgreSQL at most MaxAge ticks ago.
\* In particular a new project is hidden by a negative record only briefly.
StalenessBounded ==
    \A i \in Instances, s \in Slugs :
        /\ Present(mem[i][s]) => mem[i][s].age <= MaxAge(mem[i][s].ver)
        /\ load[i][s].stage \in {"hit", "memory", "backend"} =>
             load[i][s].age <= BackendTTL(load[i][s].ver) + 1

\* When nothing raced the refresh of a slug, then after the last call ended
\* and the messages arrived every cache has the current record or none: the
\* old slug of a renamed or deleted project is forgotten everywhere.
CoherentWhenQuiet ==
    (\A c \in Calls : Step(c) = "idle") /\ (\A i \in Instances : inbox[i] = <<>>) =>
        \A s \in Slugs \ raced, i \in Instances :
            /\ Present(mem[i][s]) => mem[i][s].ver = Current(s)
            /\ Present(redis[s]) => redis[s].ver = Current(s)
            /\ load[i][s].stage \in {"hit", "memory", "backend"} =>
                 load[i][s].ver = Current(s)

\* "runtime project writes publish Redis invalidation messages so every
\* instance drops stale process-memory entries" (ARCHITECTURE.md:402): with
\* the calls done and the messages handled, memory is not stale.
InvalidationDropsStale ==
    (\A c \in Calls : Step(c) = "idle") /\ (\A i \in Instances : inbox[i] = <<>>) =>
        \A i \in Instances, s \in Slugs :
            Present(mem[i][s]) => mem[i][s].ver = Current(s)

\* "User and project changes are written to admin_audit_logs"
\* (README.md:326): the status of a project is what the last audited change
\* made it.
StatusIsAudited == row.status = audited
=============================================================================
