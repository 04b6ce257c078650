------------------------- MODULE RuntimeCacheProofs -------------------------
(***************************************************************************)
(* Theorems about the runtime project cache (RuntimeCache): for any        *)
(* instances, slugs, calls, lifetimes and faults.                          *)
(***************************************************************************)
EXTENDS RuntimeCache, TLAPS

-----------------------------------------------------------------------------
(* Type correctness. *)

\* The step a call of operation op takes after the given one.
After(op, step) ==
    CASE step = "insert" -> "store"
      [] step = "read" -> IF op = "delete" THEN "remove" ELSE "update"
      [] step = "update" -> IF op = "edit" THEN "drop" ELSE "store"
      [] step = "remove" -> "drop"
      [] step = "override" -> "store"
      [] step = "drop" -> "unshare"
      [] step = "unshare" -> "recall"
      [] step = "recall" -> IF op = "edit" THEN "store" ELSE "idle"
      [] step = "store" -> "share"
      [] step = "share" -> "announce"
      [] step = "announce" -> "idle"

\* The operations that have the given step.
Having(step) ==
    CASE step = "insert" -> {"create"}
      [] step = "read" -> {"edit", "tracking", "delete"}
      [] step = "update" -> {"edit", "tracking"}
      [] step = "remove" -> {"delete"}
      [] step = "override" -> {"admin"}
      [] step \in {"drop", "unshare", "recall"} -> {"edit", "delete"}
      [] step \in {"store", "share", "announce"} -> {"create", "edit", "tracking", "admin"}

AllSteps == {"insert", "read", "update", "remove", "override", "drop", "unshare", "recall",
             "store", "share", "announce"}

\* The programs of the calls, read as steps that follow one another.
LEMMA Programs ==
    ASSUME NEW op \in Ops, NEW n \in 1..Len(Program[op])
    PROVE  /\ Program[op][n] \in AllSteps /\ op \in Having(Program[op][n])
           /\ n + 1 > Len(Program[op]) => After(op, Program[op][n]) = "idle"
           /\ ~(n + 1 > Len(Program[op])) => After(op, Program[op][n]) = Program[op][n + 1]
           /\ Program[op][n] = "unshare" =>
                IF op = "edit" THEN ~(n + 2 > Len(Program[op])) /\ Program[op][n + 2] = "store"
                ELSE n + 2 > Len(Program[op])
<1>1. Ops = {"create", "edit", "tracking", "delete", "admin"}
  BY DEF Ops, Program
<1>2. CASE op = "create"
  <2>1. Program[op] = <<"insert", "store", "share", "announce">>
    BY <1>2 DEF Program, CreateSteps
  <2> QED BY <1>2, <2>1 DEF After, Having, AllSteps
<1>3. CASE op = "edit"
  <2>1. Program[op] = <<"read", "update", "drop", "unshare", "recall", "store", "share", "announce">>
    BY <1>3 DEF Program
  <2> QED BY <1>3, <2>1 DEF After, Having, AllSteps
<1>4. CASE op = "tracking"
  <2>1. Program[op] = <<"read", "update", "store", "share", "announce">>
    BY <1>4 DEF Program
  <2> QED BY <1>4, <2>1 DEF After, Having, AllSteps
<1>5. CASE op = "delete"
  <2>1. Program[op] = <<"read", "remove", "drop", "unshare", "recall">>
    BY <1>5 DEF Program
  <2> QED BY <1>5, <2>1 DEF After, Having, AllSteps
<1>6. CASE op = "admin"
  <2>1. Program[op] = <<"override", "store", "share", "announce">>
    BY <1>6 DEF Program
  <2> QED BY <1>6, <2>1 DEF After, Having, AllSteps
<1> QED BY <1>1, <1>2, <1>3, <1>4, <1>5, <1>6

LEMMA ProgramLengths ==
    \A op \in Ops : Len(Program[op]) \in 1..8
<1>1. Ops = {"create", "edit", "tracking", "delete", "admin"}
  BY DEF Ops, Program
<1> QED BY <1>1 DEF Program, CreateSteps

\* A call stands within its program.
PcInv == \A c \in Calls : call[c].pc <= Len(Program[call[c].op])

TypeInv == TypeOK /\ PcInv

LEMMA IdleTypes ==
    NoRow \in Row /\ IdleCall \in Call /\ IdleLoad \in Loading /\ NoEntry \in Entry
<1>1. SomeSlug \in Slugs /\ (CHOOSE i \in Instances : TRUE) \in Instances
  BY RuntimeAssumption DEF SomeSlug
<1>2. NoRow \in Row
  BY <1>1, RuntimeAssumption DEF NoRow, Row
<1>3. "create" \in Ops
  BY DEF Ops, Program
<1>4. IdleCall \in Call
  BY <1>1, <1>2, <1>3, RuntimeAssumption DEF IdleCall, Call
<1> QED BY <1>2, <1>4 DEF IdleLoad, Loading, LoadStages, NoEntry, Entry

\* A call that goes on, and the calls that do not.
LEMMA Advances ==
    ASSUME TypeInv, NEW c \in Calls, NEW k \in Call, NEW d \in {1, 2}, Advance(c, k, d)
    PROVE  /\ call' \in [Calls -> Call] /\ PcInv'
           /\ \A x \in Calls \ {c} : call'[x] = call[x]
           /\ k.pc + d > Len(Program[k.op]) => call'[c] = IdleCall
           /\ ~(k.pc + d > Len(Program[k.op])) => call'[c] = [k EXCEPT !.pc = k.pc + d]
<1>1. Len(Program[k.op]) \in 1..8 /\ Len(Program[IdleCall.op]) \in 1..8
  BY IdleTypes, ProgramLengths DEF Call
<1>2. IdleCall \in Call /\ IdleCall.pc = 0
  BY IdleTypes DEF IdleCall
<1>3. k.pc \in 0..8 /\ DOMAIN k = {"pc", "op", "at", "p", "age", "was", "slug", "status", "old"}
  BY DEF Call
<1>4. call \in [Calls -> Call]
  BY DEF TypeInv, TypeOK
<1>5. CASE k.pc + d > Len(Program[k.op])
  <2>1. call' = [call EXCEPT ![c] = IdleCall]
    BY <1>5 DEF Advance
  <2>2. call' \in [Calls -> Call] /\ call'[c] = IdleCall /\ \A x \in Calls \ {c} : call'[x] = call[x]
    BY <1>2, <1>4, <2>1
  <2> QED BY <1>1, <1>2, <1>5, <2>2 DEF PcInv, TypeInv
<1>6. CASE ~(k.pc + d > Len(Program[k.op]))
  <2>0. PICK n : n = [k EXCEPT !.pc = k.pc + d]
    OBVIOUS
  <2>1. call' = [call EXCEPT ![c] = n]
    BY <1>6, <2>0 DEF Advance
  <2>2. n \in Call /\ n.op = k.op /\ n.pc = k.pc + d
    <3>1. k.pc + d \in 0..8
      <4>1. PICK n1 \in 1..8 : n1 = Len(Program[k.op])
        BY <1>1
      <4>2. k.pc \in 0..8
        BY <1>3
      <4>3. ~(k.pc + d > n1)
        BY <1>6, <4>1
      <4> QED BY <4>2, <4>3
    <3> QED BY <1>3, <2>0, <3>1 DEF Call
  <2>3. call' \in [Calls -> Call] /\ call'[c] = n /\ \A x \in Calls \ {c} : call'[x] = call[x]
    BY <1>4, <2>1, <2>2
  <2> QED BY <1>1, <1>3, <1>6, <2>0, <2>2, <2>3 DEF PcInv, TypeInv
<1> QED BY <1>5, <1>6

LEMMA Ends ==
    ASSUME TypeInv, NEW c \in Calls, End(c)
    PROVE  /\ call' \in [Calls -> Call] /\ PcInv'
           /\ call'[c] = IdleCall /\ \A x \in Calls \ {c} : call'[x] = call[x]
<1>1. Len(Program[IdleCall.op]) \in 1..8 /\ IdleCall \in Call /\ IdleCall.pc = 0
  BY IdleTypes DEF IdleCall, Program, CreateSteps
<1> QED BY <1>1 DEF End, PcInv, TypeInv, TypeOK

\* A load that goes on, and the loads that do not.
Held(i, s, stage, v, a) ==
    /\ load'[i][s].stage = stage /\ load'[i][s].ver = v /\ load'[i][s].age = a
    /\ load'[i][s].old = load[i][s].old
    /\ \A j \in Instances, t \in Slugs : j # i \/ t # s => load'[j][t] = load[j][t]

LEMMA Holds ==
    ASSUME TypeOK, NEW i \in Instances, NEW s \in Slugs, NEW stage \in LoadStages,
           NEW v \in Nat, NEW a \in Nat, Holding(i, s, stage, v, a)
    PROVE  /\ load' \in [Instances -> [Slugs -> Loading]]
           /\ Held(i, s, stage, v, a)
<1>1. load[i] \in [Slugs -> Loading] /\ load[i][s] \in Loading
  BY DEF TypeOK
<1>2. PICK l : l = [load[i][s] EXCEPT !.stage = stage, !.ver = v, !.age = a]
  OBVIOUS
<1>3. l \in Loading /\ l.stage = stage /\ l.ver = v /\ l.age = a /\ l.old = load[i][s].old
  BY <1>1, <1>2 DEF Loading
<1>4. load' = [load EXCEPT ![i] = [load[i] EXCEPT ![s] = l]]
  BY <1>2 DEF Holding
<1> QED BY <1>1, <1>2, <1>3, <1>4 DEF TypeOK, Held

LEMMA LoadEnds ==
    ASSUME TypeOK, NEW i \in Instances, NEW s \in Slugs, Loaded(i, s)
    PROVE  /\ load' \in [Instances -> [Slugs -> Loading]]
           /\ load'[i][s] = IdleLoad
           /\ \A j \in Instances, t \in Slugs : j # i \/ t # s => load'[j][t] = load[j][t]
BY IdleTypes DEF Loaded, TypeOK

\* What a commit leaves in the table.
LEMMA Commits ==
    ASSUME TypeOK, NEW c \in Calls, NEW r \in Row, Commit(c, r)
    PROVE  /\ row' \in Row /\ raced' \subseteq Slugs
           /\ row'.ver = row.ver + 1
           /\ row'.state = r.state /\ row'.slug = r.slug /\ row'.status = r.status
           /\ raced \subseteq raced'
<1>1. PICK v : v = row.ver + 1
  OBVIOUS
<1>2. v \in Nat /\ row' = [r EXCEPT !.ver = v]
  BY <1>1 DEF TypeOK, Row, Commit
<1>3. row' \in Row /\ row'.ver = v /\ row'.state = r.state /\ row'.slug = r.slug /\ row'.status = r.status
  BY <1>2 DEF Row
<1>4. raced' \subseteq Slugs /\ raced \subseteq raced'
  BY DEF Commit, TypeOK
<1> QED BY <1>1, <1>3, <1>4

\* The step of a call is a place in its program.
LEMMA StepPlace ==
    ASSUME TypeInv, NEW c \in Calls, Step(c) # "idle"
    PROVE  /\ call[c] \in Call /\ call[c].op \in Ops
           /\ call[c].pc \in 1..Len(Program[call[c].op])
           /\ Step(c) = Program[call[c].op][call[c].pc]
           /\ Step(c) \in AllSteps /\ call[c].op \in Having(Step(c))
<1>1. call[c] \in Call /\ call[c].pc \in 0..8 /\ call[c].op \in Ops
  BY DEF TypeInv, TypeOK, Call
<1>2. call[c].pc # 0 /\ Step(c) = Program[call[c].op][call[c].pc]
  BY DEF Step
<1>3. call[c].pc <= Len(Program[call[c].op])
  BY DEF TypeInv, PcInv
<1>4. Len(Program[call[c].op]) \in Nat
  BY <1>1, ProgramLengths
<1>5. call[c].pc \in 1..Len(Program[call[c].op])
  BY <1>1, <1>2, <1>3, <1>4
<1>6. Step(c) \in AllSteps /\ call[c].op \in Having(Step(c))
  BY <1>1, <1>2, <1>5, Programs
<1> QED BY <1>1, <1>2, <1>5, <1>6

LEMMA CurrentType ==
    ASSUME TypeOK, NEW s
    PROVE  Current(s) \in Nat
BY DEF TypeOK, Row, Current

LEMMA FaultType ==
    ASSUME TypeOK, NEW kind, NEW ss \in SUBSET Slugs, Fault(kind, ss)
    PROVE  faults' \in 0..MaxFaults /\ raced' \subseteq Slugs /\ raced' = raced \union ss
BY RuntimeAssumption DEF TypeOK, Fault

LEMMA TouchedType ==
    ASSUME TypeOK, NEW c \in Calls
    PROVE  Touched(c) \in SUBSET Slugs
BY DEF TypeOK, Call, Row, Touched

LEMMA ForgetType ==
    ASSUME NEW m \in [Slugs -> Entry], NEW ss
    PROVE  Forget(m, ss) \in [Slugs -> Entry]
BY IdleTypes DEF Forget

LEMMA AgedType ==
    ASSUME NEW e \in Entry
    PROVE  Aged(e) \in Entry
<1>1. CASE e.ttl > 1
  <2>1. e.ttl - 1 \in Nat /\ e.age + 1 \in Nat
    BY <1>1 DEF Entry
  <2>2. Aged(e) = [e EXCEPT !.ttl = e.ttl - 1, !.age = e.age + 1]
    BY <1>1 DEF Aged
  <2> QED BY <2>1, <2>2 DEF Entry
<1>2. CASE ~(e.ttl > 1)
  BY <1>2, IdleTypes DEF Aged
<1> QED BY <1>1, <1>2

\* The parts of the type invariant that are about one variable each.
LEMMA PublishType ==
    ASSUME TypeOK, NEW c \in Calls, NEW ss \in SUBSET Slugs, Publish(c, ss)
    PROVE  inbox' \in [Instances -> Seq(SUBSET Slugs)]
<1>1. \A i \in Instances : inbox[i] \in Seq(SUBSET Slugs)
  BY DEF TypeOK
<1>2. \A i \in Instances : Append(inbox[i], ss) \in Seq(SUBSET Slugs)
  BY <1>1
<1> QED BY <1>1, <1>2 DEF Publish

LEMMA TailType ==
    ASSUME TypeOK, NEW i \in Instances, inbox[i] # <<>>, inbox' = [inbox EXCEPT ![i] = Tail(@)]
    PROVE  inbox' \in [Instances -> Seq(SUBSET Slugs)] /\ Head(inbox[i]) \in SUBSET Slugs
<1>1. inbox[i] \in Seq(SUBSET Slugs)
  BY DEF TypeOK
<1>2. Tail(inbox[i]) \in Seq(SUBSET Slugs) /\ Head(inbox[i]) \in SUBSET Slugs
  BY <1>1
<1> QED BY <1>2 DEF TypeOK

LEMMA LoadTypeKept ==
    ASSUME TypeInv, NEW i \in Instances, NEW s \in Slugs,
           StartLoad(i, s) \/ LoadStep(i, s) \/ LoadFault(i, s)
    PROVE  TypeInv'
<1> USE DEF TypeInv
<1> DEFINE l == load[i][s]
<1>1. l \in Loading /\ mem \in [Instances -> [Slugs -> Entry]] /\ redis \in [Slugs -> Entry]
  BY DEF TypeOK
<1>2. l.ver \in Nat /\ l.age \in Nat /\ redis[s].ver \in Nat /\ redis[s].age \in Nat
  BY <1>1 DEF Loading, Entry
<1>3. ASSUME UNCHANGED call
      PROVE  call' \in [Calls -> Call] /\ PcInv'
  BY <1>3 DEF TypeOK, PcInv
<1>4. CASE StartLoad(i, s)
  <2>1. load' \in [Instances -> [Slugs -> Loading]]
    <3>1. PICK n : n = [load[i][s] EXCEPT !.stage = "redis"]
      OBVIOUS
    <3>2. n \in Loading
      BY <1>1, <3>1 DEF Loading, LoadStages
    <3>3. load' = [load EXCEPT ![i] = [load[i] EXCEPT ![s] = n]]
      BY <1>4, <3>1 DEF StartLoad
    <3> QED BY <3>2, <3>3 DEF TypeOK
  <2>2. raced' \subseteq Slugs
    BY <1>4 DEF StartLoad, TypeOK
  <2> QED BY <1>3, <1>4, <2>1, <2>2 DEF StartLoad, TypeOK
<1>5. CASE AskRedis(i, s)
  <2>1. load' \in [Instances -> [Slugs -> Loading]]
    <3>1. CASE Holding(i, s, "hit", redis[s].ver, redis[s].age)
      BY <1>2, <3>1, Holds DEF LoadStages
    <3>2. CASE Holding(i, s, "postgres", 0, 0)
      BY <3>2, Holds DEF LoadStages
    <3> QED BY <1>5, <3>1, <3>2 DEF AskRedis, Found
  <2> QED BY <1>3, <1>5, <2>1 DEF AskRedis, TypeOK
<1>6. CASE AskPostgres(i, s)
  <2>1. load' \in [Instances -> [Slugs -> Loading]]
    BY <1>6, CurrentType, Holds DEF AskPostgres, LoadStages
  <2> QED BY <1>3, <1>6, <2>1 DEF AskPostgres, TypeOK
<1>7. CASE StoreMemory(i, s)
  <2>1. load' \in [Instances -> [Slugs -> Loading]]
    <3>1. CASE Holding(i, s, "backend", l.ver, l.age)
      BY <1>2, <3>1, Holds DEF LoadStages
    <3>2. CASE Loaded(i, s)
      BY <3>2, LoadEnds
    <3> QED BY <1>7, <3>1, <3>2 DEF StoreMemory
  <2>2. mem' \in [Instances -> [Slugs -> Entry]]
    <3>1. PICK n : n = [ttl |-> MemTTL, ver |-> l.ver, age |-> l.age]
      OBVIOUS
    <3>2. n \in Entry
      BY <1>2, <3>1, RuntimeAssumption DEF Entry
    <3>3. mem' = [mem EXCEPT ![i] = [mem[i] EXCEPT ![s] = n]]
      BY <1>7, <3>1 DEF StoreMemory
    <3> QED BY <1>1, <3>2, <3>3
  <2> QED BY <1>3, <1>7, <2>1, <2>2 DEF StoreMemory, TypeOK
<1>8. CASE StoreBackend(i, s)
  <2>1. load' \in [Instances -> [Slugs -> Loading]]
    BY <1>8, LoadEnds DEF StoreBackend
  <2>2. redis' \in [Slugs -> Entry]
    <3>1. PICK n : n = [ttl |-> BackendTTL(l.ver), ver |-> l.ver, age |-> l.age]
      OBVIOUS
    <3>2. n \in Entry
      BY <1>2, <3>1, RuntimeAssumption DEF Entry, BackendTTL
    <3>3. redis' = [redis EXCEPT ![s] = n]
      BY <1>8, <3>1 DEF StoreBackend
    <3> QED BY <1>1, <3>2, <3>3
  <2> QED BY <1>3, <1>8, <2>1, <2>2 DEF StoreBackend, TypeOK
<1>9. CASE LoadFault(i, s)
  <2>1. load' \in [Instances -> [Slugs -> Loading]]
    <3>1. CASE Holding(i, s, "postgres", 0, 0)
      BY <3>1, Holds DEF LoadStages
    <3>2. CASE Loaded(i, s)
      BY <3>2, LoadEnds
    <3> QED BY <1>9, <3>1, <3>2 DEF LoadFault, AskRedisFails, AskPostgresFails, StoreBackendFails
  <2>2. faults' \in 0..MaxFaults /\ raced' \subseteq Slugs
    BY <1>9, FaultType DEF LoadFault, AskRedisFails, AskPostgresFails, StoreBackendFails
  <2>3. UNCHANGED <<row, mem, redis, inbox, call, audited>>
    BY <1>9 DEF LoadFault, AskRedisFails, AskPostgresFails, StoreBackendFails
  <2> QED BY <1>3, <2>1, <2>2, <2>3 DEF TypeOK
<1> QED BY <1>4, <1>5, <1>6, <1>7, <1>8, <1>9 DEF LoadStep

\* A call that goes on with another row, or another previous slug.
LEMMA CallWith ==
    ASSUME NEW k \in Call, NEW r \in Row, NEW s \in Slugs
    PROVE  /\ [k EXCEPT !.p = r] \in Call
           /\ [k EXCEPT !.p = r, !.was = s] \in Call
BY DEF Call

LEMMA CallTypeKept ==
    ASSUME TypeInv, NEW c \in Calls, CallStep(c) \/ CallFault(c)
    PROVE  TypeInv'
<1> USE DEF TypeInv
<1> DEFINE k == call[c]
<1>1. k \in Call /\ row \in Row /\ k.p \in Row /\ k.slug \in Slugs /\ k.status \in Statuses
      /\ k.at \in Instances /\ k.age \in Nat /\ row.slug \in Slugs
      /\ k.p.slug \in Slugs /\ k.p.ver \in Nat
  BY DEF TypeOK, Call, Row
<1>2. Touched(c) \in SUBSET Slugs
  BY TouchedType
<1>3. CASE Read(c)
  <2>1. call' \in [Calls -> Call] /\ PcInv'
    <3>1. CASE Advance(c, [call[c] EXCEPT !.p = row, !.was = row.slug], 1)
      BY <1>1, <3>1, CallWith, Advances
    <3>2. CASE End(c)
      BY <3>2, Ends
    <3> QED BY <1>3, <3>1, <3>2 DEF Read
  <2> QED BY <1>3, <2>1 DEF Read, TypeOK
<1>4. CASE Insert(c)
  <2>1. CASE row.state = "none"
    <3>1. PICK r : r = [NoRow EXCEPT !.state = "live", !.slug = call[c].slug]
      OBVIOUS
    <3>2. r \in Row
      BY <1>1, <3>1, IdleTypes DEF Row
    <3>3. Commit(c, r) /\ Advance(c, [call[c] EXCEPT !.p = row'], 1)
      BY <1>4, <2>1, <3>1 DEF Insert
    <3>4. row' \in Row /\ raced' \subseteq Slugs
      BY <3>2, <3>3, Commits
    <3>5. call' \in [Calls -> Call] /\ PcInv'
      BY <1>1, <3>3, <3>4, CallWith, Advances
    <3> QED BY <1>4, <3>4, <3>5 DEF Insert, TypeOK
  <2>2. CASE row.state # "none"
    <3>1. call' \in [Calls -> Call] /\ PcInv'
      BY <1>4, <2>2, Ends DEF Insert
    <3> QED BY <1>4, <2>2, <3>1 DEF Insert, TypeOK
  <2> QED BY <2>1, <2>2
<1>5. CASE Update(c)
  <2>1. PICK r : r = IF k.op = "edit" THEN [k.p EXCEPT !.slug = k.slug] ELSE k.p
    OBVIOUS
  <2>2. r \in Row
    BY <1>1, <2>1 DEF Row
  <2>3. Commit(c, r) /\ Advance(c, [call[c] EXCEPT !.p = row'], 1)
    BY <1>5, <2>1 DEF Update
  <2>4. row' \in Row /\ raced' \subseteq Slugs
    BY <2>2, <2>3, Commits
  <2>5. call' \in [Calls -> Call] /\ PcInv'
    BY <1>1, <2>3, <2>4, CallWith, Advances
  <2> QED BY <1>5, <2>4, <2>5 DEF Update, TypeOK
<1>6. CASE Remove(c)
  <2>1. PICK r : r = [row EXCEPT !.state = "deleted"]
    OBVIOUS
  <2>2. r \in Row
    BY <1>1, <2>1 DEF Row
  <2>3. Commit(c, r) /\ Advance(c, call[c], 1)
    BY <1>6, <2>1 DEF Remove
  <2>4. row' \in Row /\ raced' \subseteq Slugs
    BY <2>2, <2>3, Commits
  <2>5. call' \in [Calls -> Call] /\ PcInv'
    BY <1>1, <2>3, Advances
  <2> QED BY <1>6, <2>4, <2>5 DEF Remove, TypeOK
<1>7. CASE Override(c)
  <2>1. CASE row.state = "live"
    <3>1. PICK r : r = [row EXCEPT !.status = call[c].status]
      OBVIOUS
    <3>2. r \in Row
      BY <1>1, <3>1 DEF Row
    <3>3. Commit(c, r) /\ Advance(c, [call[c] EXCEPT !.p = row', !.was = row.slug], 1)
      BY <1>7, <2>1, <3>1 DEF Override
    <3>4. row' \in Row /\ raced' \subseteq Slugs
      BY <3>2, <3>3, Commits
    <3>5. call' \in [Calls -> Call] /\ PcInv'
      BY <1>1, <3>3, <3>4, CallWith, Advances
    <3>6. audited' \in Statuses
      BY <1>1, <1>7, <2>1 DEF Override
    <3> QED BY <1>7, <3>4, <3>5, <3>6 DEF Override, TypeOK
  <2>2. CASE row.state # "live"
    <3>1. call' \in [Calls -> Call] /\ PcInv'
      BY <1>7, <2>2, Ends DEF Override
    <3> QED BY <1>7, <2>2, <3>1 DEF Override, TypeOK
  <2> QED BY <2>1, <2>2
<1>8. ASSUME Advance(c, call[c], 1)
      PROVE  call' \in [Calls -> Call] /\ PcInv'
  BY <1>1, <1>8, Advances
<1>9. CASE Drop(c)
  <2>1. mem' \in [Instances -> [Slugs -> Entry]]
    BY <1>1, <1>9, ForgetType DEF Drop, TypeOK
  <2> QED BY <1>8, <1>9, <2>1 DEF Drop, TypeOK
<1>10. CASE Unshare(c)
  <2>1. redis' \in [Slugs -> Entry]
    BY <1>10, ForgetType DEF Unshare, TypeOK
  <2> QED BY <1>8, <1>10, <2>1 DEF Unshare, TypeOK
<1>11. CASE Recall(c)
  <2>1. inbox' \in [Instances -> Seq(SUBSET Slugs)]
    BY <1>2, <1>11, PublishType DEF Recall
  <2> QED BY <1>8, <1>11, <2>1 DEF Recall, TypeOK
<1>12. PICK e : e = [ttl |-> MemTTL, ver |-> k.p.ver, age |-> k.age]
  OBVIOUS
<1>13. PICK f : f = [ttl |-> RedisTTL, ver |-> k.p.ver, age |-> k.age]
  OBVIOUS
<1>14. e \in Entry /\ f \in Entry
  BY <1>1, <1>12, <1>13, RuntimeAssumption DEF Entry
<1>15. CASE Store(c)
  <2>1. mem' = [mem EXCEPT ![k.at] = [mem[k.at] EXCEPT ![k.p.slug] = e]]
    BY <1>12, <1>15 DEF Store
  <2>2. mem' \in [Instances -> [Slugs -> Entry]]
    BY <1>1, <1>14, <2>1 DEF TypeOK
  <2> QED BY <1>8, <1>15, <2>2 DEF Store, TypeOK
<1>16. CASE Share(c)
  <2>1. redis' = [redis EXCEPT ![k.p.slug] = f]
    BY <1>13, <1>16 DEF Share
  <2>2. redis' \in [Slugs -> Entry]
    BY <1>1, <1>14, <2>1 DEF TypeOK
  <2> QED BY <1>8, <1>16, <2>2 DEF Share, TypeOK
<1>17. CASE Announce(c)
  <2>1. inbox' \in [Instances -> Seq(SUBSET Slugs)]
    BY <1>1, <1>17, PublishType DEF Announce
  <2> QED BY <1>8, <1>17, <2>1 DEF Announce, TypeOK
<1>18. CASE CallFault(c)
  <2>1. faults' \in 0..MaxFaults /\ raced' \subseteq Slugs
    BY <1>2, <1>18, FaultType DEF CallFault, UnshareFails, ShareFails, PublishFails
  <2>2. UNCHANGED <<row, mem, redis, inbox, load, audited>>
    BY <1>18 DEF CallFault, UnshareFails, ShareFails, PublishFails
  <2>3. call' \in [Calls -> Call] /\ PcInv'
    <3>1. CASE UnshareFails(c)
      BY <1>1, <3>1, Advances DEF UnshareFails
    <3>2. CASE ShareFails(c)
      BY <3>2, Ends DEF ShareFails
    <3>3. CASE PublishFails(c)
      BY <1>8, <3>3 DEF PublishFails
    <3> QED BY <1>18, <3>1, <3>2, <3>3 DEF CallFault
  <2> QED BY <2>1, <2>2, <2>3 DEF TypeOK
<1> QED BY <1>3, <1>4, <1>5, <1>6, <1>7, <1>9, <1>10, <1>11, <1>15, <1>16, <1>17, <1>18 DEF CallStep

LEMMA BeginTypeKept ==
    ASSUME TypeInv, NEW c \in Calls, NEW op \in Ops, NEW i \in Instances, NEW s \in Slugs,
           NEW t \in Statuses, BeginCall(c, op, i, s, t)
    PROVE  TypeInv'
<1> USE DEF TypeInv
<1>1. PICK k : k = [pc |-> 1, op |-> op, at |-> i, p |-> NoRow, age |-> 0, was |-> s,
                    slug |-> s, status |-> t, old |-> FALSE]
  OBVIOUS
<1>2. k \in Call /\ k.op = op /\ k.pc = 1
  BY <1>1, IdleTypes DEF Call
<1>3. Len(Program[op]) \in 1..8
  BY ProgramLengths
<1>4. call' = [call EXCEPT ![c] = k]
  BY <1>1 DEF BeginCall
<1>5. call' \in [Calls -> Call] /\ PcInv'
  <2>1. call \in [Calls -> Call] /\ call' \in [Calls -> Call]
    BY <1>2, <1>4 DEF TypeOK
  <2>2. call'[c] = k /\ \A x \in Calls \ {c} : call'[x] = call[x]
    BY <1>4, <2>1
  <2>3. k.pc <= Len(Program[k.op])
    <3>1. PICK n \in 1..8 : n = Len(Program[op])
      BY <1>3
    <3>2. 1 <= n
      OBVIOUS
    <3> QED BY <1>2, <3>1, <3>2, Zenon
  <2> QED BY <2>1, <2>2, <2>3 DEF PcInv
<1> QED BY <1>5 DEF BeginCall, TypeOK

\* A tick, for the calls and the loads.
LEMMA TickType ==
    ASSUME TypeInv, Tick
    PROVE  TypeInv'
<1> USE DEF TypeInv
<1>1. mem' \in [Instances -> [Slugs -> Entry]] /\ redis' \in [Slugs -> Entry]
  BY AgedType DEF Tick, TypeOK
<1>2. ASSUME NEW c \in Calls
      PROVE  call'[c] \in Call /\ call'[c].pc = call[c].pc /\ call'[c].op = call[c].op
  <2>1. call[c] \in Call
    BY DEF TypeOK
  <2>2. CASE Step(c) = "idle"
    BY <2>1, <2>2 DEF Tick
  <2>3. CASE Step(c) # "idle"
    <3>1. PICK a : a = IF Written(c) THEN call[c].age + 1 ELSE call[c].age
      OBVIOUS
    <3>2. a \in Nat
      BY <2>1, <3>1 DEF Call
    <3>3. call'[c] = [call[c] EXCEPT !.old = TRUE, !.age = a]
      BY <2>3, <3>1 DEF Tick
    <3> QED BY <2>1, <3>2, <3>3 DEF Call
  <2> QED BY <2>2, <2>3
<1>3. call' \in [Calls -> Call]
  <2>1. DOMAIN call' = Calls /\ call' = [c \in Calls |-> call'[c]]
    BY DEF Tick
  <2> QED BY <1>2, <2>1
<1>4. PcInv'
  BY <1>2 DEF PcInv
<1>5. ASSUME NEW i \in Instances, NEW s \in Slugs
      PROVE  load'[i][s] \in Loading
  <2>1. load[i][s] \in Loading
    BY DEF TypeOK
  <2>2. CASE load[i][s].stage = "idle"
    BY <2>1, <2>2 DEF Tick
  <2>3. CASE load[i][s].stage # "idle"
    <3>1. PICK a : a = load[i][s].age + 1
      OBVIOUS
    <3>2. a \in Nat
      BY <2>1, <3>1 DEF Loading
    <3>3. load'[i][s] = [load[i][s] EXCEPT !.old = TRUE, !.age = a]
      BY <2>3, <3>1 DEF Tick
    <3> QED BY <2>1, <3>2, <3>3 DEF Loading
  <2> QED BY <2>2, <2>3
<1>6. load' \in [Instances -> [Slugs -> Loading]]
  <2>1. load' = [i \in Instances |-> [s \in Slugs |-> load'[i][s]]]
    BY DEF Tick
  <2> QED BY <1>5, <2>1
<1> QED BY <1>1, <1>3, <1>4, <1>6 DEF Tick, TypeOK

\* The load of Warm, about to store the project it has listed.
WarmLoad(s) == [IdleLoad EXCEPT !.stage = "memory", !.ver = Current(s)]

\* What a restart leaves of the calls and the loads.
LEMMA Restarts ==
    ASSUME TypeInv, NEW i \in Instances, Restart(i)
    PROVE  /\ \A c \in Calls : call'[c] \in {IdleCall, call[c]}
           /\ \A c \in Calls : call[c].pc # 0 /\ call[c].at = i => call'[c] = IdleCall
           /\ \A c \in Calls : call[c].at # i => call'[c] = call[c]
           /\ \A j \in Instances, s \in Slugs :
                load'[j][s] = IF j # i THEN load[j][s]
                              ELSE IF Current(s) = 0 THEN IdleLoad
                              ELSE WarmLoad(s)
           /\ DOMAIN call' = Calls /\ call' = [c \in Calls |-> call'[c]]
           /\ DOMAIN load' = Instances
           /\ \A j \in Instances : DOMAIN load'[j] = Slugs
           /\ mem' = [mem EXCEPT ![i] = [s \in Slugs |-> NoEntry]]
           /\ inbox' = [inbox EXCEPT ![i] = <<>>]
           /\ UNCHANGED <<row, redis, audited>>
           /\ \A s \in Slugs \ raced' :
                /\ \A c \in Calls : call[c].at = i /\ Written(c) => s \notin Touched(c)
                /\ Current(s) # 0 => \A c \in Calls : ~Written(c)
           /\ raced \subseteq raced' /\ raced' \subseteq Slugs /\ faults' \in 0..MaxFaults
<1> USE DEF TypeInv
<1> DEFINE cut == {c \in Calls : Step(c) # "idle" /\ call[c].at = i}
           lost == UNION {Touched(c) : c \in {d \in cut : Written(d)}}
           warm == {s \in Slugs : Current(s) # 0}
           all == lost \union IF \E c \in Calls : Written(c) THEN warm ELSE {}
<1>1. Fault("restart", all)
  BY DEF Restart
<1>2. all \in SUBSET Slugs
  BY TouchedType
<1>3. raced' = raced \union all /\ raced' \subseteq Slugs /\ faults' \in 0..MaxFaults
  BY <1>1, <1>2, FaultType
<1>4. call' = [c \in Calls |-> IF c \in cut THEN IdleCall ELSE call[c]]
  BY DEF Restart
<1>5. load' = [load EXCEPT ![i] = [s \in Slugs |-> IF s \in warm
                                   THEN [IdleLoad EXCEPT !.stage = "memory", !.ver = Current(s)]
                                   ELSE IdleLoad]]
  BY DEF Restart
<1>6. \A c \in Calls : call[c].pc # 0 => Step(c) # "idle"
  <2>1. ASSUME NEW c \in Calls, call[c].pc # 0
        PROVE  Step(c) # "idle"
    <3>1. call[c].op \in Ops /\ call[c].pc \in 0..8 /\ call[c].pc <= Len(Program[call[c].op])
      BY DEF TypeOK, Call, PcInv
    <3>2. call[c].pc \in 1..Len(Program[call[c].op])
      BY <2>1, <3>1, ProgramLengths
    <3>3. Program[call[c].op][call[c].pc] # "idle"
      BY SMTT(30), <3>1, <3>2, Programs DEF AllSteps
    <3> QED BY <2>1, <3>3 DEF Step
  <2> QED BY <2>1
<1>7. \A c \in Calls : Written(c) => Step(c) # "idle"
  BY DEF Written
<1>8. ASSUME NEW s \in Slugs \ raced'
      PROVE  /\ \A c \in Calls : call[c].at = i /\ Written(c) => s \notin Touched(c)
             /\ Current(s) # 0 => \A c \in Calls : ~Written(c)
  BY <1>3, <1>7
<1>9. mem' = [mem EXCEPT ![i] = [s \in Slugs |-> NoEntry]]
      /\ inbox' = [inbox EXCEPT ![i] = <<>>]
      /\ UNCHANGED <<row, redis, audited>>
  BY DEF Restart
<1>10. DOMAIN load = Instances /\ \A j \in Instances : DOMAIN load[j] = Slugs
  BY DEF TypeOK
<1>11. \A c \in Calls : call'[c] \in {IdleCall, call[c]}
  BY <1>4
<1>12. \A c \in Calls : call[c].pc # 0 /\ call[c].at = i => call'[c] = IdleCall
  BY <1>4, <1>6
<1>16. \A c \in Calls : call[c].at # i => call'[c] = call[c]
  BY <1>4
<1>13. DOMAIN call' = Calls /\ call' = [c \in Calls |-> call'[c]]
  BY <1>4
<1>14. \A j \in Instances, s \in Slugs :
          load'[j][s] = IF j # i THEN load[j][s]
                        ELSE IF Current(s) = 0 THEN IdleLoad
                        ELSE WarmLoad(s)
  BY <1>5, <1>10 DEF WarmLoad
<1>15. DOMAIN load' = Instances /\ \A j \in Instances : DOMAIN load'[j] = Slugs
  BY <1>5, <1>10
<1> HIDE DEF cut, lost, warm, all
<1> QED BY <1>3, <1>8, <1>9, <1>11, <1>12, <1>13, <1>14, <1>15, <1>16

LEMMA RestartType ==
    ASSUME TypeInv, NEW i \in Instances, Restart(i)
    PROVE  TypeInv'
<1> USE DEF TypeInv
<1>1. Len(Program[IdleCall.op]) \in 1..8 /\ IdleCall \in Call /\ IdleCall.pc = 0
  BY IdleTypes DEF IdleCall, Program, CreateSteps
<1>2. call' \in [Calls -> Call] /\ PcInv'
  <2>1. ASSUME NEW c \in Calls
        PROVE  call'[c] \in Call /\ call'[c].pc <= Len(Program[call'[c].op])
    <3>1. call[c] \in Call /\ call[c].pc <= Len(Program[call[c].op])
      BY DEF TypeOK, PcInv
    <3>2. call'[c] = IdleCall \/ call'[c] = call[c]
      BY Restarts
    <3>3. IdleCall.pc <= Len(Program[IdleCall.op])
      BY <1>1
    <3> QED BY <1>1, <3>1, <3>2, <3>3
  <2>2. call' = [c \in Calls |-> call'[c]]
    BY Restarts
  <2> QED BY <2>1, <2>2 DEF PcInv
<1>3. load' \in [Instances -> [Slugs -> Loading]]
  <2>1. ASSUME NEW j \in Instances, NEW s \in Slugs
        PROVE  load'[j][s] \in Loading
    <3>1. WarmLoad(s) \in Loading
      BY IdleTypes, CurrentType DEF Loading, LoadStages, WarmLoad
    <3>2. load'[j][s] = IF j # i THEN load[j][s]
                        ELSE IF Current(s) = 0 THEN IdleLoad
                        ELSE WarmLoad(s)
      BY Restarts
    <3>3. load[j][s] \in Loading
      BY DEF TypeOK
    <3> QED BY <3>1, <3>2, <3>3, IdleTypes
  <2>2. load' = [j \in Instances |-> load'[j]]
        /\ \A j \in Instances : load'[j] = [s \in Slugs |-> load'[j][s]]
    <3>1. load' = [load EXCEPT ![i] = load'[i]]
      BY DEF Restart, TypeOK
    <3> QED BY <3>1 DEF Restart, TypeOK
  <2> QED BY <2>1, <2>2
<1>4. mem' \in [Instances -> [Slugs -> Entry]] /\ inbox' \in [Instances -> Seq(SUBSET Slugs)]
  <2>1. mem' = [mem EXCEPT ![i] = [s \in Slugs |-> NoEntry]] /\ inbox' = [inbox EXCEPT ![i] = <<>>]
    BY Restarts
  <2>2. <<>> \in Seq(SUBSET Slugs) /\ [s \in Slugs |-> NoEntry] \in [Slugs -> Entry]
    BY IdleTypes
  <2> QED BY <2>1, <2>2 DEF TypeOK
<1> QED BY <1>2, <1>3, <1>4, Restarts DEF TypeOK

LEMMA TypeStep ==
    TypeInv /\ [Next]_vars => TypeInv'
<1> SUFFICES ASSUME TypeInv, [Next]_vars
             PROVE  TypeInv'
  OBVIOUS
<1>1. CASE \E i \in Instances, s \in Slugs : StartLoad(i, s) \/ LoadStep(i, s) \/ LoadFault(i, s)
  BY <1>1, LoadTypeKept
<1>2. CASE \E c \in Calls : CallStep(c) \/ CallFault(c)
  BY <1>2, CallTypeKept
<1>3. CASE \E c \in Calls, op \in Ops, i \in Instances, s \in Slugs, t \in Statuses :
             BeginCall(c, op, i, s, t)
  BY <1>3, BeginTypeKept
<1>4. ASSUME NEW i \in Instances, Deliver(i) \/ LoseMessage(i)
      PROVE  TypeInv'
  <2> USE DEF TypeInv
  <2>1. inbox[i] # <<>> /\ inbox' = [inbox EXCEPT ![i] = Tail(@)] /\ UNCHANGED <<row, redis, call, load, audited>>
    BY <1>4 DEF Deliver, LoseMessage
  <2>2. inbox' \in [Instances -> Seq(SUBSET Slugs)] /\ Head(inbox[i]) \in SUBSET Slugs
    BY <2>1, TailType
  <2>3. mem' \in [Instances -> [Slugs -> Entry]]
    <3>1. mem \in [Instances -> [Slugs -> Entry]] /\ Forget(mem[i], Head(inbox[i])) \in [Slugs -> Entry]
      BY ForgetType DEF TypeOK
    <3>2. mem' = mem \/ mem' = [mem EXCEPT ![i] = Forget(mem[i], Head(inbox[i]))]
      BY <1>4 DEF Deliver, LoseMessage
    <3> QED BY <3>1, <3>2
  <2>4. faults' \in 0..MaxFaults /\ raced' \subseteq Slugs
    <3>1. CASE Deliver(i)
      BY <3>1 DEF Deliver, TypeOK
    <3>2. CASE LoseMessage(i)
      BY <2>2, <3>2, FaultType DEF LoseMessage
    <3> QED BY <1>4, <3>1, <3>2
  <2> QED BY <2>1, <2>2, <2>3, <2>4 DEF TypeOK, PcInv
<1>5. CASE \E i \in Instances : Restart(i)
  BY <1>5, RestartType
<1>6. CASE Tick
  BY <1>6, TickType
<1>7. CASE UNCHANGED vars
  BY <1>7 DEF vars, TypeInv, TypeOK, PcInv
<1> QED BY <1>1, <1>2, <1>3, <1>4, <1>5, <1>6, <1>7 DEF Next

LEMMA TypeInit == Init => TypeInv
<1> SUFFICES ASSUME Init PROVE TypeInv
  OBVIOUS
<1>1. <<>> \in Seq(SUBSET Slugs)
  OBVIOUS
<1>2. IdleCall.pc = 0 /\ Len(Program[IdleCall.op]) \in 1..8
  BY DEF IdleCall, Program, CreateSteps
<1> QED BY <1>1, <1>2, IdleTypes, RuntimeAssumption DEF Init, TypeInv, TypeOK, PcInv

\* The caches, the calls and the loads keep their types, and a call stands
\* within the program of its operation (handlers.go, admin.go).
THEOREM RuntimeTypes == Spec => []TypeOK
BY TypeInit, TypeStep, PTL DEF Spec, TypeInv

-----------------------------------------------------------------------------
(* What the steps of a call do to its place in the program. *)

\* The fields of call c, its place and its age apart, are those of k.
SameCall(c, k) ==
    /\ call'[c].op = k.op /\ call'[c].at = k.at /\ call'[c].p = k.p /\ call'[c].was = k.was
    /\ call'[c].age = k.age /\ call'[c].old = k.old /\ call'[c].slug = k.slug

Others(c) ==
    \A x \in Calls \ {c} : call'[x] = call[x] /\ Step(x)' = Step(x) /\ Touched(x)' = Touched(x)

LEMMA OthersStay ==
    ASSUME NEW c \in Calls, \A x \in Calls \ {c} : call'[x] = call[x]
    PROVE  Others(c)
BY DEF Others, Step, Touched

LEMMA IdleStep ==
    ASSUME NEW c \in Calls, call'[c] = IdleCall
    PROVE  Step(c)' = "idle" /\ call'[c].age = 0 /\ call'[c].old = FALSE
BY DEF Step, IdleCall

LEMMA CallGoesOn ==
    ASSUME TypeInv, NEW c \in Calls, NEW k \in Call, k.pc = call[c].pc, k.op = call[c].op,
           Step(c) # "idle", Advance(c, k, 1)
    PROVE  /\ Others(c)
           /\ Step(c)' = After(call[c].op, Step(c))
           /\ IF Step(c)' = "idle" THEN call'[c] = IdleCall ELSE SameCall(c, k)
<1> DEFINE op == call[c].op
           n == call[c].pc
<1>1. op \in Ops /\ n \in 1..Len(Program[op]) /\ Step(c) = Program[op][n]
  BY StepPlace
<1>2. Others(c)
  BY Advances, OthersStay
<1>3. CASE n + 1 > Len(Program[op])
  <2>1. After(op, Step(c)) = "idle"
    BY <1>1, <1>3, Programs
  <2>2. call'[c] = IdleCall
    BY <1>3, Advances
  <2> QED BY <1>2, <2>1, <2>2, IdleStep
<1>4. CASE ~(n + 1 > Len(Program[op]))
  <2>1. call'[c] = [k EXCEPT !.pc = k.pc + 1]
    BY <1>4, Advances
  <2>2. call'[c].pc = n + 1 /\ call'[c].op = op /\ SameCall(c, k)
    BY <2>1 DEF SameCall, Call
  <2>3. n + 1 # 0 /\ n + 1 \in 1..Len(Program[op])
    BY <1>1, <1>4, ProgramLengths
  <2>4. Step(c)' = Program[op][n + 1]
    BY <2>2, <2>3 DEF Step
  <2>5. Program[op][n + 1] \in AllSteps
    BY <1>1, <2>3, Programs
  <2> QED BY <1>1, <1>2, <1>4, <2>2, <2>4, <2>5, Programs DEF AllSteps
<1> QED BY <1>3, <1>4

\* A call that skips the message after a failed DEL.
LEMMA CallSkips ==
    ASSUME TypeInv, NEW c \in Calls, Step(c) = "unshare", Advance(c, call[c], 2)
    PROVE  /\ Others(c)
           /\ Step(c)' = After(call[c].op, "recall")
           /\ IF Step(c)' = "idle" THEN call'[c] = IdleCall ELSE SameCall(c, call[c])
<1> DEFINE op == call[c].op
           n == call[c].pc
<1>1. op \in Ops /\ n \in 1..Len(Program[op]) /\ Step(c) = Program[op][n] /\ call[c] \in Call
  BY StepPlace
<1>2. Others(c)
  BY <1>1, Advances, OthersStay
<1>3. CASE op # "edit"
  <2>1. n + 2 > Len(Program[op]) /\ After(op, "recall") = "idle"
    BY <1>1, <1>3, Programs DEF After
  <2>2. call'[c] = IdleCall
    BY <1>1, <2>1, Advances
  <2> QED BY <1>2, <2>1, <2>2, IdleStep
<1>4. CASE op = "edit"
  <2>1. ~(n + 2 > Len(Program[op])) /\ Program[op][n + 2] = "store" /\ After(op, "recall") = "store"
    BY <1>1, <1>4, Programs DEF After
  <2>2. call'[c] = [call[c] EXCEPT !.pc = n + 2]
    BY <1>1, <2>1, Advances
  <2>3. call'[c].pc = n + 2 /\ call'[c].op = op /\ SameCall(c, call[c])
    BY <1>1, <2>2 DEF SameCall, Call
  <2>4. Step(c)' = "store"
    BY <1>1, <2>1, <2>3 DEF Step
  <2> QED BY <1>2, <2>1, <2>3, <2>4
<1> QED BY <1>3, <1>4

-----------------------------------------------------------------------------
(* How old a record in the caches can be. *)

\* A tick may have passed since a call or a load began to hold a record.
Late(old) == IF old THEN 1 ELSE 0

CallAge(c) ==
    /\ call[c].age <= Late(call[c].old)
    /\ Written(c) /\ call[c].op # "delete" => call[c].p.ver # 0

LoadAge(l) ==
    /\ l.stage = "hit" => l.age <= BackendTTL(l.ver) + Late(l.old)
    /\ l.stage \in {"memory", "backend"} => l.age <= Late(l.old)

\* The age of an entry and what is left of its lifetime.
RedisAge(e) == Present(e) => e.ttl + e.age <= BackendTTL(e.ver) + 1
MemAge(e) == Present(e) => e.ttl + e.age <= MaxAge(e.ver) + 1

AgeInv ==
    /\ \A c \in Calls : CallAge(c)
    /\ \A i \in Instances, s \in Slugs : LoadAge(load[i][s])
    /\ \A s \in Slugs : RedisAge(redis[s])
    /\ \A i \in Instances, s \in Slugs : MemAge(mem[i][s])

LEMMA Lifetimes ==
    \A v : /\ BackendTTL(v) \in Nat /\ BackendTTL(v) > 0 /\ BackendTTL(v) <= RedisTTL
           /\ v # 0 => BackendTTL(v) = RedisTTL
           /\ MaxAge(v) = BackendTTL(v) + MemTTL
BY RuntimeAssumption DEF BackendTTL, MaxAge

LEMMA NoEntryAge ==
    RedisAge(NoEntry) /\ MemAge(NoEntry) /\ LoadAge(IdleLoad) /\ Late(FALSE) = 0 /\ Late(TRUE) = 1
BY DEF RedisAge, MemAge, LoadAge, NoEntry, IdleLoad, Present, Late

LEMMA AgedAge ==
    ASSUME NEW e \in Entry
    PROVE  (RedisAge(e) => RedisAge(Aged(e))) /\ (MemAge(e) => MemAge(Aged(e)))
<1>1. CASE e.ttl > 1
  <2>1. PICK t, a : t = e.ttl - 1 /\ a = e.age + 1
    OBVIOUS
  <2>2. Aged(e) = [e EXCEPT !.ttl = t, !.age = a] /\ t \in Nat /\ a \in Nat /\ t + a = e.ttl + e.age
    BY <1>1, <2>1 DEF Aged, Entry
  <2>3. Aged(e).ttl + Aged(e).age = e.ttl + e.age /\ Aged(e).ver = e.ver
    BY <2>2 DEF Entry
  <2>4. Present(e)
    BY <1>1 DEF Present, Entry
  <2> QED BY <2>3, <2>4 DEF RedisAge, MemAge
<1>2. CASE ~(e.ttl > 1)
  BY <1>2, NoEntryAge DEF Aged
<1> QED BY <1>1, <1>2

\* The ages are kept by a step that keeps them at every place.
LEMMA LoadsAged ==
    ASSUME NEW i \in Instances, NEW s \in Slugs, AgeInv, LoadAge(load'[i][s]),
           \A j \in Instances, t \in Slugs : j # i \/ t # s => load'[j][t] = load[j][t]
    PROVE  \A j \in Instances, t \in Slugs : LoadAge(load'[j][t])
BY DEF AgeInv

LEMMA CallsAged ==
    ASSUME NEW c \in Calls, AgeInv, Others(c), CallAge(c)'
    PROVE  \A x \in Calls : CallAge(x)'
BY DEF AgeInv, Others, CallAge, Written

LEMMA MemAged ==
    ASSUME TypeOK, NEW i \in Instances, NEW s \in Slugs, NEW e, AgeInv, MemAge(e),
           mem' = [mem EXCEPT ![i][s] = e]
    PROVE  \A j \in Instances, t \in Slugs : MemAge(mem'[j][t])
BY DEF AgeInv, TypeOK

LEMMA MemForgotten ==
    ASSUME TypeOK, NEW i \in Instances, NEW ss, AgeInv, mem' = [mem EXCEPT ![i] = Forget(@, ss)]
    PROVE  \A j \in Instances, t \in Slugs : MemAge(mem'[j][t])
BY NoEntryAge DEF AgeInv, TypeOK, Forget

LEMMA LoadAgeKept ==
    ASSUME TypeInv, AgeInv, NEW i \in Instances, NEW s \in Slugs,
           StartLoad(i, s) \/ LoadStep(i, s) \/ LoadFault(i, s)
    PROVE  AgeInv'
<1> DEFINE l == load[i][s]
<1>1. TypeOK /\ l \in Loading /\ l.ver \in Nat /\ l.age \in Nat /\ redis[s] \in Entry
      /\ redis[s].ver \in Nat /\ redis[s].age \in Nat /\ redis[s].ttl \in Nat
  BY DEF TypeInv, TypeOK, Loading, Entry
<1>2. LoadAge(l) /\ RedisAge(redis[s]) /\ Late(l.old) \in 0..1
  BY DEF AgeInv, Late
<1>3. ASSUME UNCHANGED call
      PROVE  \A c \in Calls : CallAge(c)'
  BY <1>3 DEF AgeInv, CallAge, Written, Step
<1>4. CASE StartLoad(i, s)
  <2>1. LoadAge(load'[i][s])
        /\ \A j \in Instances, t \in Slugs : j # i \/ t # s => load'[j][t] = load[j][t]
    BY <1>1, <1>4 DEF StartLoad, TypeOK, LoadAge
  <2> QED BY <1>3, <1>4, <2>1, LoadsAged DEF StartLoad, AgeInv
<1>5. CASE AskRedis(i, s)
  <2>1. CASE Holding(i, s, "hit", redis[s].ver, redis[s].age) /\ Present(redis[s])
    <3>1. redis[s].age <= BackendTTL(redis[s].ver)
      BY <1>1, <1>2, <2>1, Lifetimes DEF RedisAge, Present
    <3>2. Held(i, s, "hit", redis[s].ver, redis[s].age)
      <4>1. "hit" \in LoadStages
        BY DEF LoadStages
      <4> QED BY Holds, <1>1, <2>1, <4>1
    <3>3. LoadAge(load'[i][s])
      BY <1>1, <1>2, <3>1, <3>2, Lifetimes DEF LoadAge, Held
    <3> QED BY <1>3, <1>5, <3>2, <3>3, LoadsAged DEF AskRedis, AgeInv, Held
  <2>2. CASE Holding(i, s, "postgres", 0, 0)
    <3>1. LoadAge(load'[i][s])
          /\ \A j \in Instances, t \in Slugs : j # i \/ t # s => load'[j][t] = load[j][t]
      BY <1>1, <2>2, Holds DEF LoadStages, LoadAge, Held
    <3> QED BY <1>3, <1>5, <3>1, LoadsAged DEF AskRedis, AgeInv
  <2> QED BY <1>5, <2>1, <2>2 DEF AskRedis, Found
<1>6. CASE AskPostgres(i, s)
  <2>1. Holding(i, s, "memory", Current(s), 0) /\ Current(s) \in Nat
    BY <1>1, <1>6, CurrentType DEF AskPostgres
  <2>2. Held(i, s, "memory", Current(s), 0)
    <3>1. "memory" \in LoadStages
      BY DEF LoadStages
    <3> QED BY Holds, <1>1, <2>1, <3>1
  <2>3. LoadAge(load'[i][s])
    BY <1>2, <2>2 DEF LoadAge, Held
  <2> QED BY <1>3, <1>6, <2>2, <2>3, LoadsAged DEF AskPostgres, AgeInv, Held
<1>7. CASE StoreMemory(i, s)
  <2>1. PICK e : e = [ttl |-> MemTTL, ver |-> l.ver, age |-> l.age]
    OBVIOUS
  <2>2. l.age <= BackendTTL(l.ver) + 1
    BY <1>1, <1>2, <1>7, Lifetimes DEF StoreMemory, LoadAge
  <2>3. MemAge(e)
    BY <1>1, <2>1, <2>2, Lifetimes, RuntimeAssumption DEF MemAge
  <2>4. \A j \in Instances, t \in Slugs : MemAge(mem'[j][t])
    BY <1>1, <1>7, <2>1, <2>3, MemAged DEF StoreMemory
  <2>5. CASE l.stage = "memory"
    <3>1. Holding(i, s, "backend", l.ver, l.age)
      BY <1>7, <2>5 DEF StoreMemory
    <3>2. Held(i, s, "backend", l.ver, l.age)
      <4>1. "backend" \in LoadStages
        BY DEF LoadStages
      <4> QED BY Holds, <1>1, <3>1, <4>1
    <3>3. LoadAge(load'[i][s])
      BY <1>2, <2>5, <3>2 DEF LoadAge, Held
    <3> QED BY <1>3, <1>7, <2>4, <3>2, <3>3, LoadsAged DEF StoreMemory, AgeInv, Held
  <2>6. CASE l.stage # "memory"
    <3>1. Loaded(i, s)
      BY <1>7, <2>6 DEF StoreMemory
    <3>2. LoadAge(load'[i][s])
          /\ \A j \in Instances, t \in Slugs : j # i \/ t # s => load'[j][t] = load[j][t]
      BY <1>1, <3>1, LoadEnds, NoEntryAge
    <3> QED BY <1>3, <1>7, <2>4, <3>2, LoadsAged DEF StoreMemory, AgeInv
  <2> QED BY <2>5, <2>6
<1>8. CASE StoreBackend(i, s)
  <2>1. PICK e : e = [ttl |-> BackendTTL(l.ver), ver |-> l.ver, age |-> l.age]
    OBVIOUS
  <2>2. RedisAge(e)
    BY <1>1, <1>2, <1>8, <2>1, Lifetimes DEF StoreBackend, LoadAge, RedisAge
  <2>3. \A t \in Slugs : RedisAge(redis'[t])
    BY <1>8, <2>1, <2>2, <1>1 DEF StoreBackend, AgeInv, TypeOK
  <2>4. LoadAge(load'[i][s])
        /\ \A j \in Instances, t \in Slugs : j # i \/ t # s => load'[j][t] = load[j][t]
    BY <1>1, <1>8, LoadEnds, NoEntryAge DEF StoreBackend
  <2> QED BY <1>3, <1>8, <2>3, <2>4, LoadsAged DEF StoreBackend, AgeInv
<1>9. CASE LoadFault(i, s)
  <2>1. LoadAge(load'[i][s])
        /\ \A j \in Instances, t \in Slugs : j # i \/ t # s => load'[j][t] = load[j][t]
    <3>1. CASE Holding(i, s, "postgres", 0, 0)
      BY <1>1, <3>1, Holds DEF LoadStages, LoadAge, Held
    <3>2. CASE Loaded(i, s)
      BY <1>1, <3>2, LoadEnds, NoEntryAge
    <3> QED BY <1>9, <3>1, <3>2 DEF LoadFault, AskRedisFails, AskPostgresFails, StoreBackendFails
  <2>2. UNCHANGED <<mem, redis, call>>
    BY <1>9 DEF LoadFault, AskRedisFails, AskPostgresFails, StoreBackendFails
  <2> QED BY <1>3, <2>1, <2>2, LoadsAged DEF AgeInv
<1> QED BY <1>4, <1>5, <1>6, <1>7, <1>8, <1>9 DEF LoadStep

\* A call that goes on with its record, or with a row just committed.
LEMMA IdleAge ==
    ASSUME NEW c \in Calls, call'[c] = IdleCall
    PROVE  CallAge(c)'
<1>1. Step(c)' = "idle" /\ call'[c].age = 0 /\ call'[c].old = FALSE
  BY IdleStep
<1>2. ~Written(c)'
  BY <1>1 DEF Written
<1> QED BY <1>1, <1>2 DEF CallAge, Late

LEMMA CallAgeGoesOn ==
    ASSUME TypeInv, AgeInv, NEW c \in Calls, NEW k \in Call, k.pc = call[c].pc, k.op = call[c].op,
           k.age = call[c].age, k.old = call[c].old, Step(c) # "idle", Advance(c, k, 1),
           Written(c) => k.p = call[c].p,
           Step(c) \in Writes /\ k.op # "delete" => k.p.ver # 0
    PROVE  \A x \in Calls : CallAge(x)'
<1>1. Others(c) /\ Step(c)' = After(call[c].op, Step(c))
      /\ IF Step(c)' = "idle" THEN call'[c] = IdleCall ELSE SameCall(c, k)
  BY CallGoesOn
<1>2. CallAge(c)
  BY DEF AgeInv
<1>3. CASE Step(c)' = "idle"
  BY <1>1, <1>3, IdleAge, CallsAged
<1>4. CASE Step(c)' # "idle"
  <2>1. SameCall(c, k)
    BY <1>1, <1>4
  <2>2. call'[c].age <= Late(call'[c].old)
    BY <1>2, <2>1 DEF CallAge, SameCall
  <2>3. Step(c) = "read" => Step(c)' \in {"update", "remove"}
    BY <1>1 DEF After
  <2>4. Written(c)' /\ call'[c].op # "delete" => call'[c].p.ver # 0
    BY <1>2, <2>1, <2>3 DEF CallAge, SameCall, Written, Writes
  <2> QED BY <1>1, <2>2, <2>4, CallsAged DEF CallAge
<1> QED BY <1>3, <1>4

LEMMA CallAgeEnds ==
    ASSUME TypeInv, AgeInv, NEW c \in Calls, call' = [call EXCEPT ![c] = IdleCall]
    PROVE  \A x \in Calls : CallAge(x)'
<1>1. call'[c] = IdleCall /\ \A x \in Calls \ {c} : call'[x] = call[x]
  BY DEF TypeInv, TypeOK
<1> QED BY <1>1, OthersStay, IdleAge, CallsAged

\* Commits the record a call goes on with.
LEMMA CommitAge ==
    ASSUME TypeInv, AgeInv, NEW c \in Calls, NEW r \in Row, NEW s \in Slugs, Commit(c, r),
           Step(c) \in Writes,
           \/ Advance(c, [call[c] EXCEPT !.p = row'], 1)
           \/ Advance(c, [call[c] EXCEPT !.p = row', !.was = s], 1)
    PROVE  \A x \in Calls : CallAge(x)'
<1>1. row' \in Row /\ row'.ver # 0
  BY Commits DEF TypeInv, TypeOK, Row
<1>2. call[c] \in Call /\ Step(c) # "idle" /\ ~Written(c)
  BY DEF TypeInv, TypeOK, Writes, Written
<1>3. ASSUME NEW k, k = [call[c] EXCEPT !.p = row'] \/ k = [call[c] EXCEPT !.p = row', !.was = s]
      PROVE  /\ k \in Call /\ k.pc = call[c].pc /\ k.op = call[c].op
             /\ k.age = call[c].age /\ k.old = call[c].old /\ k.p = row'
  BY <1>1, <1>2, <1>3 DEF Call
<1>4. PICK k : (k = [call[c] EXCEPT !.p = row'] \/ k = [call[c] EXCEPT !.p = row', !.was = s])
               /\ Advance(c, k, 1)
  OBVIOUS
<1>5. /\ k \in Call /\ k.pc = call[c].pc /\ k.op = call[c].op
      /\ k.age = call[c].age /\ k.old = call[c].old /\ k.p = row'
  BY <1>3, <1>4
<1> QED BY <1>1, <1>2, <1>4, <1>5, CallAgeGoesOn

LEMMA CallAgeKept ==
    ASSUME TypeInv, AgeInv, NEW c \in Calls, CallStep(c) \/ CallFault(c)
    PROVE  AgeInv'
<1> DEFINE k == call[c]
<1>1. k \in Call /\ row \in Row /\ k.p \in Row /\ k.slug \in Slugs /\ row.slug \in Slugs
      /\ k.at \in Instances /\ k.age \in Nat /\ k.p.slug \in Slugs /\ k.p.ver \in Nat
  BY DEF TypeInv, TypeOK, Call, Row
<1>2. TypeOK /\ CallAge(c) /\ Late(k.old) \in 0..1
  BY DEF TypeInv, AgeInv, Late
<1>3. ASSUME UNCHANGED load
      PROVE  \A i \in Instances, s \in Slugs : LoadAge(load'[i][s])
  BY <1>3 DEF AgeInv
<1>4. ASSUME UNCHANGED mem
      PROVE  \A i \in Instances, s \in Slugs : MemAge(mem'[i][s])
  BY <1>4 DEF AgeInv
<1>5. ASSUME UNCHANGED redis
      PROVE  \A s \in Slugs : RedisAge(redis'[s])
  BY <1>5 DEF AgeInv
<1>6. ASSUME End(c)
      PROVE  \A x \in Calls : CallAge(x)'
  BY <1>6, CallAgeEnds DEF End
<1>7. ASSUME Advance(c, call[c], 1), Step(c) # "idle", Step(c) \notin Writes \/ k.op = "delete"
      PROVE  \A x \in Calls : CallAge(x)'
  BY <1>1, <1>7, CallAgeGoesOn
<1>8. CASE Read(c)
  <2>1. \A x \in Calls : CallAge(x)'
    <3>1. CASE row.state = "live"
      <4>1. PICK n : n = [call[c] EXCEPT !.p = row, !.was = row.slug]
        OBVIOUS
      <4>2. n \in Call /\ n.pc = k.pc /\ n.op = k.op /\ n.age = k.age /\ n.old = k.old
        BY <1>1, <4>1 DEF Call
      <4>3. Advance(c, n, 1) /\ Step(c) = "read"
        BY <1>8, <3>1, <4>1 DEF Read
      <4> QED BY <4>2, <4>3, CallAgeGoesOn DEF Written, Writes
    <3>2. CASE row.state # "live"
      BY <1>6, <1>8, <3>2 DEF Read
    <3> QED BY <3>1, <3>2
  <2>2. UNCHANGED <<mem, redis, load>>
    BY <1>8 DEF Read
  <2> QED BY <1>3, <1>4, <1>5, <2>1, <2>2 DEF AgeInv
<1>9. CASE Insert(c)
  <2>1. \A x \in Calls : CallAge(x)'
    <3>1. CASE row.state = "none"
      <4>1. PICK r : r = [NoRow EXCEPT !.state = "live", !.slug = call[c].slug]
        OBVIOUS
      <4>2. r \in Row
        BY <1>1, <4>1, IdleTypes DEF Row
      <4>3. Commit(c, r) /\ Advance(c, [call[c] EXCEPT !.p = row'], 1) /\ Step(c) \in Writes
        BY <1>9, <3>1, <4>1 DEF Insert, Writes
      <4> QED BY <1>1, <4>2, <4>3, CommitAge
    <3>2. CASE row.state # "none"
      BY <1>6, <1>9, <3>2 DEF Insert
    <3> QED BY <3>1, <3>2
  <2>2. UNCHANGED <<mem, redis, load>>
    BY <1>9 DEF Insert
  <2> QED BY <1>3, <1>4, <1>5, <2>1, <2>2 DEF AgeInv
<1>10. CASE Update(c)
  <2>1. \A x \in Calls : CallAge(x)'
    <3>1. PICK r : r = IF k.op = "edit" THEN [k.p EXCEPT !.slug = k.slug] ELSE k.p
      OBVIOUS
    <3>2. r \in Row
      BY <1>1, <3>1 DEF Row
    <3>3. Commit(c, r) /\ Advance(c, [call[c] EXCEPT !.p = row'], 1) /\ Step(c) \in Writes
      BY <1>10, <3>1 DEF Update, Writes
    <3> QED BY <1>1, <3>2, <3>3, CommitAge
  <2>2. UNCHANGED <<mem, redis, load>>
    BY <1>10 DEF Update
  <2> QED BY <1>3, <1>4, <1>5, <2>1, <2>2 DEF AgeInv
<1>11. CASE Remove(c)
  <2>1. Advance(c, call[c], 1) /\ Step(c) = "remove" /\ UNCHANGED <<mem, redis, load>>
    BY <1>11 DEF Remove
  <2>2. k.op = "delete"
    BY <2>1, StepPlace DEF Having
  <2> QED BY <1>3, <1>4, <1>5, <1>7, <2>1, <2>2 DEF AgeInv
<1>12. CASE Override(c)
  <2>1. \A x \in Calls : CallAge(x)'
    <3>1. CASE row.state = "live"
      <4>1. PICK r : r = [row EXCEPT !.status = call[c].status]
        OBVIOUS
      <4>2. r \in Row
        BY <1>1, <4>1 DEF Row, Call
      <4>3. Commit(c, r) /\ Advance(c, [call[c] EXCEPT !.p = row', !.was = row.slug], 1)
            /\ Step(c) \in Writes
        BY <1>12, <3>1, <4>1 DEF Override, Writes
      <4> QED BY <1>1, <4>2, <4>3, CommitAge
    <3>2. CASE row.state # "live"
      BY <1>6, <1>12, <3>2 DEF Override
    <3> QED BY <3>1, <3>2
  <2>2. UNCHANGED <<mem, redis, load>>
    BY <1>12 DEF Override
  <2> QED BY <1>3, <1>4, <1>5, <2>1, <2>2 DEF AgeInv
<1>13. CASE Drop(c)
  <2>1. Advance(c, call[c], 1) /\ Step(c) = "drop" /\ UNCHANGED <<redis, load>>
    BY <1>13 DEF Drop
  <2>2. \A i \in Instances, s \in Slugs : MemAge(mem'[i][s])
    BY <1>1, <1>2, <1>13, MemForgotten DEF Drop
  <2>3. \A x \in Calls : CallAge(x)'
    BY <1>7, <2>1 DEF Writes
  <2> QED BY <1>3, <1>5, <2>1, <2>2, <2>3 DEF AgeInv
<1>14. CASE Unshare(c)
  <2>1. Advance(c, call[c], 1) /\ Step(c) = "unshare" /\ UNCHANGED <<mem, load>>
    BY <1>14 DEF Unshare
  <2>2. \A s \in Slugs : RedisAge(redis'[s])
    BY <1>14, NoEntryAge DEF Unshare, Forget, AgeInv
  <2>3. \A x \in Calls : CallAge(x)'
    BY <1>7, <2>1 DEF Writes
  <2> QED BY <1>3, <1>4, <2>1, <2>2, <2>3 DEF AgeInv
<1>15. CASE Recall(c) \/ Announce(c) \/ PublishFails(c)
  <2>1. Advance(c, call[c], 1) /\ Step(c) \in {"recall", "announce"} /\ UNCHANGED <<mem, redis, load>>
    BY <1>15 DEF Recall, Announce, PublishFails
  <2>2. \A x \in Calls : CallAge(x)'
    BY <1>7, <2>1 DEF Writes
  <2> QED BY <1>3, <1>4, <1>5, <2>1, <2>2 DEF AgeInv
<1>16. Step(c) \in {"store", "share"} => k.p.ver # 0
  BY <1>2, StepPlace DEF CallAge, Written, Writes, Having
<1>17. CASE Store(c)
  <2>1. Advance(c, call[c], 1) /\ Step(c) = "store" /\ UNCHANGED <<redis, load>>
    BY <1>17 DEF Store
  <2>2. PICK e : e = [ttl |-> MemTTL, ver |-> k.p.ver, age |-> k.age]
    OBVIOUS
  <2>3. MemAge(e)
    BY <1>1, <1>2, <2>2, Lifetimes, RuntimeAssumption DEF MemAge, CallAge
  <2>4. \A i \in Instances, s \in Slugs : MemAge(mem'[i][s])
    BY <1>1, <1>2, <1>17, <2>2, <2>3, MemAged DEF Store
  <2>5. \A x \in Calls : CallAge(x)'
    BY <1>7, <2>1 DEF Writes
  <2> QED BY <1>3, <1>5, <2>1, <2>4, <2>5 DEF AgeInv
<1>18. CASE Share(c)
  <2>1. Advance(c, call[c], 1) /\ Step(c) = "share" /\ UNCHANGED <<mem, load>>
    BY <1>18 DEF Share
  <2>2. PICK e : e = [ttl |-> RedisTTL, ver |-> k.p.ver, age |-> k.age]
    OBVIOUS
  <2>3. RedisAge(e)
    BY <1>1, <1>2, <1>16, <2>1, <2>2, Lifetimes, RuntimeAssumption DEF RedisAge, CallAge
  <2>4. redis' = [redis EXCEPT ![k.p.slug] = e]
    BY <1>18, <2>2 DEF Share
  <2>5. \A s \in Slugs : RedisAge(redis'[s])
    BY <1>1, <1>2, <2>3, <2>4 DEF AgeInv, TypeOK
  <2>6. \A x \in Calls : CallAge(x)'
    BY <1>7, <2>1 DEF Writes
  <2> QED BY <1>3, <1>4, <2>1, <2>5, <2>6 DEF AgeInv
<1>19. CASE UnshareFails(c)
  <2>1. Advance(c, call[c], 2) /\ Step(c) = "unshare" /\ UNCHANGED <<mem, redis, load>>
    BY <1>19 DEF UnshareFails
  <2>2. Others(c) /\ IF Step(c)' = "idle" THEN call'[c] = IdleCall ELSE SameCall(c, call[c])
    BY <2>1, CallSkips
  <2>3. CallAge(c)'
    <3>1. CASE Step(c)' = "idle"
      BY <2>2, <3>1, IdleAge
    <3>2. CASE Step(c)' # "idle"
      <4>1. SameCall(c, call[c]) /\ Written(c)
        BY <2>1, <2>2, <3>2 DEF Written, Writes
      <4>2. call'[c].age <= Late(call'[c].old)
        BY <1>2, <4>1 DEF CallAge, SameCall
      <4>3. call'[c].op # "delete" => call'[c].p.ver # 0
        BY <1>2, <4>1 DEF CallAge, SameCall
      <4> QED BY <4>2, <4>3 DEF CallAge
    <3> QED BY <3>1, <3>2
  <2>4. \A x \in Calls : CallAge(x)'
    BY <2>2, <2>3, CallsAged
  <2> QED BY <1>3, <1>4, <1>5, <2>1, <2>4 DEF AgeInv
<1>20. CASE ShareFails(c)
  <2>1. UNCHANGED <<mem, redis, load>>
    BY <1>20 DEF ShareFails
  <2> QED BY <1>3, <1>4, <1>5, <1>6, <1>20, <2>1 DEF ShareFails, AgeInv
<1> QED BY <1>8, <1>9, <1>10, <1>11, <1>12, <1>13, <1>14, <1>15, <1>17, <1>18, <1>19, <1>20
        DEF CallStep, CallFault

LEMMA AgeStep ==
    ASSUME TypeInv, AgeInv, [Next]_vars
    PROVE  AgeInv'
<1> TypeOK
  BY DEF TypeInv
<1>1. CASE \E i \in Instances, s \in Slugs : StartLoad(i, s) \/ LoadStep(i, s) \/ LoadFault(i, s)
  BY <1>1, LoadAgeKept
<1>2. CASE \E c \in Calls : CallStep(c) \/ CallFault(c)
  BY <1>2, CallAgeKept
<1>3. ASSUME NEW c \in Calls, NEW op \in Ops, NEW i \in Instances, NEW s \in Slugs, NEW t \in Statuses,
             BeginCall(c, op, i, s, t)
      PROVE  AgeInv'
  <2>1. PICK k : k = [pc |-> 1, op |-> op, at |-> i, p |-> NoRow, age |-> 0, was |-> s,
                      slug |-> s, status |-> t, old |-> FALSE]
    OBVIOUS
  <2>2. call'[c] = k /\ \A x \in Calls \ {c} : call'[x] = call[x]
    BY <1>3, <2>1 DEF BeginCall, TypeOK
  <2>3. Step(c)' \in {"insert", "read", "override"}
    <3>1. Ops = {"create", "edit", "tracking", "delete", "admin"}
      BY DEF Ops, Program
    <3>2. Program[op][1] \in {"insert", "read", "override"}
      BY <3>1 DEF Program, CreateSteps
    <3> QED BY <2>1, <2>2, <3>2 DEF Step
  <2>4. ~Written(c)'
    BY <2>3 DEF Written, Writes
  <2>5. CallAge(c)'
    BY <2>1, <2>2, <2>4 DEF CallAge, Late
  <2>6. \A x \in Calls : CallAge(x)'
    BY <2>2, <2>5, OthersStay, CallsAged
  <2>7. UNCHANGED <<mem, redis, load>>
    BY <1>3 DEF BeginCall
  <2> QED BY <2>6, <2>7 DEF AgeInv
<1>4. ASSUME NEW i \in Instances, Deliver(i) \/ LoseMessage(i)
      PROVE  AgeInv'
  <2>1. UNCHANGED <<redis, call, load>>
    BY <1>4 DEF Deliver, LoseMessage
  <2>2. \A j \in Instances, s \in Slugs : MemAge(mem'[j][s])
    <3>1. CASE UNCHANGED mem
      BY <3>1 DEF AgeInv
    <3>2. CASE mem' = [mem EXCEPT ![i] = Forget(@, Head(inbox[i]))]
      BY <3>2, MemForgotten
    <3> QED BY <1>4, <3>1, <3>2 DEF Deliver, LoseMessage
  <2>3. \A c \in Calls : CallAge(c)'
    BY <2>1 DEF AgeInv, CallAge, Written, Step
  <2> QED BY <2>1, <2>2, <2>3 DEF AgeInv
<1>5. ASSUME NEW i \in Instances, Restart(i)
      PROVE  AgeInv'
  <2>1. \A j \in Instances, s \in Slugs : LoadAge(load'[j][s])
    <3>1. ASSUME NEW j \in Instances, NEW s \in Slugs
          PROVE  LoadAge(load'[j][s])
      <4>1. load'[j][s] = IF j # i THEN load[j][s] ELSE IF Current(s) = 0 THEN IdleLoad ELSE WarmLoad(s)
        BY <1>5, Restarts
      <4>2. LoadAge(WarmLoad(s))
        <5>1. WarmLoad(s).stage = "memory" /\ WarmLoad(s).age = 0 /\ WarmLoad(s).old = FALSE
          BY DEF WarmLoad, IdleLoad
        <5> QED BY <5>1 DEF LoadAge, Late
      <4> QED BY <4>1, <4>2, NoEntryAge DEF AgeInv
    <3> QED BY <3>1
  <2>2. \A j \in Instances, s \in Slugs : MemAge(mem'[j][s])
    <3>1. mem' = [mem EXCEPT ![i] = [s \in Slugs |-> NoEntry]]
      BY <1>5, Restarts
    <3> QED BY <3>1, NoEntryAge DEF AgeInv, TypeOK
  <2>3. ASSUME NEW c \in Calls
        PROVE  CallAge(c)'
    <3>1. call'[c] = IdleCall \/ call'[c] = call[c]
      BY <1>5, Restarts
    <3>2. CASE call'[c] = IdleCall
      BY <3>2, IdleAge
    <3>3. CASE call'[c] = call[c]
      BY <3>3 DEF AgeInv, CallAge, Written, Step
    <3> QED BY <3>1, <3>2, <3>3
  <2>4. UNCHANGED redis
    BY <1>5, Restarts
  <2> QED BY <2>1, <2>2, <2>3, <2>4 DEF AgeInv
<1>6. ASSUME Tick
      PROVE  AgeInv'
  <2>1. \A j \in Instances, s \in Slugs : MemAge(mem'[j][s])
    BY <1>6, AgedAge DEF Tick, AgeInv, TypeOK
  <2>2. \A s \in Slugs : RedisAge(redis'[s])
    BY <1>6, AgedAge DEF Tick, AgeInv, TypeOK
  <2>3. ASSUME NEW c \in Calls
        PROVE  CallAge(c)'
    <3>1. call[c] \in Call /\ call[c].age \in Nat /\ ~call[c].old /\ CallAge(c)
      BY <1>6 DEF Tick, TypeOK, Call, AgeInv
    <3>2. call[c].age = 0
      BY <3>1 DEF CallAge, Late
    <3>3. CASE Step(c) = "idle"
      BY <1>6, <3>1, <3>3 DEF Tick, CallAge, Written, Step
    <3>4. CASE Step(c) # "idle"
      <4>1. PICK a : a = IF Written(c) THEN call[c].age + 1 ELSE call[c].age
        OBVIOUS
      <4>2. call'[c] = [call[c] EXCEPT !.old = TRUE, !.age = a]
        BY <1>6, <3>4, <4>1 DEF Tick
      <4>3. call'[c].age = a /\ call'[c].old = TRUE /\ call'[c].p = call[c].p
            /\ call'[c].op = call[c].op /\ call'[c].pc = call[c].pc
        BY <3>1, <4>2 DEF Call
      <4>4. a <= 1 /\ Late(TRUE) = 1
        BY <3>2, <4>1 DEF Late
      <4>5. Written(c)' <=> Written(c)
        BY <4>3 DEF Written, Step
      <4> QED BY <3>1, <4>3, <4>4, <4>5 DEF CallAge
    <3> QED BY <3>3, <3>4
  <2>4. ASSUME NEW i \in Instances, NEW s \in Slugs
        PROVE  LoadAge(load'[i][s])
    <3> DEFINE l == load[i][s]
    <3>1. l \in Loading /\ l.age \in Nat /\ l.ver \in Nat /\ ~l.old /\ LoadAge(l)
      BY <1>6 DEF Tick, TypeOK, Loading, AgeInv
    <3>2. CASE l.stage = "idle"
      BY <1>6, <3>1, <3>2 DEF Tick
    <3>3. CASE l.stage # "idle"
      <4>1. PICK a : a = l.age + 1
        OBVIOUS
      <4>2. load'[i][s] = [l EXCEPT !.old = TRUE, !.age = a]
        BY <1>6, <3>3, <4>1 DEF Tick
      <4>3. load'[i][s].age = a /\ load'[i][s].old = TRUE /\ load'[i][s].ver = l.ver
            /\ load'[i][s].stage = l.stage
        BY <3>1, <4>2 DEF Loading
      <4>4. l.stage = "hit" => l.age <= BackendTTL(l.ver)
        BY <3>1, Lifetimes DEF LoadAge, Late
      <4>5. l.stage \in {"memory", "backend"} => l.age <= 0
        BY <3>1 DEF LoadAge, Late
      <4> HIDE DEF l
      <4> QED BY <3>1, <4>1, <4>3, <4>4, <4>5, Lifetimes DEF LoadAge, Late
    <3> QED BY <3>2, <3>3
  <2> QED BY <2>1, <2>2, <2>3, <2>4 DEF AgeInv
<1>7. CASE UNCHANGED vars
  BY <1>7 DEF vars, AgeInv, CallAge, Written, Step
<1> QED BY <1>1, <1>2, <1>3, <1>4, <1>5, <1>6, <1>7 DEF Next

LEMMA AgeInit == Init => AgeInv
<1> SUFFICES ASSUME Init PROVE AgeInv
  OBVIOUS
<1>1. \A c \in Calls : CallAge(c)
  BY DEF Init, CallAge, IdleCall, Written, Step, Late
<1> QED BY <1>1, NoEntryAge DEF Init, AgeInv

\* What the ages say of the records visitors are given.
LEMMA AgeBounds ==
    TypeInv /\ AgeInv => StalenessBounded
<1> SUFFICES ASSUME TypeInv, AgeInv, NEW i \in Instances, NEW s \in Slugs
             PROVE  /\ Present(mem[i][s]) => mem[i][s].age <= MaxAge(mem[i][s].ver)
                    /\ load[i][s].stage \in {"hit", "memory", "backend"} =>
                         load[i][s].age <= BackendTTL(load[i][s].ver) + 1
  BY DEF StalenessBounded
<1>1. mem[i][s] \in Entry /\ load[i][s] \in Loading /\ MemAge(mem[i][s]) /\ LoadAge(load[i][s])
  BY DEF TypeInv, TypeOK, AgeInv
<1>2. mem[i][s].ttl \in Nat /\ mem[i][s].age \in Nat /\ load[i][s].age \in Nat
  BY <1>1 DEF Entry, Loading
<1>3. Present(mem[i][s]) => mem[i][s].age <= MaxAge(mem[i][s].ver)
  BY <1>1, <1>2, Lifetimes, RuntimeAssumption DEF MemAge, Present
<1>4. load[i][s].stage \in {"hit", "memory", "backend"} =>
         load[i][s].age <= BackendTTL(load[i][s].ver) + 1
  BY <1>1, <1>2, Lifetimes DEF LoadAge, Late
<1> QED BY <1>3, <1>4

\* A record a visitor is given was the truth of PostgreSQL at most MaxAge ticks ago,
\* whatever refreshes are lost and instances restarted (runtime_cache.go): the
\* lifetimes in Redis and in memory bound it, and less than a tick between them.
THEOREM Staleness == Spec => []StalenessBounded
<1>1. Init => TypeInv /\ AgeInv
  BY TypeInit, AgeInit
<1>2. TypeInv /\ AgeInv /\ [Next]_vars => (TypeInv /\ AgeInv)'
  BY TypeStep, AgeStep
<1> QED BY <1>1, <1>2, AgeBounds, PTL DEF Spec

-----------------------------------------------------------------------------
(* What every cache holds of a slug whose refreshes nothing raced. *)

\* A call about to write still holds the row it read, if nobody else has written it.
Ready(c) ==
    /\ Step(c) \in {"update", "remove"} =>
         /\ call[c].p.state = "live" /\ call[c].was = call[c].p.slug
         /\ call[c].p.ver <= row.ver
         /\ call[c].p.ver = row.ver => call[c].p = row
    /\ Step(c) = "insert" => call[c].was = call[c].slug

\* The refresh of call c has yet to come to slug s: the steps that are still to do
\* it, in the operations that forget both slugs first and in the others.
Due(c, s, forgets, stores) ==
    IF call[c].op \in {"edit", "delete"} THEN Step(c) \in forgets /\ s \in Touched(c)
    ELSE Step(c) \in stores /\ s = call[c].p.slug

SharedDue(c, s) == Due(c, s, {"drop", "unshare"}, {"store", "share"})
OwnDue(c, s) == Due(c, s, {"drop"}, {"store"})
OthersDue(c, s) == Due(c, s, {"drop", "unshare", "recall"}, {"store", "share", "announce"})
MemDue(c, i, s) == IF i = call[c].at THEN OwnDue(c, s) ELSE OthersDue(c, s)

\* A message on its way to instance i names slug s.
Told(i, s) == \E n \in DOMAIN inbox[i] : s \in inbox[i][n]

Fresh(e, s) == Present(e) => e.ver = Current(s)
LoadFresh(l, s) == l.stage \in {"hit", "memory", "backend"} => l.ver = Current(s)

\* Nobody refreshes the caches.
Settled(s) ==
    /\ \A c \in Calls : ~Written(c)
    /\ \A i \in Instances : LoadFresh(load[i][s], s)
    /\ Fresh(redis[s], s)
    /\ \A i \in Instances : Fresh(mem[i][s], s) \/ Told(i, s)

\* Call c alone refreshes them, with the row as it is.
Writer(c) ==
    /\ Written(c) /\ \A d \in Calls : Written(d) => d = c
    /\ IF call[c].op = "delete" THEN row.state # "live" ELSE call[c].p = row /\ row.state = "live"

Refreshed(c, s) ==
    /\ Writer(c)
    /\ \A i \in Instances : load[i][s].stage = "idle"
    /\ Fresh(redis[s], s) \/ SharedDue(c, s)
    /\ \A i \in Instances : Fresh(mem[i][s], s) \/ Told(i, s) \/ MemDue(c, i, s)

Tended(s) == Settled(s) \/ \E c \in Calls : Refreshed(c, s)

CoherenceInv ==
    /\ \A c \in Calls : Ready(c)
    /\ \A s \in Slugs \ raced : Tended(s)

\* A load step concerns the slug that is loaded, which nobody is refreshing.
LEMMA OtherSlugTended ==
    ASSUME NEW s \in Slugs, Tended(s), UNCHANGED <<row, inbox, call>>,
           \A i \in Instances : load'[i][s] = load[i][s] /\ mem'[i][s] = mem[i][s],
           redis'[s] = redis[s]
    PROVE  Tended(s)'
<1>1. (\A c \in Calls : Written(c)' <=> Written(c)) /\ Current(s)' = Current(s)
      /\ \A i \in Instances : Told(i, s)' <=> Told(i, s)
  BY DEF Written, Step, Current, Told
<1>2. ASSUME NEW c \in Calls
      PROVE  /\ SharedDue(c, s)' <=> SharedDue(c, s)
             /\ \A i \in Instances : MemDue(c, i, s)' <=> MemDue(c, i, s)
             /\ Writer(c) => Writer(c)'
  BY <1>1 DEF SharedDue, MemDue, OwnDue, OthersDue, Due, Step, Touched, Writer
<1>3. (Fresh(redis[s], s) => Fresh(redis[s], s)')
      /\ \A i \in Instances : /\ Fresh(mem[i][s], s) => Fresh(mem[i][s], s)'
                              /\ LoadFresh(load[i][s], s) => LoadFresh(load[i][s], s)'
  BY <1>1 DEF Fresh, LoadFresh
<1>4. Settled(s) => Settled(s)'
  BY <1>1, <1>3 DEF Settled
<1>5. ASSUME NEW c \in Calls, Refreshed(c, s)
      PROVE  Refreshed(c, s)'
  BY <1>1, <1>2, <1>3, <1>5 DEF Refreshed
<1> QED BY <1>4, <1>5 DEF Tended

LEMMA ReadyKept ==
    ASSUME NEW c \in Calls, Ready(c), call'[c] = call[c], UNCHANGED row
    PROVE  Ready(c)'
BY DEF Ready, Step

LEMMA LoadCoherent ==
    ASSUME TypeInv, CoherenceInv, NEW i \in Instances, NEW s \in Slugs,
           StartLoad(i, s) \/ LoadStep(i, s) \/ LoadFault(i, s)
    PROVE  CoherenceInv'
<1> DEFINE l == load[i][s]
<1>1. TypeOK /\ l \in Loading /\ l.ver \in Nat /\ l.age \in Nat /\ redis[s] \in Entry
      /\ redis[s].ver \in Nat /\ redis[s].age \in Nat /\ Current(s) \in Nat
  BY CurrentType DEF TypeInv, TypeOK, Loading, Entry
<1>2. UNCHANGED <<row, inbox, call>>
  BY DEF StartLoad, LoadStep, LoadFault, AskRedis, AskPostgres, StoreMemory, StoreBackend,
         AskRedisFails, AskPostgresFails, StoreBackendFails
<1>3. raced \subseteq raced'
  BY DEF StartLoad, LoadStep, LoadFault, AskRedis, AskPostgres, StoreMemory, StoreBackend,
         AskRedisFails, AskPostgresFails, StoreBackendFails, Fault
<1>4. \A j \in Instances, t \in Slugs : j # i \/ t # s => load'[j][t] = load[j][t]
  <2>1. CASE StartLoad(i, s)
    BY <2>1, <1>1 DEF StartLoad, TypeOK
  <2>2. CASE LoadStep(i, s) \/ LoadFault(i, s)
    <3>1. PICK x : load' = [load EXCEPT ![i][s] = x]
      BY <2>2 DEF LoadStep, LoadFault, AskRedis, AskPostgres, StoreMemory, StoreBackend,
         AskRedisFails, AskPostgresFails, StoreBackendFails, Holding, Loaded
    <3> QED BY <3>1, <1>1 DEF TypeOK
  <2> QED BY <2>1, <2>2
<1>5. \A j \in Instances, t \in Slugs : j # i \/ t # s => mem'[j][t] = mem[j][t]
  <2>1. mem' = mem \/ \E e : mem' = [mem EXCEPT ![i][s] = e]
    BY DEF StartLoad, LoadStep, LoadFault, AskRedis, AskPostgres, StoreMemory, StoreBackend,
         AskRedisFails, AskPostgresFails, StoreBackendFails
  <2> QED BY <2>1, <1>1 DEF TypeOK
<1>6. \A t \in Slugs \ {s} : redis'[t] = redis[t]
  <2>1. redis' = redis \/ \E e : redis' = [redis EXCEPT ![s] = e]
    BY DEF StartLoad, LoadStep, LoadFault, AskRedis, AskPostgres, StoreMemory, StoreBackend,
         AskRedisFails, AskPostgresFails, StoreBackendFails
  <2> QED BY <2>1, <1>1 DEF TypeOK
<1>7. ASSUME NEW t \in Slugs \ raced', t # s
      PROVE  Tended(t)'
  <2>1. Tended(t) /\ t \in Slugs
    BY <1>3, <1>7 DEF CoherenceInv
  <2> QED BY <1>2, <1>4, <1>5, <1>6, <1>7, <2>1, OtherSlugTended
<1>8. ASSUME s \notin raced'
      PROVE  Tended(s)'
  <2>1. Tended(s)
    BY <1>3, <1>8 DEF CoherenceInv
  <2>2. \A c \in Calls : ~Written(c)
    <3>1. CASE StartLoad(i, s)
      BY <1>8, <3>1 DEF StartLoad
    <3>2. CASE LoadStep(i, s) \/ LoadFault(i, s)
      <4>1. l.stage # "idle"
        BY <3>2 DEF LoadStep, LoadFault, AskRedis, AskPostgres, StoreMemory, StoreBackend,
           AskRedisFails, AskPostgresFails, StoreBackendFails
      <4> QED BY <2>1, <4>1 DEF Tended, Settled, Refreshed
    <3> QED BY <3>1, <3>2
  <2>3. Settled(s)
    BY <2>1, <2>2 DEF Tended, Refreshed, Writer
  <2>4. (\A c \in Calls : ~Written(c)') /\ Current(s)' = Current(s)
        /\ \A j \in Instances : Told(j, s)' = Told(j, s)
    BY <1>2, <2>2 DEF Written, Step, Current, Told
  <2>5. LoadFresh(load'[i][s], s)
    <3>1. CASE StartLoad(i, s)
      <4>1. load'[i][s].stage = "redis"
        BY <1>1, <3>1 DEF StartLoad, TypeOK, Loading
      <4> QED BY <4>1 DEF LoadFresh
    <3>2. CASE \E v \in Nat, a \in Nat, stage \in LoadStages :
                  Holding(i, s, stage, v, a) /\ (stage = "postgres" \/ v = Current(s))
      BY <1>1, <3>2, Holds DEF LoadFresh, Held
    <3>3. CASE Loaded(i, s)
      BY <1>1, <3>3, LoadEnds DEF LoadFresh, IdleLoad
    <3>4. ASSUME AskRedis(i, s), Present(redis[s])
          PROVE  \E v \in Nat, a \in Nat, stage \in LoadStages :
                    Holding(i, s, stage, v, a) /\ (stage = "postgres" \/ v = Current(s))
      BY <1>1, <2>3, <3>4 DEF AskRedis, Found, LoadStages, Settled, Fresh
    <3>5. ASSUME (AskRedis(i, s) /\ ~Present(redis[s])) \/ AskRedisFails(i, s)
          PROVE  \E v \in Nat, a \in Nat, stage \in LoadStages :
                    Holding(i, s, stage, v, a) /\ (stage = "postgres" \/ v = Current(s))
      BY <3>5 DEF AskRedis, AskRedisFails, LoadStages
    <3>6. ASSUME AskPostgres(i, s)
          PROVE  \E v \in Nat, a \in Nat, stage \in LoadStages :
                    Holding(i, s, stage, v, a) /\ (stage = "postgres" \/ v = Current(s))
      BY <1>1, <3>6 DEF AskPostgres, LoadStages
    <3>7. ASSUME StoreMemory(i, s), l.stage = "memory"
          PROVE  \E v \in Nat, a \in Nat, stage \in LoadStages :
                    Holding(i, s, stage, v, a) /\ (stage = "postgres" \/ v = Current(s))
      <4>1. Holding(i, s, "backend", l.ver, l.age) /\ "backend" \in LoadStages
        BY <3>7 DEF StoreMemory, LoadStages
      <4>2. l.ver = Current(s)
        BY <2>3, <3>7 DEF Settled, LoadFresh
      <4> QED BY <1>1, <4>1, <4>2
    <3>8. (StoreMemory(i, s) /\ l.stage # "memory") \/ StoreBackend(i, s)
          \/ AskPostgresFails(i, s) \/ StoreBackendFails(i, s) => Loaded(i, s)
      BY DEF StoreMemory, StoreBackend, AskPostgresFails, StoreBackendFails
    <3> QED BY <3>1, <3>2, <3>3, <3>4, <3>5, <3>6, <3>7, <3>8 DEF LoadStep, LoadFault
  <2>6. \A j \in Instances : LoadFresh(load'[j][s], s)
    BY <1>4, <2>3, <2>5 DEF Settled
  <2>7. \A j \in Instances : Fresh(mem'[j][s], s) \/ Told(j, s)
    <3>1. CASE StoreMemory(i, s)
      <4>1. PICK e : e = [ttl |-> MemTTL, ver |-> l.ver, age |-> l.age]
        OBVIOUS
      <4>2. mem'[i][s] = e
        BY <1>1, <3>1, <4>1 DEF StoreMemory, TypeOK
      <4>3. e.ver = Current(s)
        BY <2>3, <3>1, <4>1 DEF StoreMemory, Settled, LoadFresh
      <4> QED BY <1>5, <2>3, <4>2, <4>3 DEF Settled, Fresh
    <3>2. CASE UNCHANGED mem
      BY <2>3, <3>2 DEF Settled
    <3> QED BY <3>1, <3>2 DEF StartLoad, LoadStep, LoadFault, AskRedis, AskPostgres, StoreBackend,
                 AskRedisFails, AskPostgresFails, StoreBackendFails
  <2>8. Fresh(redis'[s], s)
    <3>1. CASE StoreBackend(i, s)
      <4>1. PICK e : e = [ttl |-> BackendTTL(l.ver), ver |-> l.ver, age |-> l.age]
        OBVIOUS
      <4>2. redis'[s] = e
        BY <1>1, <3>1, <4>1 DEF StoreBackend, TypeOK
      <4>3. e.ver = Current(s)
        BY <2>3, <3>1, <4>1 DEF StoreBackend, Settled, LoadFresh
      <4> QED BY <4>2, <4>3 DEF Fresh
    <3>2. CASE UNCHANGED redis
      BY <2>3, <3>2 DEF Settled
    <3> QED BY <3>1, <3>2 DEF StartLoad, LoadStep, LoadFault, AskRedis, AskPostgres, StoreMemory,
                 AskRedisFails, AskPostgresFails, StoreBackendFails
  <2> QED BY <2>4, <2>6, <2>7, <2>8 DEF Tended, Settled, Fresh, LoadFresh
<1>9. \A c \in Calls : Ready(c)'
  BY <1>2, ReadyKept DEF CoherenceInv
<1> QED BY <1>7, <1>8, <1>9 DEF CoherenceInv

\* A commit turns a settled slug into one that the call is to refresh.
LEMMA CommitCoherent ==
    ASSUME TypeInv, CoherenceInv, NEW c \in Calls, NEW k \in Call, NEW r \in Row, Commit(c, r),
           Step(c) \in Writes, Others(c), UNCHANGED <<mem, redis, inbox, load>>,
           SameCall(c, k), k.op = call[c].op, Step(c)' = After(call[c].op, Step(c)),
           call[c].op \in {"create", "admin"} \/ call[c].p.ver = row.ver =>
             /\ IF k.op = "delete" THEN r.state # "live" ELSE k.p = row' /\ r.state = "live"
             /\ \A s \in Slugs : \/ Current(s)' = Current(s)
                                \/ /\ s \in {k.was, k.p.slug}
                                   /\ k.op \in {"edit", "delete"} \/ s = k.p.slug
    PROVE  CoherenceInv'
<1>1. /\ TypeOK /\ call[c] \in Call /\ row.ver \in Nat /\ row'.ver = row.ver + 1
      /\ row'.state = r.state /\ raced \subseteq raced'
  BY Commits DEF TypeInv, TypeOK, Row
<1>2. Step(c)' = IF k.op \in {"edit", "delete"} THEN "drop" ELSE "store"
  BY StepPlace DEF After, Having, Writes
<1>3. Written(c)' /\ ~Written(c)
  BY <1>2 DEF Written, Writes
<1>4. ASSUME NEW d \in Calls
      PROVE  Ready(d)'
  <2>1. CASE d = c
    BY <1>2, <2>1 DEF Ready
  <2>2. CASE d # c
    <3>1. call'[d] = call[d] /\ Step(d)' = Step(d) /\ Ready(d) /\ call[d].p.ver \in Nat
      BY <1>1, <2>2 DEF Others, CoherenceInv, TypeOK, Call, Row
    <3> QED BY <1>1, <3>1 DEF Ready
  <2> QED BY <2>1, <2>2
<1>5. ASSUME NEW s \in Slugs \ raced'
      PROVE  Tended(s)'
  <2>1. Tended(s)
    BY <1>1, <1>5 DEF CoherenceInv
  <2>2. /\ call[c].op \in {"create", "admin"} \/ call[c].p.ver = row.ver
        /\ \A d \in Calls : ~Written(d)
        /\ \A i \in Instances : load[i][s].stage = "idle"
    BY <1>5 DEF Commit
  <2>3. Settled(s)
    BY <2>1, <2>2 DEF Tended, Refreshed, Writer
  <2>4. Writer(c)'
    <3>1. \A d \in Calls : Written(d)' => d = c
      BY <2>2 DEF Others, Written
    <3>2. IF k.op = "delete" THEN row'.state # "live" ELSE k.p = row' /\ row'.state = "live"
      BY <1>1, <2>2
    <3> QED BY <1>3, <3>1, <3>2 DEF Writer, SameCall
  <2>5. Touched(c)' = {k.was, k.p.slug}
    BY DEF Touched, SameCall
  <2>6. CASE Current(s)' = Current(s)
    <3>1. Fresh(redis[s], s)'
      BY <2>3, <2>6 DEF Settled, Fresh
    <3>2. \A i \in Instances : Fresh(mem[i][s], s)' \/ Told(i, s)'
      BY <2>3, <2>6 DEF Settled, Fresh, Told
    <3> QED BY <2>2, <2>4, <3>1, <3>2 DEF Tended, Refreshed
  <2>7. CASE Current(s)' # Current(s)
    <3>1. s \in Touched(c)' /\ (k.op \in {"edit", "delete"} \/ s = k.p.slug)
      BY <2>2, <2>5, <2>7
    <3>2. SharedDue(c, s)' /\ OwnDue(c, s)' /\ OthersDue(c, s)'
      BY <1>2, <3>1 DEF SharedDue, OwnDue, OthersDue, Due, SameCall
    <3> QED BY <2>2, <2>4, <3>2 DEF Tended, Refreshed, MemDue
  <2> QED BY <2>6, <2>7
<1> QED BY <1>4, <1>5 DEF CoherenceInv

\* A step of the refresh, for the slugs it has to do with and the others.
LEMMA WriterCoherent ==
    ASSUME TypeInv, CoherenceInv, NEW c \in Calls, Written(c), Others(c), UNCHANGED <<row, load>>,
           raced \subseteq raced',
           Step(c)' \notin Writes \union {"read"},
           Step(c)' # "idle" => SameCall(c, call[c]),
           \A s \in Slugs \ raced' : Refreshed(c, s) =>
             /\ Fresh(redis[s], s)' \/ (Step(c)' # "idle" /\ SharedDue(c, s)')
             /\ \A i \in Instances : \/ Fresh(mem[i][s], s)' \/ Told(i, s)'
                                     \/ Step(c)' # "idle" /\ MemDue(c, i, s)'
    PROVE  CoherenceInv'
<1>1. ASSUME NEW d \in Calls
      PROVE  Ready(d)'
  <2>1. CASE d = c
    BY <2>1 DEF Ready, Writes
  <2>2. CASE d # c
    BY <2>2 DEF Others, CoherenceInv, Ready
  <2> QED BY <2>1, <2>2
<1>2. ASSUME NEW s \in Slugs \ raced'
      PROVE  Tended(s)'
  <2>1. Refreshed(c, s)
    <3>1. Tended(s)
      BY <1>2 DEF CoherenceInv
    <3> QED BY <3>1 DEF Tended, Settled, Refreshed, Writer
  <2>2. \A d \in Calls \ {c} : ~Written(d)'
    BY <2>1 DEF Refreshed, Writer, Others, Written
  <2>3. CASE Step(c)' = "idle"
    <3>1. ~Written(c)'
      BY <2>3 DEF Written
    <3>2. \A i \in Instances : LoadFresh(load[i][s], s)'
      BY <2>1 DEF Refreshed, LoadFresh
    <3>3. Fresh(redis[s], s)' /\ \A i \in Instances : Fresh(mem[i][s], s)' \/ Told(i, s)'
      BY <1>2, <2>1, <2>3
    <3> QED BY <2>2, <3>1, <3>2, <3>3 DEF Tended, Settled
  <2>4. CASE Step(c)' # "idle"
    <3>1. Written(c)'
      BY <2>4 DEF Written
    <3>2. Writer(c)'
      BY <2>1, <2>2, <2>4, <3>1 DEF Writer, Refreshed, SameCall
    <3>3. \A i \in Instances : load'[i][s].stage = "idle"
      BY <2>1 DEF Refreshed
    <3>4. /\ Fresh(redis[s], s)' \/ SharedDue(c, s)'
          /\ \A i \in Instances : Fresh(mem[i][s], s)' \/ Told(i, s)' \/ MemDue(c, i, s)'
      BY <1>2, <2>1
    <3> QED BY <3>2, <3>3, <3>4 DEF Tended, Refreshed
  <2> QED BY <2>3, <2>4
<1> QED BY <1>1, <1>2 DEF CoherenceInv

\* A step of a call that has written nothing and writes nothing.
LEMMA ReaderCoherent ==
    ASSUME TypeInv, CoherenceInv, NEW c \in Calls, ~Written(c), ~Written(c)', Others(c), Ready(c)',
           UNCHANGED <<row, mem, redis, inbox, load, raced>>
    PROVE  CoherenceInv'
<1>1. \A d \in Calls : Ready(d)'
  BY DEF Others, CoherenceInv, Ready
<1>2. ASSUME NEW s \in Slugs \ raced
      PROVE  Tended(s)'
  <2>1. \A d \in Calls : Written(d)' <=> Written(d)
    BY DEF Others, Written
  <2>2. Tended(s)
    BY <1>2 DEF CoherenceInv
  <2>3. Settled(s) => Settled(s)'
    BY <2>1 DEF Settled, Fresh, LoadFresh, Told, Current
  <2>4. ASSUME NEW d \in Calls, Refreshed(d, s)
        PROVE  Refreshed(d, s)'
    <3>1. d # c /\ Writer(d)
      BY <2>4 DEF Refreshed, Writer
    <3>2. Writer(d)'
      BY <2>1, <3>1 DEF Writer, Others
    <3>3. /\ SharedDue(d, s)' <=> SharedDue(d, s)
          /\ \A i \in Instances : MemDue(d, i, s)' <=> MemDue(d, i, s)
      BY <3>1 DEF Others, SharedDue, MemDue, OwnDue, OthersDue, Due
    <3> QED BY <2>4, <3>2, <3>3 DEF Refreshed, Fresh, Told, Current
  <2> QED BY <2>2, <2>3, <2>4 DEF Tended
<1> QED BY <1>1, <1>2 DEF CoherenceInv

\* A call gives up.
LEMMA EndCoherent ==
    ASSUME TypeInv, CoherenceInv, NEW c \in Calls, ~Written(c), End(c),
           UNCHANGED <<row, mem, redis, inbox, load, raced>>
    PROVE  CoherenceInv'
<1>1. Others(c) /\ Step(c)' = "idle"
  BY Ends, OthersStay, IdleStep
<1> QED BY <1>1, ReaderCoherent DEF Written, Ready

LEMMA WritesCoherent ==
    ASSUME TypeInv, CoherenceInv, NEW c \in Calls,
           Read(c) \/ Insert(c) \/ Update(c) \/ Remove(c) \/ Override(c)
    PROVE  CoherenceInv'
<1> DEFINE k == call[c]
<1>1. k \in Call /\ row \in Row /\ k.p \in Row /\ k.slug \in Slugs /\ row.slug \in Slugs
      /\ k.status \in Statuses /\ k.p.slug \in Slugs /\ k.p.ver \in Nat /\ row.ver \in Nat /\ TypeOK
  BY DEF TypeInv, TypeOK, Call, Row
<1>2. Ready(c)
  BY DEF CoherenceInv
<1>3. CASE Read(c)
  <2>1. Step(c) = "read" /\ ~Written(c) /\ UNCHANGED <<row, mem, redis, inbox, load, raced>>
    BY <1>3 DEF Read, Written
  <2>2. CASE row.state = "live"
    <3>1. PICK n : n = [call[c] EXCEPT !.p = row, !.was = row.slug]
      OBVIOUS
    <3>2. n \in Call /\ n.pc = k.pc /\ n.op = k.op /\ n.p = row /\ n.was = row.slug
      BY <1>1, <3>1 DEF Call
    <3>3. Advance(c, n, 1)
      BY <1>3, <2>2, <3>1 DEF Read
    <3>4. Others(c) /\ Step(c)' \in {"update", "remove"} /\ SameCall(c, n)
      BY <2>1, <3>2, <3>3, CallGoesOn DEF After
    <3>5. Ready(c)' /\ ~Written(c)'
      BY <1>1, <2>1, <2>2, <3>2, <3>4 DEF Ready, Written, Writes, SameCall
    <3> QED BY <2>1, <3>4, <3>5, ReaderCoherent
  <2>3. CASE row.state # "live"
    BY <1>3, <2>1, <2>3, EndCoherent DEF Read
  <2> QED BY <2>2, <2>3
<1>4. CASE Insert(c)
  <2>1. Step(c) = "insert" /\ ~Written(c) /\ UNCHANGED <<mem, redis, inbox, load>>
    BY <1>4 DEF Insert, Written, Writes
  <2>2. CASE row.state = "none"
    <3>1. PICK r : r = [NoRow EXCEPT !.state = "live", !.slug = call[c].slug]
      OBVIOUS
    <3>2. r \in Row /\ r.state = "live" /\ r.slug = k.slug
      BY <1>1, <3>1, IdleTypes DEF Row
    <3>3. Commit(c, r) /\ Advance(c, [call[c] EXCEPT !.p = row'], 1)
      BY <1>4, <2>2, <3>1 DEF Insert
    <3>4. row' \in Row /\ row'.state = "live" /\ row'.slug = k.slug
      BY <1>1, <3>2, <3>3, Commits
    <3>5. PICK n : n = [call[c] EXCEPT !.p = row']
      OBVIOUS
    <3>6. n \in Call /\ n.pc = k.pc /\ n.op = k.op /\ n.p = row' /\ n.was = k.was
      BY <1>1, <3>4, <3>5 DEF Call
    <3>7. k.op = "create"
      BY <2>1, StepPlace DEF Having
    <3>8. Others(c) /\ Step(c)' = After(k.op, Step(c)) /\ SameCall(c, n)
      BY <2>1, <3>3, <3>5, <3>6, CallGoesOn DEF After
    <3>9. \A s \in Slugs : Current(s)' = Current(s) \/ s = n.p.slug
      BY <2>2, <3>4, <3>6 DEF Current
    <3> QED BY <2>1, <3>2, <3>3, <3>6, <3>7, <3>8, <3>9, CommitCoherent DEF Writes
  <2>3. CASE row.state # "none"
    BY <1>4, <2>1, <2>3, EndCoherent DEF Insert
  <2> QED BY <2>2, <2>3
<1>5. CASE Update(c)
  <2>1. Step(c) = "update" /\ UNCHANGED <<mem, redis, inbox, load>>
    BY <1>5 DEF Update
  <2>2. PICK r : r = IF k.op = "edit" THEN [k.p EXCEPT !.slug = k.slug] ELSE k.p
    OBVIOUS
  <2>3. /\ r \in Row /\ r.state = k.p.state
        /\ r.slug = IF k.op = "edit" THEN k.slug ELSE k.p.slug
    BY <1>1, <2>2 DEF Row
  <2>4. Commit(c, r) /\ Advance(c, [call[c] EXCEPT !.p = row'], 1)
    BY <1>5, <2>2 DEF Update
  <2>5. row' \in Row /\ row'.state = r.state /\ row'.slug = r.slug
    BY <1>1, <2>3, <2>4, Commits
  <2>6. PICK n : n = [call[c] EXCEPT !.p = row']
    OBVIOUS
  <2>7. n \in Call /\ n.pc = k.pc /\ n.op = k.op /\ n.p = row' /\ n.was = k.was
    BY <1>1, <2>5, <2>6 DEF Call
  <2>8. k.op \in {"edit", "tracking"}
    BY <2>1, StepPlace DEF Having
  <2>9. Others(c) /\ Step(c)' = After(k.op, Step(c)) /\ SameCall(c, n)
    BY <2>1, <2>4, <2>6, <2>7, CallGoesOn DEF After
  <2>10. ASSUME k.p.ver = row.ver
         PROVE  /\ r.state = "live"
                /\ \A s \in Slugs : \/ Current(s)' = Current(s)
                                   \/ /\ s \in {n.was, n.p.slug}
                                      /\ n.op \in {"edit", "delete"} \/ s = n.p.slug
    <3>1. k.p = row /\ k.was = row.slug /\ r.state = "live"
      BY <1>2, <2>1, <2>3, <2>10 DEF Ready
    <3>2. ASSUME NEW s \in Slugs, Current(s)' # Current(s)
          PROVE  s = row.slug \/ s = row'.slug
      BY <3>2 DEF Current
    <3>3. k.op = "tracking" => row'.slug = row.slug
      BY <2>3, <2>5, <3>1
    <3> QED BY <2>7, <2>8, <3>1, <3>2, <3>3
  <2> QED BY <2>1, <2>3, <2>4, <2>7, <2>8, <2>9, <2>10, CommitCoherent DEF Writes
<1>6. CASE Remove(c)
  <2>1. Step(c) = "remove" /\ UNCHANGED <<mem, redis, inbox, load>>
    BY <1>6 DEF Remove
  <2>2. PICK r : r = [row EXCEPT !.state = "deleted"]
    OBVIOUS
  <2>3. r \in Row /\ r.state = "deleted" /\ r.slug = row.slug
    BY <1>1, <2>2 DEF Row
  <2>4. Commit(c, r) /\ Advance(c, call[c], 1)
    BY <1>6, <2>2 DEF Remove
  <2>5. row' \in Row /\ row'.state = "deleted"
    BY <1>1, <2>3, <2>4, Commits
  <2>6. k.op = "delete"
    BY <2>1, StepPlace DEF Having
  <2>7. Others(c) /\ Step(c)' = After(k.op, Step(c)) /\ SameCall(c, call[c])
    BY <1>1, <2>1, <2>4, CallGoesOn DEF After
  <2>8. ASSUME k.p.ver = row.ver
        PROVE  \A s \in Slugs : Current(s)' = Current(s) \/ s = k.p.slug
    <3>1. k.p = row
      BY <1>2, <2>1, <2>8 DEF Ready
    <3> QED BY <2>5, <3>1 DEF Current
  <2> QED BY <1>1, <2>1, <2>3, <2>4, <2>6, <2>7, <2>8, CommitCoherent DEF Writes
<1>7. CASE Override(c)
  <2>1. Step(c) = "override" /\ ~Written(c) /\ UNCHANGED <<mem, redis, inbox, load>>
    BY <1>7 DEF Override, Written, Writes
  <2>2. CASE row.state = "live"
    <3>1. PICK r : r = [row EXCEPT !.status = call[c].status]
      OBVIOUS
    <3>2. r \in Row /\ r.state = "live" /\ r.slug = row.slug
      BY <1>1, <2>2, <3>1 DEF Row
    <3>3. Commit(c, r) /\ Advance(c, [call[c] EXCEPT !.p = row', !.was = row.slug], 1)
      BY <1>7, <2>2, <3>1 DEF Override
    <3>4. row' \in Row /\ row'.state = "live" /\ row'.slug = row.slug
      BY <1>1, <3>2, <3>3, Commits
    <3>5. PICK n : n = [call[c] EXCEPT !.p = row', !.was = row.slug]
      OBVIOUS
    <3>6. n \in Call /\ n.pc = k.pc /\ n.op = k.op /\ n.p = row' /\ n.was = row.slug
      BY <1>1, <3>4, <3>5 DEF Call
    <3>7. k.op = "admin"
      BY <2>1, StepPlace DEF Having
    <3>8. Others(c) /\ Step(c)' = After(k.op, Step(c)) /\ SameCall(c, n)
      BY <2>1, <3>3, <3>5, <3>6, CallGoesOn DEF After
    <3>9. \A s \in Slugs : Current(s)' = Current(s) \/ s = n.p.slug
      BY <2>2, <3>4, <3>6 DEF Current
    <3> QED BY <2>1, <3>2, <3>3, <3>6, <3>7, <3>8, <3>9, CommitCoherent DEF Writes
  <2>3. CASE row.state # "live"
    BY <1>7, <2>1, <2>3, EndCoherent DEF Override
  <2> QED BY <2>2, <2>3
<1> QED BY <1>3, <1>4, <1>5, <1>6, <1>7

\* Messages: one more at the end, the first one gone.
LEMMA PublishTold ==
    ASSUME TypeOK, NEW c \in Calls, NEW ss \in SUBSET Slugs, Publish(c, ss),
           NEW i \in Instances, NEW s \in Slugs,
           Told(i, s) \/ (i # call[c].at /\ s \in ss)
    PROVE  Told(i, s)'
<1>1. inbox[i] \in Seq(SUBSET Slugs)
  BY DEF TypeOK
<1>2. CASE i = call[c].at
  <2>1. inbox'[i] = inbox[i]
    BY <1>2 DEF Publish
  <2> QED BY <1>2, <2>1 DEF Told
<1>3. CASE i # call[c].at
  <2>1. inbox'[i] = Append(inbox[i], ss)
    BY <1>3 DEF Publish
  <2>2. DOMAIN inbox[i] = 1..Len(inbox[i]) /\ Len(inbox[i]) \in Nat
        /\ DOMAIN inbox'[i] = 1..(Len(inbox[i]) + 1)
        /\ inbox'[i][Len(inbox[i]) + 1] = ss
        /\ \A n \in 1..Len(inbox[i]) : inbox'[i][n] = inbox[i][n]
    BY <1>1, <2>1
  <2>3. CASE s \in ss
    <3>1. Len(inbox[i]) + 1 \in DOMAIN inbox'[i]
      BY <2>2
    <3> QED BY <2>2, <2>3, <3>1 DEF Told
  <2>4. CASE s \notin ss
    <3>1. PICK n \in DOMAIN inbox[i] : s \in inbox[i][n]
      BY <2>4 DEF Told
    <3>2. n \in DOMAIN inbox'[i] /\ inbox'[i][n] = inbox[i][n]
      BY <2>2
    <3> QED BY <3>1, <3>2 DEF Told
  <2> QED BY <2>3, <2>4
<1> QED BY <1>2, <1>3

LEMMA TailTold ==
    ASSUME TypeOK, NEW i \in Instances, inbox[i] # <<>>, inbox' = [inbox EXCEPT ![i] = Tail(@)],
           NEW j \in Instances, NEW s \in Slugs, Told(j, s), j # i \/ s \notin Head(inbox[i])
    PROVE  Told(j, s)'
<1>1. inbox[i] \in Seq(SUBSET Slugs)
  BY DEF TypeOK
<1>2. CASE j # i
  BY <1>2 DEF Told, TypeOK
<1>3. CASE j = i
  <2>1. PICK n \in DOMAIN inbox[i] : s \in inbox[i][n]
    BY <1>3 DEF Told
  <2>2. inbox'[i] = Tail(inbox[i])
    BY DEF TypeOK
  <2>3. n \in 1..Len(inbox[i]) /\ Head(inbox[i]) = inbox[i][1] /\ Len(inbox[i]) \in Nat
    BY <1>1, <2>1
  <2>4. n # 1
    BY <1>3, <2>1, <2>3
  <2>5. n - 1 \in DOMAIN inbox'[i] /\ inbox'[i][n - 1] = inbox[i][n]
    <3>1. PICK q : q = inbox[i] /\ q \in Seq(SUBSET Slugs) /\ q # <<>>
      BY <1>1
    <3>2. \A m \in 1..(Len(q) - 1) : m \in DOMAIN Tail(q) /\ Tail(q)[m] = q[m + 1]
      BY <3>1
    <3>3. n - 1 \in 1..(Len(q) - 1) /\ (n - 1) + 1 = n
      BY <2>3, <2>4, <3>1
    <3>4. n - 1 \in DOMAIN Tail(q) /\ Tail(q)[n - 1] = q[n]
      BY <3>2, <3>3
    <3> QED BY <2>2, <3>1, <3>4
  <2> QED BY <1>3, <2>1, <2>5 DEF Told
<1> QED BY <1>2, <1>3

LEMMA RefreshCoherent ==
    ASSUME TypeInv, CoherenceInv, NEW c \in Calls,
           \/ Drop(c) \/ Unshare(c) \/ Recall(c) \/ Store(c) \/ Share(c) \/ Announce(c)
           \/ CallFault(c)
    PROVE  CoherenceInv'
<1> DEFINE k == call[c]
<1>1. TypeOK /\ k \in Call /\ k.at \in Instances /\ k.p.slug \in Slugs /\ k.p.slug \in Touched(c)
      /\ Touched(c) \in SUBSET Slugs
  BY TouchedType DEF TypeInv, TypeOK, Call, Row, Touched
<1>2. Step(c) # "idle" /\ Written(c) /\ UNCHANGED <<row, load>> /\ raced \subseteq raced'
  BY DEF Drop, Unshare, Recall, Store, Share, Announce, CallFault, UnshareFails, ShareFails,
         PublishFails, Fault, Written, Writes
<1>3. k.op \in Having(Step(c)) /\ Step(c) \in AllSteps
  BY <1>2, StepPlace
<1>4. \A s \in Slugs : Current(s)' = Current(s)
  BY <1>2 DEF Current
<1>5. ASSUME Advance(c, call[c], 1)
      PROVE  /\ Others(c) /\ Step(c)' = After(k.op, Step(c))
             /\ Step(c)' # "idle" => SameCall(c, k)
  BY <1>1, <1>2, <1>5, CallGoesOn
<1>6. ASSUME SameCall(c, k), NEW s \in Slugs
      PROVE  Touched(c)' = Touched(c) /\ call'[c].at = k.at /\ call'[c].op = k.op /\ call'[c].p = k.p
  BY <1>6 DEF SameCall, Touched
<1>7. CASE Drop(c)
  <2>1. Step(c) = "drop" /\ Advance(c, call[c], 1) /\ UNCHANGED <<redis, inbox, raced>>
        /\ mem' = [mem EXCEPT ![k.at] = Forget(@, Touched(c))]
    BY <1>7 DEF Drop
  <2>2. Step(c)' = "unshare" /\ k.op \in {"edit", "delete"} /\ SameCall(c, k) /\ Others(c)
    BY <1>3, <1>5, <2>1 DEF After, Having
  <2>3. ASSUME NEW s \in Slugs, Refreshed(c, s)
        PROVE  /\ Fresh(redis[s], s)' \/ SharedDue(c, s)'
               /\ \A i \in Instances : Fresh(mem[i][s], s)' \/ Told(i, s)' \/ MemDue(c, i, s)'
    <3>1. Fresh(redis[s], s)' \/ SharedDue(c, s)'
      BY <1>4, <1>6, <2>1, <2>2, <2>3 DEF Refreshed, Fresh, SharedDue, Due
    <3>2. ASSUME NEW i \in Instances
          PROVE  Fresh(mem[i][s], s)' \/ Told(i, s)' \/ MemDue(c, i, s)'
      <4>1. CASE i = k.at /\ s \in Touched(c)
        <5>1. mem'[i][s] = NoEntry
          BY <1>1, <2>1, <4>1 DEF Forget, TypeOK
        <5> QED BY <5>1 DEF Fresh, Present, NoEntry
      <4>2. CASE i = k.at /\ s \notin Touched(c)
        <5>1. mem'[i][s] = mem[i][s]
          BY <1>1, <2>1, <4>2 DEF Forget, TypeOK
        <5>2. ~MemDue(c, i, s)
          BY <2>2, <4>2 DEF MemDue, OwnDue, Due
        <5> QED BY <1>4, <2>1, <2>3, <5>1, <5>2 DEF Refreshed, Fresh, Told
      <4>3. CASE i # k.at
        <5>1. mem'[i][s] = mem[i][s]
          BY <1>1, <2>1, <4>3 DEF TypeOK
        <5>2. MemDue(c, i, s) => MemDue(c, i, s)'
          BY <1>6, <2>1, <2>2, <4>3 DEF MemDue, OthersDue, Due
        <5> QED BY <1>4, <2>1, <2>3, <5>1, <5>2 DEF Refreshed, Fresh, Told
      <4> QED BY <4>1, <4>2, <4>3
    <3> QED BY <3>1, <3>2
  <2> QED BY <1>2, <2>1, <2>2, <2>3, WriterCoherent DEF Writes
<1>8. CASE Unshare(c)
  <2>1. Step(c) = "unshare" /\ Advance(c, call[c], 1) /\ UNCHANGED <<mem, inbox, raced>>
        /\ redis' = Forget(redis, Touched(c))
    BY <1>8 DEF Unshare
  <2>2. Step(c)' = "recall" /\ k.op \in {"edit", "delete"} /\ SameCall(c, k) /\ Others(c)
    BY <1>3, <1>5, <2>1 DEF After, Having
  <2>3. ASSUME NEW s \in Slugs, Refreshed(c, s)
        PROVE  /\ Fresh(redis[s], s)' \/ SharedDue(c, s)'
               /\ \A i \in Instances : Fresh(mem[i][s], s)' \/ Told(i, s)' \/ MemDue(c, i, s)'
    <3>1. Fresh(redis[s], s)'
      <4>1. CASE s \in Touched(c)
        <5>1. redis'[s] = NoEntry
          BY <2>1, <4>1 DEF Forget
        <5> QED BY <5>1 DEF Fresh, Present, NoEntry
      <4>2. CASE s \notin Touched(c)
        <5>1. redis'[s] = redis[s] /\ ~SharedDue(c, s)
          BY <2>1, <2>2, <4>2 DEF Forget, SharedDue, Due
        <5> QED BY <1>4, <2>3, <5>1 DEF Refreshed, Fresh
      <4> QED BY <4>1, <4>2
    <3>2. ASSUME NEW i \in Instances
          PROVE  Fresh(mem[i][s], s)' \/ Told(i, s)' \/ MemDue(c, i, s)'
      <4>1. MemDue(c, i, s) => MemDue(c, i, s)'
        BY <1>6, <2>1, <2>2 DEF MemDue, OwnDue, OthersDue, Due
      <4> QED BY <1>4, <2>1, <2>3, <4>1 DEF Refreshed, Fresh, Told
    <3> QED BY <3>1, <3>2
  <2> QED BY <1>2, <2>1, <2>2, <2>3, WriterCoherent DEF Writes
<1>9. CASE Recall(c)
  <2>1. Step(c) = "recall" /\ Advance(c, call[c], 1) /\ UNCHANGED <<mem, redis, raced>>
        /\ Publish(c, Touched(c))
    BY <1>9 DEF Recall
  <2>2. Step(c)' \in {"idle", "store"} /\ k.op \in {"edit", "delete"} /\ Others(c)
        /\ (Step(c)' # "idle" => SameCall(c, k))
    BY <1>3, <1>5, <2>1 DEF After, Having
  <2>3. ASSUME NEW s \in Slugs, Refreshed(c, s)
        PROVE  /\ Fresh(redis[s], s)'
               /\ \A i \in Instances : Fresh(mem[i][s], s)' \/ Told(i, s)'
    <3>1. Fresh(redis[s], s)'
      BY <1>4, <2>1, <2>2, <2>3 DEF Refreshed, Fresh, SharedDue, Due
    <3>2. ASSUME NEW i \in Instances
          PROVE  Fresh(mem[i][s], s)' \/ Told(i, s)'
      <4>1. CASE Fresh(mem[i][s], s)
        BY <1>4, <2>1, <4>1 DEF Fresh
      <4>2. CASE Told(i, s)
        BY <1>1, <2>1, <4>2, PublishTold
      <4>3. CASE MemDue(c, i, s)
        <5>1. i # k.at /\ s \in Touched(c)
          BY <2>1, <2>2, <4>3 DEF MemDue, OwnDue, OthersDue, Due
        <5> QED BY <1>1, <2>1, <5>1, PublishTold
      <4> QED BY <2>3, <4>1, <4>2, <4>3 DEF Refreshed
    <3> QED BY <3>1, <3>2
  <2> QED BY <1>2, <2>1, <2>2, <2>3, WriterCoherent DEF Writes
\* The record that Put stores is the row as it is.
<1>10. ASSUME NEW s \in Slugs, Refreshed(c, s), Step(c) \in {"store", "share"}
       PROVE  s = k.p.slug => Current(s) = k.p.ver
  <2>1. k.op # "delete"
    BY <1>3, <1>10 DEF Having
  <2> QED BY <1>10, <2>1 DEF Refreshed, Writer, Current
<1>11. CASE Store(c)
  <2>1. Step(c) = "store" /\ Advance(c, call[c], 1) /\ UNCHANGED <<redis, inbox, raced>>
    BY <1>11 DEF Store
  <2>2. PICK e : e = [ttl |-> MemTTL, ver |-> k.p.ver, age |-> k.age]
    OBVIOUS
  <2>3. mem' = [mem EXCEPT ![k.at][k.p.slug] = e] /\ e.ver = k.p.ver
    BY <1>11, <2>2 DEF Store
  <2>4. Step(c)' = "share" /\ SameCall(c, k) /\ Others(c)
    BY <1>3, <1>5, <2>1 DEF After, Having
  <2>5. ASSUME NEW s \in Slugs, Refreshed(c, s)
        PROVE  /\ Fresh(redis[s], s)' \/ SharedDue(c, s)'
               /\ \A i \in Instances : Fresh(mem[i][s], s)' \/ Told(i, s)' \/ MemDue(c, i, s)'
    <3>1. Fresh(redis[s], s)' \/ SharedDue(c, s)'
      BY <1>4, <1>6, <2>1, <2>4, <2>5 DEF Refreshed, Fresh, SharedDue, Due
    <3>2. ASSUME NEW i \in Instances
          PROVE  Fresh(mem[i][s], s)' \/ Told(i, s)' \/ MemDue(c, i, s)'
      <4>1. CASE i = k.at /\ s = k.p.slug
        <5>1. mem'[i][s] = e
          BY <1>1, <2>3, <4>1 DEF TypeOK
        <5> QED BY <1>4, <1>10, <2>1, <2>3, <2>5, <4>1, <5>1 DEF Fresh
      <4>2. CASE ~(i = k.at /\ s = k.p.slug)
        <5>1. mem'[i][s] = mem[i][s]
          BY <1>1, <2>3, <4>2 DEF TypeOK
        <5>2. MemDue(c, i, s) => MemDue(c, i, s)'
          BY <1>6, <2>1, <2>4, <4>2 DEF MemDue, OwnDue, OthersDue, Due
        <5> QED BY <1>4, <2>1, <2>5, <5>1, <5>2 DEF Refreshed, Fresh, Told
      <4> QED BY <4>1, <4>2
    <3> QED BY <3>1, <3>2
  <2> QED BY <1>2, <2>1, <2>4, <2>5, WriterCoherent DEF Writes
<1>12. CASE Share(c)
  <2>1. Step(c) = "share" /\ Advance(c, call[c], 1) /\ UNCHANGED <<mem, inbox, raced>>
    BY <1>12 DEF Share
  <2>2. PICK e : e = [ttl |-> RedisTTL, ver |-> k.p.ver, age |-> k.age]
    OBVIOUS
  <2>3. redis' = [redis EXCEPT ![k.p.slug] = e] /\ e.ver = k.p.ver
    BY <1>12, <2>2 DEF Share
  <2>4. Step(c)' = "announce" /\ SameCall(c, k) /\ Others(c)
    BY <1>3, <1>5, <2>1 DEF After, Having
  <2>5. ASSUME NEW s \in Slugs, Refreshed(c, s)
        PROVE  /\ Fresh(redis[s], s)' \/ SharedDue(c, s)'
               /\ \A i \in Instances : Fresh(mem[i][s], s)' \/ Told(i, s)' \/ MemDue(c, i, s)'
    <3>1. Fresh(redis[s], s)'
      <4>1. CASE s = k.p.slug
        <5>1. redis'[s] = e
          BY <1>1, <2>3, <4>1 DEF TypeOK
        <5> QED BY <1>4, <1>10, <2>1, <2>3, <2>5, <4>1, <5>1 DEF Fresh
      <4>2. CASE s # k.p.slug
        <5>1. redis'[s] = redis[s]
          BY <1>1, <2>3, <4>2 DEF TypeOK
        <5>2. ~SharedDue(c, s)
          BY <2>1, <4>2 DEF SharedDue, Due
        <5> QED BY <1>4, <2>5, <5>1, <5>2 DEF Refreshed, Fresh
      <4> QED BY <4>1, <4>2
    <3>2. ASSUME NEW i \in Instances
          PROVE  Fresh(mem[i][s], s)' \/ Told(i, s)' \/ MemDue(c, i, s)'
      <4>1. MemDue(c, i, s) => MemDue(c, i, s)'
        BY <1>6, <2>1, <2>4 DEF MemDue, OwnDue, OthersDue, Due
      <4> QED BY <1>4, <2>1, <2>5, <4>1 DEF Refreshed, Fresh, Told
    <3> QED BY <3>1, <3>2
  <2> QED BY <1>2, <2>1, <2>4, <2>5, WriterCoherent DEF Writes
<1>13. CASE Announce(c)
  <2>1. Step(c) = "announce" /\ Advance(c, call[c], 1) /\ UNCHANGED <<mem, redis, raced>>
        /\ Publish(c, {k.p.slug})
    BY <1>13 DEF Announce
  <2>2. Step(c)' = "idle" /\ Others(c)
    BY <1>3, <1>5, <2>1 DEF After, Having
  <2>3. ASSUME NEW s \in Slugs, Refreshed(c, s)
        PROVE  /\ Fresh(redis[s], s)'
               /\ \A i \in Instances : Fresh(mem[i][s], s)' \/ Told(i, s)'
    <3>1. Fresh(redis[s], s)'
      BY <1>4, <2>1, <2>3 DEF Refreshed, Fresh, SharedDue, Due
    <3>2. ASSUME NEW i \in Instances
          PROVE  Fresh(mem[i][s], s)' \/ Told(i, s)'
      <4>1. CASE Fresh(mem[i][s], s)
        BY <1>4, <2>1, <4>1 DEF Fresh
      <4>2. {k.p.slug} \in SUBSET Slugs
        BY <1>1
      <4>3. CASE Told(i, s)
        BY <1>1, <2>1, <4>2, <4>3, PublishTold
      <4>4. CASE MemDue(c, i, s)
        <5>1. i # k.at /\ s \in {k.p.slug}
          BY <2>1, <4>4 DEF MemDue, OwnDue, OthersDue, Due
        <5> QED BY <1>1, <2>1, <4>2, <5>1, PublishTold
      <4> QED BY <2>3, <4>1, <4>3, <4>4 DEF Refreshed
    <3> QED BY <3>1, <3>2
  <2> QED BY <1>2, <2>1, <2>2, <2>3, WriterCoherent DEF Writes
\* A fault costs the slugs of the call their refresh; it was not to come to the others.
<1>14. CASE CallFault(c)
  <2>1. UNCHANGED <<mem, redis, inbox>> /\ raced' = raced \union Touched(c)
    BY <1>14 DEF CallFault, UnshareFails, ShareFails, PublishFails, Fault
  <2>2. /\ Others(c) /\ Step(c)' \notin Writes \union {"read"}
        /\ Step(c)' # "idle" => SameCall(c, k)
    <3>1. CASE UnshareFails(c)
      BY <3>1, CallSkips DEF UnshareFails, After, Writes
    <3>2. CASE ShareFails(c)
      BY <3>2, Ends, OthersStay, IdleStep DEF ShareFails, Writes
    <3>3. CASE PublishFails(c)
      BY <1>5, <3>3 DEF PublishFails, After, Writes
    <3> QED BY <1>14, <3>1, <3>2, <3>3 DEF CallFault
  <2>3. ASSUME NEW s \in Slugs \ raced', Refreshed(c, s)
        PROVE  /\ Fresh(redis[s], s)'
               /\ \A i \in Instances : Fresh(mem[i][s], s)' \/ Told(i, s)'
    <3>1. s \notin Touched(c) /\ s # k.p.slug
      BY <1>1, <2>1, <2>3
    <3>2. ~SharedDue(c, s) /\ ~OwnDue(c, s) /\ ~OthersDue(c, s)
      BY <3>1 DEF SharedDue, OwnDue, OthersDue, Due
    <3> QED BY <1>4, <2>1, <2>3, <3>2 DEF Refreshed, MemDue, Fresh, Told
  <2> QED BY <1>2, <2>1, <2>2, <2>3, WriterCoherent
<1> QED BY <1>7, <1>8, <1>9, <1>11, <1>12, <1>13, <1>14

LEMMA BeginCoherent ==
    ASSUME TypeInv, CoherenceInv, NEW c \in Calls, NEW op \in Ops, NEW i \in Instances, NEW s \in Slugs,
           NEW t \in Statuses, BeginCall(c, op, i, s, t)
    PROVE  CoherenceInv'
<1>1. PICK k : k = [pc |-> 1, op |-> op, at |-> i, p |-> NoRow, age |-> 0, was |-> s,
                    slug |-> s, status |-> t, old |-> FALSE]
  OBVIOUS
<1>2. call'[c] = k /\ \A x \in Calls \ {c} : call'[x] = call[x]
  BY <1>1 DEF BeginCall, TypeInv, TypeOK
<1>3. Step(c)' \in {"insert", "read", "override"}
  <2>1. Ops = {"create", "edit", "tracking", "delete", "admin"}
    BY DEF Ops, Program
  <2>2. Program[op][1] \in {"insert", "read", "override"}
    BY <2>1 DEF Program, CreateSteps
  <2> QED BY <1>1, <1>2, <2>2 DEF Step
<1>4. ~Written(c) /\ ~Written(c)'
  BY <1>3 DEF BeginCall, Written, Writes
<1>5. Ready(c)'
  BY <1>1, <1>2, <1>3 DEF Ready
<1> QED BY <1>2, <1>4, <1>5, OthersStay, ReaderCoherent DEF BeginCall

LEMMA MessageCoherent ==
    ASSUME TypeInv, CoherenceInv, NEW i \in Instances, Deliver(i) \/ LoseMessage(i)
    PROVE  CoherenceInv'
<1>1. /\ TypeOK /\ inbox[i] # <<>> /\ inbox' = [inbox EXCEPT ![i] = Tail(@)]
      /\ UNCHANGED <<row, redis, call, load>> /\ raced \subseteq raced'
  BY DEF TypeInv, Deliver, LoseMessage, Fault
<1>2. ASSUME NEW s \in Slugs \ raced', NEW j \in Instances, Fresh(mem[j][s], s) \/ Told(j, s)
      PROVE  Fresh(mem[j][s], s)' \/ Told(j, s)'
  <2>1. CASE j = i /\ s \in Head(inbox[i])
    <3>1. Deliver(i)
      BY <1>2, <2>1 DEF LoseMessage, Fault
    <3>2. mem'[i][s] = NoEntry
      BY <1>1, <2>1, <3>1 DEF Deliver, Forget, TypeOK
    <3> QED BY <2>1, <3>2 DEF Fresh, Present, NoEntry
  <2>2. CASE ~(j = i /\ s \in Head(inbox[i]))
    <3>1. Told(j, s) => Told(j, s)'
      BY <1>1, <2>2, TailTold
    <3>2. mem'[j][s] = mem[j][s]
      BY <1>1, <2>2 DEF Deliver, LoseMessage, Forget, TypeOK
    <3> QED BY <1>1, <1>2, <3>1, <3>2 DEF Fresh, Current
  <2> QED BY <2>1, <2>2
<1>3. ASSUME NEW s \in Slugs \ raced', NEW j \in Instances, NEW c \in Calls, MemDue(c, j, s)
      PROVE  MemDue(c, j, s)'
  BY <1>1, <1>3 DEF MemDue, OwnDue, OthersDue, Due, Step, Touched
<1>4. ASSUME NEW s \in Slugs \ raced'
      PROVE  Tended(s)'
  <2>1. Tended(s)
    BY <1>1, <1>4 DEF CoherenceInv
  <2>2. ASSUME Settled(s)
        PROVE  Settled(s)'
    <3>1. \A j \in Instances : Fresh(mem[j][s], s)' \/ Told(j, s)'
      BY <1>2, <1>4, <2>2 DEF Settled
    <3> QED BY <1>1, <2>2, <3>1 DEF Settled, Written, Step, LoadFresh, Fresh, Current
  <2>3. ASSUME NEW c \in Calls, Refreshed(c, s)
        PROVE  Refreshed(c, s)'
    <3>1. \A j \in Instances : Fresh(mem[j][s], s)' \/ Told(j, s)' \/ MemDue(c, j, s)'
      BY <1>2, <1>3, <1>4, <2>3 DEF Refreshed
    <3>2. Writer(c)'
      BY <1>1, <2>3 DEF Refreshed, Writer, Written, Step
    <3>3. Fresh(redis[s], s)' \/ SharedDue(c, s)'
      BY <1>1, <2>3 DEF Refreshed, Fresh, Current, SharedDue, Due, Step, Touched
    <3> QED BY <1>1, <2>3, <3>1, <3>2, <3>3 DEF Refreshed
  <2> QED BY <2>1, <2>2, <2>3 DEF Tended
<1>5. \A c \in Calls : Ready(c)'
  BY <1>1, ReadyKept DEF CoherenceInv
<1> QED BY <1>4, <1>5 DEF CoherenceInv

LEMMA RestartCoherent ==
    ASSUME TypeInv, CoherenceInv, NEW i \in Instances, Restart(i)
    PROVE  CoherenceInv'
<1>1. /\ UNCHANGED <<row, redis>> /\ raced \subseteq raced' /\ TypeOK
      /\ mem' = [mem EXCEPT ![i] = [s \in Slugs |-> NoEntry]]
      /\ inbox' = [inbox EXCEPT ![i] = <<>>]
  BY Restarts DEF TypeInv
<1>2. ASSUME NEW c \in Calls
      PROVE  /\ call'[c] = IdleCall \/ call'[c] = call[c]
             /\ call[c].pc # 0 /\ call[c].at = i => call'[c] = IdleCall
             /\ call[c].at # i => call'[c] = call[c]
  BY Restarts
<1>3. \A c \in Calls : call'[c] = IdleCall => Step(c)' = "idle" /\ ~Written(c)'
  BY IdleStep DEF Written
<1>4. \A c \in Calls : call'[c] = call[c] => Step(c)' = Step(c)
  BY DEF Step
<1>5. ASSUME NEW c \in Calls
      PROVE  Ready(c)'
  BY <1>1, <1>2, <1>3, ReadyKept DEF CoherenceInv, Ready
<1>6. ASSUME NEW s \in Slugs, NEW j \in Instances
      PROVE  /\ j = i => Fresh(mem[j][s], s)'
             /\ j # i => (Fresh(mem[j][s], s) => Fresh(mem[j][s], s)') /\ (Told(j, s) => Told(j, s)')
  <2>1. CASE j = i
    <3>1. mem'[j][s] = NoEntry
      BY <1>1, <2>1 DEF TypeOK
    <3> QED BY <2>1, <3>1 DEF Fresh, Present, NoEntry
  <2>2. CASE j # i
    <3>1. mem'[j] = mem[j] /\ inbox'[j] = inbox[j]
      BY <1>1, <2>2 DEF TypeOK
    <3> QED BY <1>1, <2>2, <3>1 DEF Fresh, Told, Current
  <2> QED BY <2>1, <2>2
<1>7. ASSUME NEW s \in Slugs, NEW j \in Instances
      PROVE  load'[j][s] = IF j # i THEN load[j][s] ELSE IF Current(s) = 0 THEN IdleLoad ELSE WarmLoad(s)
  BY Restarts
<1>8. \A s \in Slugs : Current(s)' = Current(s)
  BY <1>1 DEF Current
<1>9. ASSUME NEW s \in Slugs \ raced'
      PROVE  Tended(s)'
  <2>1. Tended(s) /\ s \in Slugs
    BY <1>1, <1>9 DEF CoherenceInv
  <2>2. /\ \A c \in Calls : call[c].at = i /\ Written(c) => s \notin Touched(c)
        /\ Current(s) # 0 => \A c \in Calls : ~Written(c)
    BY <1>9, Restarts
  <2>3. ASSUME Settled(s)
        PROVE  Tended(s)'
    <3>1. \A c \in Calls : ~Written(c)'
      BY <1>2, <1>3, <1>4, <2>3 DEF Settled, Written
    <3>2. ASSUME NEW j \in Instances
          PROVE  LoadFresh(load[j][s], s)'
      <4>1. WarmLoad(s).ver = Current(s) /\ IdleLoad.stage = "idle"
        BY DEF WarmLoad, IdleLoad
      <4> QED BY <1>7, <1>8, <2>1, <2>3, <4>1 DEF Settled, LoadFresh
    <3>3. \A j \in Instances : Fresh(mem[j][s], s)' \/ Told(j, s)'
      BY <1>6, <2>1, <2>3 DEF Settled
    <3>4. Fresh(redis[s], s)'
      BY <1>1, <1>8, <2>1, <2>3 DEF Settled, Fresh
    <3> QED BY <3>1, <3>2, <3>3, <3>4 DEF Settled, Tended
  <2>4. ASSUME NEW c \in Calls, Refreshed(c, s)
        PROVE  Tended(s)'
    <3>1. Written(c) /\ Current(s) = 0 /\ call[c].pc # 0
          /\ \A d \in Calls : Written(d) => d = c
      BY <2>2, <2>4 DEF Refreshed, Writer, Written, Step
    <3>2. \A j \in Instances : load'[j][s].stage = "idle"
      BY <1>7, <2>1, <2>4, <3>1 DEF Refreshed, IdleLoad
    <3>3. \A d \in Calls \ {c} : ~Written(d)'
      BY <1>2, <1>3, <1>4, <3>1 DEF Written
    <3>4. CASE call[c].at = i
      <4>1. s \notin Touched(c) /\ ~Written(c)'
        BY <1>2, <1>3, <2>2, <3>1, <3>4
      <4>2. s # call[c].p.slug
        BY <4>1 DEF Touched
      <4>3. ~SharedDue(c, s) /\ \A j \in Instances : ~MemDue(c, j, s)
        BY <4>1, <4>2 DEF SharedDue, MemDue, OwnDue, OthersDue, Due
      <4>4. Fresh(redis[s], s)'
        BY <1>1, <1>8, <2>1, <2>4, <4>3 DEF Refreshed, Fresh
      <4>5. \A j \in Instances : Fresh(mem[j][s], s)' \/ Told(j, s)'
        BY <1>6, <2>1, <2>4, <4>3 DEF Refreshed
      <4>6. \A d \in Calls : ~Written(d)'
        BY <3>3, <4>1
      <4>7. \A j \in Instances : LoadFresh(load[j][s], s)'
        BY <3>2 DEF LoadFresh
      <4> QED BY <4>4, <4>5, <4>6, <4>7 DEF Settled, Tended
    <3>5. CASE call[c].at # i
      <4>1. call'[c] = call[c] /\ Step(c)' = Step(c) /\ Touched(c)' = Touched(c)
        BY <1>2, <1>4, <3>5 DEF Touched
      <4>2. Writer(c)'
        BY <1>1, <2>4, <3>3, <4>1 DEF Refreshed, Writer, Written
      <4>3. /\ SharedDue(c, s) => SharedDue(c, s)'
            /\ \A j \in Instances : MemDue(c, j, s) => MemDue(c, j, s)'
        BY <4>1 DEF SharedDue, MemDue, OwnDue, OthersDue, Due
      <4>4. Fresh(redis[s], s)' \/ SharedDue(c, s)'
        BY <1>1, <1>8, <2>1, <2>4, <4>3 DEF Refreshed, Fresh
      <4>5. \A j \in Instances : Fresh(mem[j][s], s)' \/ Told(j, s)' \/ MemDue(c, j, s)'
        BY <1>6, <2>1, <2>4, <4>3 DEF Refreshed
      <4> QED BY <3>2, <4>2, <4>4, <4>5 DEF Refreshed, Tended
    <3> QED BY <3>4, <3>5
  <2> QED BY <2>1, <2>3, <2>4 DEF Tended
<1> QED BY <1>5, <1>9 DEF CoherenceInv

LEMMA TickCoherent ==
    ASSUME TypeInv, CoherenceInv, Tick
    PROVE  CoherenceInv'
<1>1. UNCHANGED <<row, inbox, raced>> /\ TypeOK
  BY DEF Tick, TypeInv
<1>2. ASSUME NEW c \in Calls
      PROVE  /\ Step(c)' = Step(c) /\ Touched(c)' = Touched(c) /\ call'[c].at = call[c].at
             /\ call'[c].op = call[c].op /\ call'[c].p = call[c].p
             /\ call'[c].was = call[c].was /\ call'[c].slug = call[c].slug
  <2>1. PICK k : k = call[c]
    OBVIOUS
  <2>2. k \in Call
    BY <1>1, <2>1 DEF TypeOK
  <2>3. call'[c] = k \/ \E a : call'[c] = [k EXCEPT !.old = TRUE, !.age = a]
    BY <2>1 DEF Tick
  <2>4. call'[c].pc = k.pc /\ call'[c].op = k.op /\ call'[c].at = k.at /\ call'[c].p = k.p
        /\ call'[c].was = k.was /\ call'[c].slug = k.slug
    BY <2>2, <2>3 DEF Call
  <2> QED BY <2>1, <2>4 DEF Step, Touched
<1>3. ASSUME NEW i \in Instances, NEW s \in Slugs
      PROVE  load'[i][s].stage = load[i][s].stage /\ load'[i][s].ver = load[i][s].ver
  <2>1. load[i][s] \in Loading
    BY <1>1 DEF TypeOK
  <2>2. load'[i][s] = load[i][s] \/ \E a : load'[i][s] = [load[i][s] EXCEPT !.old = TRUE, !.age = a]
    BY DEF Tick
  <2> QED BY <2>1, <2>2 DEF Loading
<1>4. ASSUME NEW e \in Entry, Present(Aged(e))
      PROVE  Present(e) /\ Aged(e).ver = e.ver
  BY <1>4 DEF Aged, Present, Entry, NoEntry
<1>5. \A s \in Slugs : Current(s)' = Current(s) /\ \A i \in Instances : Told(i, s)' <=> Told(i, s)
  BY <1>1 DEF Current, Told
<1>6. ASSUME NEW s \in Slugs
      PROVE  /\ Fresh(redis[s], s) => Fresh(redis[s], s)'
             /\ \A i \in Instances : Fresh(mem[i][s], s) => Fresh(mem[i][s], s)'
  <2>1. redis[s] \in Entry /\ redis'[s] = Aged(redis[s])
        /\ \A i \in Instances : mem[i][s] \in Entry /\ mem'[i][s] = Aged(mem[i][s])
    BY <1>1 DEF Tick, TypeOK
  <2> QED BY <1>4, <1>5, <2>1 DEF Fresh
<1>7. \A c \in Calls : Ready(c)' /\ (Written(c)' <=> Written(c)) /\ (Writer(c) => Writer(c)')
  BY <1>1, <1>2 DEF CoherenceInv, Ready, Written, Writer
<1>8. ASSUME NEW s \in Slugs \ raced
      PROVE  Tended(s)'
  <2>1. Tended(s)
    BY <1>8 DEF CoherenceInv
  <2>2. ASSUME Settled(s)
        PROVE  Settled(s)'
    <3>1. \A i \in Instances : LoadFresh(load[i][s], s)'
      BY <1>3, <1>5, <2>2 DEF Settled, LoadFresh
    <3> QED BY <1>5, <1>6, <1>7, <2>2, <3>1 DEF Settled
  <2>3. ASSUME NEW c \in Calls, Refreshed(c, s)
        PROVE  Refreshed(c, s)'
    <3>1. /\ SharedDue(c, s) => SharedDue(c, s)'
          /\ \A i \in Instances : MemDue(c, i, s) => MemDue(c, i, s)'
      BY <1>2 DEF SharedDue, MemDue, OwnDue, OthersDue, Due
    <3>2. \A i \in Instances : load'[i][s].stage = "idle"
      BY <1>3, <2>3 DEF Refreshed
    <3> QED BY <1>5, <1>6, <1>7, <2>3, <3>1, <3>2 DEF Refreshed
  <2> QED BY <2>1, <2>2, <2>3 DEF Tended
<1> QED BY <1>1, <1>7, <1>8 DEF CoherenceInv

LEMMA CoherenceStep ==
    ASSUME TypeInv, CoherenceInv, [Next]_vars
    PROVE  CoherenceInv'
<1>1. CASE \E i \in Instances, s \in Slugs : StartLoad(i, s) \/ LoadStep(i, s) \/ LoadFault(i, s)
  BY <1>1, LoadCoherent
<1>2. CASE \E c \in Calls : CallStep(c) \/ CallFault(c)
  BY <1>2, WritesCoherent, RefreshCoherent DEF CallStep
<1>3. CASE \E c \in Calls, op \in Ops, i \in Instances, s \in Slugs, t \in Statuses :
             BeginCall(c, op, i, s, t)
  BY <1>3, BeginCoherent
<1>4. CASE \E i \in Instances : Deliver(i) \/ LoseMessage(i) \/ Restart(i)
  BY <1>4, MessageCoherent, RestartCoherent
<1>5. CASE Tick
  BY <1>5, TickCoherent
<1>6. CASE UNCHANGED vars
  <2>1. \A s \in Slugs : Tended(s) => Tended(s)'
    BY <1>6, OtherSlugTended DEF vars
  <2>2. \A c \in Calls : Ready(c) => Ready(c)'
    BY <1>6, ReadyKept DEF vars
  <2> QED BY <1>6, <2>1, <2>2 DEF vars, CoherenceInv
<1> QED BY <1>1, <1>2, <1>3, <1>4, <1>5, <1>6 DEF Next

LEMMA CoherenceInit == Init => CoherenceInv
<1> SUFFICES ASSUME Init PROVE CoherenceInv
  OBVIOUS
<1>1. \A c \in Calls : Step(c) = "idle" /\ ~Written(c)
  BY DEF Init, Step, IdleCall, Written
<1>2. \A s \in Slugs : Settled(s)
  BY <1>1 DEF Init, Settled, Fresh, LoadFresh, Present, NoEntry, IdleLoad
<1> QED BY <1>1, <1>2 DEF CoherenceInv, Ready, Tended

LEMMA CoherenceBounds ==
    CoherenceInv => CoherentWhenQuiet
<1> SUFFICES ASSUME CoherenceInv, \A c \in Calls : Step(c) = "idle", \A i \in Instances : inbox[i] = <<>>,
                    NEW s \in Slugs \ raced, NEW i \in Instances
             PROVE  /\ Present(mem[i][s]) => mem[i][s].ver = Current(s)
                    /\ Present(redis[s]) => redis[s].ver = Current(s)
                    /\ load[i][s].stage \in {"hit", "memory", "backend"} =>
                         load[i][s].ver = Current(s)
  BY DEF CoherentWhenQuiet
<1>1. \A c \in Calls : ~Written(c)
  BY DEF Written
<1>2. Settled(s)
  BY <1>1 DEF CoherenceInv, Tended, Refreshed, Writer
<1>3. ~Told(i, s)
  BY DEF Told
<1> QED BY <1>2, <1>3 DEF Settled, Fresh, LoadFresh

\* When nothing raced the refresh of a slug, every cache holds its current record or
\* none as soon as the calls are over and the messages delivered: Invalidate and Put
\* (runtime_cache.go), in the order the handlers call them, reach both the old and
\* the new slug, in Redis and in the memory of every instance.
THEOREM Coherence == Spec => []CoherentWhenQuiet
<1>1. Init => TypeInv /\ CoherenceInv
  BY TypeInit, CoherenceInit
<1>2. TypeInv /\ CoherenceInv /\ [Next]_vars => (TypeInv /\ CoherenceInv)'
  BY TypeStep, CoherenceStep
<1> QED BY <1>1, <1>2, CoherenceBounds, PTL DEF Spec

=============================================================================
