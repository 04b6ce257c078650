---------------------------- MODULE FunnelProofs ----------------------------
(***************************************************************************)
(* Theorems about goals, funnels, events and funnel reports (Conversion    *)
(* and Funnel): for any managers, visitors, events, lists of steps, limits *)
(* and faults.                                                             *)
(***************************************************************************)
EXTENDS Funnel, Sums

-----------------------------------------------------------------------------
(* The inductive invariant of the calls (Conversion). *)

CallStages == {"idle", "insert goal", "insert", "update", "cache", "drop", "scan", "query", "fill"}
CallFields == {"pc", "id", "steps", "list"}

\* The managers in a stage.
At(pc) == {m \in Managers : call[m].pc = pc}

CallOK(r) ==
    /\ DOMAIN r = CallFields
    /\ r.pc \in CallStages
    /\ r.pc \in {"update", "cache", "drop"} => r.id \in 1..ids
    /\ r.pc = "fill" => DOMAIN r.list \subseteq 1..ids

\* Ids are given out once. A funnel about to be dropped is no row any more.
CallsInv ==
    /\ ids \in Ids \cup {0}
    /\ goals \subseteq 1..ids /\ DOMAIN funnels \subseteq 1..ids /\ DOMAIN defs \subseteq 1..ids
    /\ goals \cap DOMAIN funnels = {}
    /\ DOMAIN call = Managers
    /\ \A m \in Managers : CallOK(call[m])
    /\ \A m \in At("drop") : call[m].id \notin DOMAIN funnels

\* Those who have counted take a place each.
LimitInv ==
    /\ Cardinality(goals) + Cardinality(At("insert goal")) <= MaxGoals + Cardinality(Managers) - 1
    /\ Cardinality(DOMAIN funnels) + Cardinality(At("insert")) <= MaxFunnels + Cardinality(Managers) - 1

\* A call is going to write the field of funnel i, or what it finds in the table.
Carries(r, i) == \/ r.pc = "cache" /\ r.id = i
                 \/ r.pc = "fill" /\ i \in DOMAIN r.list
Brings(r, i) == Carries(r, i) \/ r.pc \in {"scan", "query"}

Dropped == {call[m].id : m \in At("drop")}

\* Redis has every funnel, somebody brings it, or it is untold; what Redis has is a
\* funnel, left over or about to be dropped.
DefsInv ==
    /\ \A i \in DOMAIN funnels \ untold : i \in DOMAIN defs \/ \E m \in Managers : Brings(call[m], i)
    /\ DOMAIN defs \subseteq DOMAIN funnels \cup leftover \cup Dropped
    /\ \A m \in Managers, i \in 1..ids : Carries(call[m], i) => i \in DOMAIN funnels \cup leftover

\* A copy of definitions follows the lists L.
Follows(f, L) == \A i \in DOMAIN f : i \in 1..ids /\ L[i] \in StepLists /\ f[i] = L[i]

\* A funnel keeps the list it was created with: every copy of it, wherever it is and
\* however old, has that list.
CallLists(L) ==
    /\ L \in [Ids -> StepLists \cup {<<>>}]
    /\ \A i \in Ids : i > ids => L[i] = <<>>
    /\ Follows(funnels, L) /\ Follows(defs, L)
    /\ \A m \in Managers :
          /\ call[m].pc \in {"update", "cache"} => L[call[m].id] \in StepLists /\ call[m].steps = L[call[m].id]
          /\ call[m].pc = "fill" => Follows(call[m].list, L)

-----------------------------------------------------------------------------
(* The inductive invariant of the events. *)

TaskStages == {"idle", "visitor", "store", "count", "defs", "look", "write", "state", "segments"}
TaskFields == {"pc", "who", "name", "seg", "named", "day", "left", "id", "from", "first", "n"}
Loop == {"write", "state", "segments"}

AnySegment == Segments \cup {NoSegment}
AnyName == Names \cup {Other}

\* The tables of a day.
DayInv ==
    /\ date \in Dates /\ crossed \in Nat
    /\ names \in [Dates -> SUBSET Names] /\ exact \in [Dates -> SUBSET (Visitors \cup Strangers)]
    /\ events \in [Dates -> [AnyName -> [count : Nat, who : SUBSET Visitors]]]
    /\ steps \in [Dates -> [Ids -> [Levels -> SUBSET Visitors]]]
    /\ DOMAIN members = Dates
    /\ state \in [Ids -> [Visitors -> [reached : 0..MaxSteps, seg : AnySegment, day : Dates]]]
    /\ earned \in [Ids -> [Visitors -> Nat]]

\* An event knows its name until it is counted, and its visitor is one of the day.
TaskOK(r) ==
    /\ DOMAIN r = TaskFields
    /\ r.pc \in TaskStages
    /\ r.pc # "idle" => /\ r.who \in Visitors /\ r.seg \in AnySegment /\ r.named \in Dates
                        /\ r.name \in names[r.named] \cup {Other}
    /\ r.pc \notin {"idle", "visitor"} => r.day \in Dates
    /\ r.pc \notin {"idle", "visitor", "count"} => r.who \in exact[r.day]
    /\ r.pc \in Loop => /\ r.id \in DOMAIN r.left /\ r.id \in Ids
                        /\ r.first \in AnySegment /\ r.from \in 0..MaxSteps - 1

TaskInv ==
    /\ DOMAIN task = Tasks
    /\ \A t \in Tasks : TaskOK(task[t])

\* The names that were counted without the guard of the day.
Unguarded(d) == {e \in Names : events[d][e].count > 0} \ names[d]

GuardInv ==
    \A d \in Dates :
        /\ IsFiniteSet(names[d]) /\ Cardinality(names[d]) <= NameLimit
        /\ IsFiniteSet(exact[d]) /\ Cardinality(exact[d]) <= VisitorLimit
        /\ \A e \in AnyName : events[d][e].who \subseteq exact[d]
        /\ IsFiniteSet(Unguarded(d)) /\ Cardinality(Unguarded(d)) <= crossed
        /\ IsFiniteSet(DOMAIN members[d]) /\ Cardinality(DOMAIN members[d]) <= SegmentLimit

\* The visitor of an event is counted at the steps the loop has behind it; under the
\* segment at the last of them, unless the registry was full.
Behind(r) == \A k \in 1..r.n - 1 : r.who \in steps[r.day][r.id][k]

Placed(r) ==
    LET m == members[r.day]
        field == <<r.id, r.n - 1, r.first>>
    IN IF field \in DOMAIN m THEN r.who \in m[field] ELSE Cardinality(DOMAIN m) >= SegmentLimit

StepInv ==
    /\ \A d \in Dates, i \in Ids, n \in Levels :
          /\ steps[d][i][n] \subseteq exact[d]
          /\ \A k \in 1..n : steps[d][i][n] \subseteq steps[d][i][k]
          /\ \A v \in steps[d][i][n] : earned[i][v] >= n
    /\ \A i \in Ids, v \in Visitors : state[i][v].reached <= earned[i][v]

Writes(r) ==
    /\ r.pc \in {"write", "state"} => r.from + 1 <= earned[r.id][r.who]
    /\ r.pc = "write" => r.n \in 1..r.from + 1 /\ Behind(r) /\ (r.n > 1 => Placed(r))

WriteInv == \A t \in Tasks : Writes(task[t])

MemberInv ==
    \A d \in Dates, i \in Ids, n \in Levels \ {1}, s \in Segments :
        <<i, n, s>> \in DOMAIN members[d] =>
            /\ <<i, n - 1, s>> \in DOMAIN members[d]
            /\ members[d][<<i, n, s>>] \subseteq members[d][<<i, n - 1, s>>]
            /\ members[d][<<i, n, s>>] \subseteq steps[d][i][n]

\* Nobody is beyond the end of a list.
TaskFollows(r, L) ==
    /\ r.pc \in Loop \cup {"look"} => Follows(r.left, L)
    /\ r.pc \in {"write", "state"} => r.from + 1 <= Len(L[r.id])

EventLists(L) ==
    /\ \A t \in Tasks : TaskFollows(task[t], L)
    /\ \A i \in Ids :
          /\ \A v \in Visitors : state[i][v].reached <= Len(L[i])
          /\ \A d \in Dates, n \in Levels : n > Len(L[i]) => steps[d][i][n] = {}

-----------------------------------------------------------------------------
(* The inductive invariant of the flush and the report. *)

ScanStages == {"idle", "rows", "defs", "count", "shown"}
ScanFields == {"pc", "id", "end", "day", "old", "stored", "left", "n", "got", "lost", "base", "held",
               "shown"}

Numbers == [Levels -> Nat]

\* Steps that have been counted are no more than there are now.
Within(x, d, i) == \A n \in Levels : x[n] <= Cardinality(steps[d][i][n])

ScanOK(r) ==
    /\ DOMAIN r = ScanFields
    /\ r.pc \in ScanStages /\ r.lost \in BOOLEAN
    /\ r.pc # "idle" => r.day \in Dates
    /\ r.pc \in {"rows", "defs"} => DOMAIN r.left = {} /\ DOMAIN r.got = {} /\ r.n = 1
    /\ r.pc \in {"count", "shown"} =>
          /\ DOMAIN r.got \subseteq Ids
          /\ \A i \in DOMAIN r.got : r.got[i] \in Numbers /\ Within(r.got[i], r.day, i)

\* What a read that has lost nothing counts at least.
Floor(s, r) == [i \in Ids |-> IF s \in Flushers THEN r.held[i]
                              ELSE IF r.day = r.end THEN r.base ELSE Zeros]

\* What was stored when a flush began is no more than the steps of its day.
FlushOK(r) ==
    /\ r.pc \notin {"rows", "shown"}
    /\ r.pc # "idle" => r.held \in [Ids -> Numbers] /\ \A i \in Ids : Within(r.held[i], r.day, i)

ScanInv ==
    /\ row \in [Dates -> [Ids -> Numbers]]
    /\ \A d \in Dates, i \in Ids : Within(row[d][i], d, i)
    /\ DOMAIN scan = Scanners
    /\ \A s \in Scanners : ScanOK(scan[s])
    /\ \A w \in Flushers : FlushOK(scan[w])

\* The report is about one funnel; the rows it has read hold no more than the days.
ReportOK(r) ==
    r.pc # "idle" =>
        /\ r.id \in Ids /\ r.end \in Dates /\ r.end <= date
        /\ r.base \in Numbers /\ Within(r.base, r.end, r.id)
        /\ \A n \in Levels : \A k \in 1..n : r.base[n] <= r.base[k]
        /\ r.pc # "rows" =>
              /\ r.end <= r.day
              /\ r.old \in Numbers /\ r.stored \in Numbers
              /\ Within(r.stored, r.end, r.id)
              /\ IF r.end = 1 THEN r.old = Zeros ELSE Within(r.old, 1, r.id)
        /\ r.pc = "shown" => r.shown \in Numbers
        /\ r.pc \in {"count", "shown"} => DOMAIN r.got \subseteq {r.id} /\ DOMAIN r.left \subseteq {r.id}

ReportInv == ReportOK(scan["report"])

\* The steps of a funnel are counted one after the other, up to the last.
Complete(s, r) ==
    /\ r.n \in Levels
    /\ r.n > 1 => r.id \in DOMAIN r.left /\ r.id \in DOMAIN r.got
    /\ ~r.lost => \A i \in DOMAIN r.got :
          IF i \in DOMAIN r.left THEN i = r.id /\ r.n > 1 /\ \A k \in 1..r.n - 1 : r.got[i][k] >= Floor(s, r)[i][k]
          ELSE \A k \in Levels : r.got[i][k] >= Floor(s, r)[i][k]

ScanFollows(s, r, L) ==
    /\ r.pc = "count" => Follows(r.left, L) /\ Complete(s, r) /\ (r.n > 1 => r.n <= Len(L[r.id]))
    /\ r.pc = "shown" => Complete(s, r)

ScanLists(L) == \A s \in Scanners : ScanFollows(s, scan[s], L)

Lists(L) == CallLists(L) /\ EventLists(L) /\ ScanLists(L)

Inv ==
    /\ CallsInv /\ LimitInv /\ DefsInv
    /\ DayInv /\ TaskInv /\ GuardInv /\ StepInv /\ WriteInv /\ MemberInv
    /\ ScanInv /\ ReportInv /\ ReportBracketed
    /\ \E L \in [Ids -> StepLists \cup {<<>>}] : Lists(L)

-----------------------------------------------------------------------------
(* Sets and functions. *)

LEMMA SubsetSize ==
    ASSUME NEW B, IsFiniteSet(B), NEW A, A \subseteq B
    PROVE  /\ IsFiniteSet(A)
           /\ Cardinality(A) \in Nat /\ Cardinality(B) \in Nat
           /\ Cardinality(A) <= Cardinality(B)
<1>1. A \in SUBSET B
  OBVIOUS
<1>. QED BY <1>1, FS_Subset, FS_CardinalityType

LEMMA AddedSize ==
    ASSUME NEW A, IsFiniteSet(A), NEW x
    PROVE  /\ IsFiniteSet(A \cup {x})
           /\ Cardinality(A) \in Nat /\ Cardinality(A \cup {x}) \in Nat
           /\ Cardinality(A \cup {x}) <= Cardinality(A) + 1
BY FS_AddElement, FS_CardinalityType

LEMMA RemovedSize ==
    ASSUME NEW A, IsFiniteSet(A), NEW x \in A
    PROVE  /\ IsFiniteSet(A \ {x})
           /\ Cardinality(A) \in Nat /\ Cardinality(A \ {x}) \in Nat
           /\ Cardinality(A \ {x}) = Cardinality(A) - 1
BY FS_RemoveElement, FS_CardinalityType

LEMMA WithFacts ==
    ASSUME NEW f, NEW k, NEW v
    PROVE  /\ DOMAIN With(f, k, v) = DOMAIN f \cup {k}
           /\ With(f, k, v)[k] = v
           /\ \A x \in DOMAIN f : With(f, k, v)[x] = IF x = k THEN v ELSE f[x]
BY DEF With

LEMMA WithoutFacts ==
    ASSUME NEW f, NEW k
    PROVE  /\ DOMAIN Without(f, k) = DOMAIN f \ {k}
           /\ \A x \in DOMAIN f \ {k} : Without(f, k)[x] = f[x]
BY DEF Without, Restrict

LEMMA NothingFollows ==
    /\ DOMAIN NoFunnels = {}
    /\ \A L : Follows(NoFunnels, L)
BY DEF NoFunnels, Follows

-----------------------------------------------------------------------------
(* The calls. *)

LEMMA FreeCall ==
    /\ DOMAIN Free = CallFields /\ Free.pc = "idle"
    /\ Free.list = NoFunnels
BY DEF Free, CallFields

\* Manager m goes on as r, nobody else moves.
Turns(m, r) ==
    /\ DOMAIN call' = Managers
    /\ \A o \in Managers \ {m} : call'[o] = call[o]
    /\ call'[m] = r

LEMMA EndsTurns ==
    ASSUME CallsInv, NEW m \in Managers, Ends(m)
    PROVE  Turns(m, Free)
BY DEF CallsInv, Ends, Turns

LEMMA GoesTurns ==
    ASSUME CallsInv, NEW m \in Managers, NEW p, Goes(m, p)
    PROVE  Turns(m, [call[m] EXCEPT !.pc = p])
BY DEF CallsInv, Goes, Turns

LEMMA NewTurns ==
    ASSUME CallsInv, NEW m \in Managers, NEW r, call' = [call EXCEPT ![m] = r]
    PROVE  Turns(m, r)
BY DEF CallsInv, Turns

LEMMA StaysTurns ==
    ASSUME CallsInv, NEW m \in Managers, UNCHANGED call
    PROVE  Turns(m, call[m])
BY DEF CallsInv, Turns

\* A call in another stage is otherwise the same.
LEMMA GoneCall ==
    ASSUME NEW r, DOMAIN r = CallFields, NEW p
    PROVE  LET q == [r EXCEPT !.pc = p]
           IN /\ DOMAIN q = CallFields /\ q.pc = p
              /\ q.id = r.id /\ q.steps = r.steps /\ q.list = r.list
BY DEF CallFields

LEMMA NewCall ==
    ASSUME NEW p, NEW i, NEW s
    PROVE  LET q == [Free EXCEPT !.pc = p, !.id = i, !.steps = s]
           IN DOMAIN q = CallFields /\ q.pc = p /\ q.id = i /\ q.steps = s
BY DEF Free, CallFields

LEMMA NewDrop ==
    ASSUME NEW p, NEW i
    PROVE  LET q == [Free EXCEPT !.pc = p, !.id = i]
           IN DOMAIN q = CallFields /\ q.pc = p /\ q.id = i
BY DEF Free, CallFields

LEMMA NewFill ==
    ASSUME NEW p, NEW l
    PROVE  LET q == [Free EXCEPT !.pc = p, !.list = l]
           IN DOMAIN q = CallFields /\ q.pc = p /\ q.list = l
BY DEF Free, CallFields

LEMMA FilledCall ==
    ASSUME CallsInv, NEW m \in Managers, NEW i,
           call' = [call EXCEPT ![m].list = Without(@, i)]
    PROVE  /\ Turns(m, [call[m] EXCEPT !.list = Without(call[m].list, i)])
           /\ DOMAIN call'[m] = CallFields /\ call'[m].pc = call[m].pc
           /\ call'[m].id = call[m].id /\ call'[m].steps = call[m].steps
           /\ call'[m].list = Without(call[m].list, i)
BY DEF CallsInv, Turns, CallOK, CallFields

\* Who is in a stage after a turn.
LEMMA StagesAfter ==
    ASSUME NEW m \in Managers, NEW r, Turns(m, r), NEW p
    PROVE  At(p)' = IF r.pc = p THEN At(p) \cup {m} ELSE At(p) \ {m}
BY DEF At, Turns

\* Manager m goes on as r, with no id given out twice.
Orderly(m, r) ==
    /\ Turns(m, r)
    /\ ids' \in {ids, ids + 1} /\ ids' \in Ids \cup {0}
    /\ \A g \in goals' : g \in goals \/ (g = ids + 1 /\ ids' = ids + 1)
    /\ \A f \in DOMAIN funnels' : f \in DOMAIN funnels \/ (f = ids + 1 /\ ids' = ids + 1)
    /\ goals' \subseteq goals \/ DOMAIN funnels' \subseteq DOMAIN funnels
    /\ DOMAIN defs' \subseteq 1..ids
    /\ DOMAIN r = CallFields /\ r.pc \in CallStages
    /\ r.pc \in {"update", "cache", "drop"} => r.id \in 1..ids'
    /\ r.pc = "fill" => DOMAIN r.list \subseteq 1..ids'
    /\ r.pc = "drop" => r.id \notin DOMAIN funnels'

LEMMA CallsKept ==
    ASSUME CallsInv, NEW m \in Managers, NEW r, Orderly(m, r)
    PROVE  CallsInv'
<1>. USE ConversionAssumption DEF Orderly
<1>1. ids \in Nat /\ ids' \in Nat /\ ids' >= ids /\ 1..ids \subseteq 1..ids'
  BY DEF CallsInv, Ids
<1>2. goals' \subseteq 1..ids' /\ DOMAIN funnels' \subseteq 1..ids' /\ DOMAIN defs' \subseteq 1..ids'
  <2>1. ASSUME NEW g \in goals' PROVE g \in 1..ids'
    <3>1. g \in goals \/ (g = ids + 1 /\ ids' = ids + 1)
      OBVIOUS
    <3>2. g \in 1..ids \/ (g = ids + 1 /\ ids' = ids + 1)
      BY <3>1 DEF CallsInv
    <3>. QED BY <1>1, <3>2
  <2>2. ASSUME NEW f \in DOMAIN funnels' PROVE f \in 1..ids'
    <3>1. f \in DOMAIN funnels \/ (f = ids + 1 /\ ids' = ids + 1)
      OBVIOUS
    <3>2. f \in 1..ids \/ (f = ids + 1 /\ ids' = ids + 1)
      BY <3>1 DEF CallsInv
    <3>. QED BY <1>1, <3>2
  <2>. QED BY <1>1, <2>1, <2>2
<1>3. goals' \cap DOMAIN funnels' = {}
  BY <1>1 DEF CallsInv
<1>4. DOMAIN call' = Managers
  BY DEF Turns
<1>5. ASSUME NEW o \in Managers PROVE CallOK(call[o])'
  <2>1. CASE o = m
    BY <2>1 DEF Turns, CallOK
  <2>2. CASE o # m
    BY <1>1, <2>2 DEF Turns, CallOK, CallsInv
  <2>. QED BY <2>1, <2>2
<1>6. ASSUME NEW o \in Managers, call'[o].pc = "drop" PROVE call'[o].id \notin DOMAIN funnels'
  <2>1. CASE o = m
    BY <1>6, <2>1 DEF Turns
  <2>2. CASE o # m
    <3>1. call[o].pc = "drop" /\ call'[o].id = call[o].id /\ CallOK(call[o])
      BY <1>6, <2>2 DEF Turns, CallsInv
    <3>2. call[o].id \notin DOMAIN funnels
      BY <3>1 DEF CallsInv, At
    <3>3. call[o].id \in 1..ids
      BY <3>1 DEF CallOK
    <3>. QED BY <1>1, <3>1, <3>2, <3>3
  <2>. QED BY <2>1, <2>2
<1>. QED BY <1>2, <1>3, <1>4, <1>5, <1>6 DEF CallsInv, At

\* A step of a manager keeps the calls in order.
LEMMA CallsStep ==
    ASSUME CallsInv, NEW m \in Managers, Continue(m) \/ Start(m)
    PROVE  CallsInv'
<1>. USE ConversionAssumption
<1>0. /\ ids \in Nat /\ ids \in Ids \cup {0} /\ CallOK(call[m]) /\ DOMAIN defs \subseteq 1..ids
      /\ goals \subseteq 1..ids /\ goals \cap DOMAIN funnels = {} /\ DOMAIN call[m] = CallFields
      /\ DOMAIN funnels \subseteq 1..ids
  BY DEF CallsInv, Ids, CallOK
<1>m. MaxIds \in Nat
  BY DEF ConversionAssumption
<1>f. DOMAIN Free = CallFields /\ Free.pc = "idle" /\ "idle" \in CallStages
  BY FreeCall DEF CallStages
<1>1. CASE CountGoals(m)
  <2>1. PICK r : Turns(m, r) /\ (r = call[m] \/ r = [call[m] EXCEPT !.pc = "insert goal"])
    BY <1>1, GoesTurns, StaysTurns DEF CountGoals
  <2>2. DOMAIN r = CallFields /\ r.pc \in {"idle", "insert goal"}
    BY <1>0, <1>1, <2>1 DEF CountGoals, Begins, CallFields
  <2>3. UNCHANGED <<goals, funnels, defs, ids>>
    BY <1>1 DEF CountGoals
  <2>8. Orderly(m, r)
    BY <1>0, <2>1, <2>2, <2>3 DEF Orderly, CallStages
  <2>. QED BY <2>8, CallsKept
<1>2. CASE DeleteGoal(m)
  <2>1. Turns(m, call[m]) /\ call[m].pc = "idle" /\ goals' \subseteq goals
    BY <1>2, StaysTurns DEF DeleteGoal, Begins
  <2>2. UNCHANGED <<funnels, defs, ids>>
    BY <1>2 DEF DeleteGoal
  <2>8. Orderly(m, call[m])
    BY <1>0, <2>1, <2>2 DEF Orderly, CallStages
  <2>. QED BY <2>8, CallsKept
<1>3. CASE CountFunnels(m)
  <2>1. PICK r : Turns(m, r) /\ (r = call[m] \/ r = [call[m] EXCEPT !.pc = "insert"])
    BY <1>3, GoesTurns, StaysTurns DEF CountFunnels
  <2>2. DOMAIN r = CallFields /\ r.pc \in {"idle", "insert"}
    BY <1>0, <1>3, <2>1 DEF CountFunnels, Begins, CallFields
  <2>3. UNCHANGED <<goals, funnels, defs, ids>>
    BY <1>3 DEF CountFunnels
  <2>8. Orderly(m, r)
    BY <1>0, <2>1, <2>2, <2>3 DEF Orderly, CallStages
  <2>. QED BY <2>8, CallsKept
<1>4. CASE CheckUpdate(m)
  <2>1. PICK i \in DOMAIN funnels, s \in StepLists :
           IF Updatable(i, s) THEN call' = [call EXCEPT ![m] = [Free EXCEPT !.pc = "update", !.id = i, !.steps = s]]
           ELSE UNCHANGED call
    BY <1>4 DEF CheckUpdate
  <2>2. UNCHANGED <<goals, funnels, defs, ids>> /\ call[m].pc = "idle"
    BY <1>4 DEF CheckUpdate, Begins
  <2>3. CASE Updatable(i, s)
    <3>. DEFINE r == [Free EXCEPT !.pc = "update", !.id = i, !.steps = s]
    <3>1. Turns(m, r)
      BY <2>1, <2>3, NewTurns
    <3>2. DOMAIN r = CallFields /\ r.pc = "update" /\ r.id = i
      BY NewCall
    <3>. HIDE DEF r
    <3>8. Orderly(m, r)
      BY <1>0, <2>2, <3>1, <3>2 DEF Orderly, CallStages
    <3>. QED BY <3>8, CallsKept
  <2>4. CASE ~Updatable(i, s)
    <3>1. Turns(m, call[m])
      BY <2>1, <2>4, StaysTurns
    <3>8. Orderly(m, call[m])
      BY <1>0, <2>2, <3>1 DEF Orderly, CallStages
    <3>. QED BY <3>8, CallsKept
  <2>. QED BY <2>3, <2>4
<1>5. CASE DeleteRow(m)
  <2>1. PICK i \in 1..ids \ goals : /\ funnels' = Without(funnels, i)
                                    /\ call' = [call EXCEPT ![m] = [Free EXCEPT !.pc = "drop", !.id = i]]
    BY <1>5 DEF DeleteRow
  <2>. DEFINE r == [Free EXCEPT !.pc = "drop", !.id = i]
  <2>2. Turns(m, r) /\ DOMAIN r = CallFields /\ r.pc = "drop" /\ r.id = i
    BY <2>1, NewTurns, NewDrop
  <2>3. DOMAIN funnels' = DOMAIN funnels \ {i}
    BY <2>1, WithoutFacts
  <2>4. UNCHANGED <<goals, defs, ids>>
    BY <1>5 DEF DeleteRow
  <2>. HIDE DEF r
  <2>8. Orderly(m, r)
    BY <1>0, <2>2, <2>3, <2>4 DEF Orderly, CallStages
  <2>. QED BY <2>8, CallsKept
<1>6. CASE WarmDrop(m)
  <2>1. PICK p \in {"scan", "query"} : Goes(m, p)
    BY <1>6 DEF WarmDrop
  <2>. DEFINE r == [call[m] EXCEPT !.pc = p]
  <2>2. Turns(m, r) /\ DOMAIN r = CallFields /\ r.pc = p
    BY <1>0, <2>1, GoesTurns, GoneCall
  <2>3. UNCHANGED <<goals, funnels, ids>> /\ DOMAIN defs' = {}
    BY <1>6 DEF WarmDrop, NoFunnels
  <2>. HIDE DEF r
  <2>8. Orderly(m, r)
    BY <1>0, <2>2, <2>3 DEF Orderly, CallStages
  <2>. QED BY <2>8, CallsKept
<1>7. CASE InsertGoal(m)
  <2>1. Turns(m, Free)
    BY <1>7, EndsTurns DEF InsertGoal
  <2>4. ids' = ids + 1 /\ ids < MaxIds /\ goals' = goals \cup {ids + 1}
    BY <1>7 DEF InsertGoal
  <2>3. ids' \in Ids
    BY <1>0, <1>m, <2>4 DEF Ids
  <2>2. UNCHANGED <<funnels, defs>>
    BY <1>7 DEF InsertGoal
  <2>8. Orderly(m, Free)
    BY <1>0, <1>f, <2>1, <2>2, <2>3, <2>4 DEF Orderly
  <2>. QED BY <2>8, CallsKept
<1>8. CASE InsertFunnel(m)
  <2>1. PICK s \in StepLists : /\ funnels' = With(funnels, ids + 1, s)
                               /\ call' = [call EXCEPT ![m] = [Free EXCEPT !.pc = "cache", !.id = ids + 1, !.steps = s]]
    BY <1>8 DEF InsertFunnel
  <2>. DEFINE r == [Free EXCEPT !.pc = "cache", !.id = ids + 1, !.steps = s]
  <2>2. DOMAIN r = CallFields /\ r.pc = "cache" /\ r.id = ids + 1
    BY NewCall
  <2>5. Turns(m, r)
    BY <2>1, NewTurns
  <2>3. DOMAIN funnels' = DOMAIN funnels \cup {ids + 1}
    BY <2>1, WithFacts
  <2>4. UNCHANGED <<goals, defs>> /\ ids' = ids + 1 /\ ids' \in Ids
    BY <1>0, <1>m, <1>8 DEF InsertFunnel, Ids
  <2>. HIDE DEF r
  <2>8. Orderly(m, r)
    BY <1>0, <2>2, <2>3, <2>4, <2>5 DEF Orderly, CallStages
  <2>. QED BY <2>8, CallsKept
<1>9. CASE UpdateRow(m)
  <2>1. UNCHANGED <<goals, defs, ids>> /\ DOMAIN funnels' = DOMAIN funnels /\ call[m].pc = "update"
    BY <1>9 DEF UpdateRow
  <2>2. CASE Ends(m)
    <3>1. Turns(m, Free)
      BY <2>2, EndsTurns
    <3>8. Orderly(m, Free)
      BY <1>0, <1>f, <2>1, <3>1 DEF Orderly
    <3>. QED BY <3>8, CallsKept
  <2>3. CASE Goes(m, "cache")
    <3>. DEFINE r == [call[m] EXCEPT !.pc = "cache"]
    <3>1. Turns(m, r) /\ DOMAIN r = CallFields /\ r.pc = "cache" /\ r.id = call[m].id
      BY <1>0, <2>3, GoesTurns, GoneCall
    <3>2. call[m].id \in 1..ids
      BY <1>0, <2>1 DEF CallOK
    <3>. HIDE DEF r
    <3>8. Orderly(m, r)
      BY <1>0, <2>1, <3>1, <3>2 DEF Orderly, CallStages
    <3>. QED BY <3>8, CallsKept
  <2>. QED BY <1>9, <2>2, <2>3 DEF UpdateRow
<1>10. CASE CacheFunnel(m)
  <2>1. Turns(m, Free) /\ UNCHANGED <<goals, funnels, ids>>
    BY <1>10, EndsTurns DEF CacheFunnel
  <2>3. DOMAIN defs' = DOMAIN defs \cup {call[m].id}
    <3>1. defs' = With(defs, call[m].id, call[m].steps)
      BY <1>10 DEF CacheFunnel
    <3>. QED BY <3>1 DEF With
  <2>2. call[m].id \in 1..ids
    BY <1>0, <1>10 DEF CallOK, CacheFunnel
  <2>8. Orderly(m, Free)
    BY <1>0, <1>f, <2>1, <2>2, <2>3 DEF Orderly
  <2>. QED BY <2>8, CallsKept
<1>11. CASE DropField(m)
  <2>1. Turns(m, Free) /\ UNCHANGED <<goals, funnels, ids>> /\ DOMAIN defs' = DOMAIN defs \ {call[m].id}
    BY <1>11, EndsTurns, WithoutFacts DEF DropField
  <2>8. Orderly(m, Free)
    BY <1>0, <1>f, <2>1 DEF Orderly
  <2>. QED BY <2>8, CallsKept
<1>12. CASE WarmQuery(m)
  <2>. DEFINE r == [Free EXCEPT !.pc = "fill", !.list = funnels]
  <2>1. Turns(m, r)
    BY <1>12, NewTurns DEF WarmQuery
  <2>3. DOMAIN r = CallFields /\ r.pc = "fill" /\ r.list = funnels
    BY NewFill
  <2>2. UNCHANGED <<goals, funnels, defs, ids>>
    BY <1>12 DEF WarmQuery
  <2>. HIDE DEF r
  <2>8. Orderly(m, r)
    BY <1>0, <2>1, <2>2, <2>3 DEF Orderly, CallStages
  <2>. QED BY <2>8, CallsKept
<1>13. CASE WarmFill(m)
  <2>1. UNCHANGED <<goals, funnels, ids>> /\ call[m].pc = "fill"
    BY <1>13 DEF WarmFill
  <2>2. CASE call[m].list = NoFunnels /\ Ends(m) /\ UNCHANGED <<defs, untold>>
    <3>1. Turns(m, Free)
      BY <2>2, EndsTurns
    <3>8. Orderly(m, Free)
      BY <1>0, <1>f, <2>1, <2>2, <3>1 DEF Orderly
    <3>. QED BY <3>8, CallsKept
  <2>3. ASSUME NEW i \in DOMAIN call[m].list,
               defs' = With(defs, i, call[m].list[i]),
               call' = [call EXCEPT ![m].list = Without(@, i)]
        PROVE  CallsInv'
    <3>1. Turns(m, [call[m] EXCEPT !.list = Without(call[m].list, i)])
      BY <2>3, FilledCall
    <3>2. DOMAIN defs' = DOMAIN defs \cup {i}
      BY <2>3, WithFacts, Zenon
    <3>5. i \in 1..ids
      BY <1>0, <2>1, <2>3 DEF CallOK
    <3>. DEFINE r == [call[m] EXCEPT !.list = Without(call[m].list, i)]
    <3>3. DOMAIN r = CallFields /\ r.pc = "fill" /\ DOMAIN r.list = DOMAIN call[m].list \ {i}
      BY <1>0, <2>1, WithoutFacts DEF CallFields
    <3>4. DOMAIN call[m].list \subseteq 1..ids
      BY <1>0, <2>1 DEF CallOK
    <3>. HIDE DEF r
    <3>8. Orderly(m, r)
      BY <1>0, <2>1, <3>1, <3>2, <3>3, <3>4, <3>5 DEF Orderly, CallStages, r
    <3>. QED BY <3>8, CallsKept
  <2>. QED BY <1>13, <2>2, <2>3 DEF WarmFill
<1>14. CASE CallFails(m)
  <2>1. Turns(m, Free) /\ UNCHANGED <<goals, funnels, defs, ids>>
    BY <1>14, EndsTurns DEF CallFails
  <2>8. Orderly(m, Free)
    BY <1>0, <1>f, <2>1 DEF Orderly
  <2>. QED BY <2>8, CallsKept
<1>. QED BY <1>1, <1>2, <1>3, <1>4, <1>5, <1>6, <1>7, <1>8, <1>9, <1>10, <1>11, <1>12,
        <1>13, <1>14
        DEF Continue, Start

\* The lists K are L and at most one more, for the new id.
Grows(L, K) ==
    /\ K \in [Ids -> StepLists \cup {<<>>}]
    /\ \A i \in 1..ids : K[i] = L[i]
    /\ \A i \in Ids : i > ids' => K[i] = <<>>
    /\ \A f : Follows(f, L) => Follows(f, K)'

LEMMA ListsFresh ==
    ASSUME CallsInv, NEW L, CallLists(L), NEW s \in StepLists, ids + 1 \in Ids, ids' = ids + 1
    PROVE  \E K : K[ids + 1] = s /\ Grows(L, K)
<1>. PICK K : K = [L EXCEPT ![ids + 1] = s]
  OBVIOUS
<1>1. ids \in Nat /\ L \in [Ids -> StepLists \cup {<<>>}] /\ MaxIds \in Nat
  BY ConversionAssumption DEF CallsInv, CallLists, Ids, ConversionAssumption
<1>2. K \in [Ids -> StepLists \cup {<<>>}] /\ K[ids + 1] = s
  BY <1>1
<1>3. \A i \in 1..ids : K[i] = L[i]
  BY <1>1 DEF Ids
<1>4. ASSUME NEW i \in Ids, i > ids' PROVE K[i] = <<>>
  BY <1>1, <1>4 DEF Ids, CallLists
<1>5. ASSUME NEW f, Follows(f, L) PROVE Follows(f, K)'
  <2>. SUFFICES ASSUME NEW i \in DOMAIN f
                PROVE  i \in 1..ids' /\ K[i] \in StepLists /\ f[i] = K[i]
    BY DEF Follows
  <2>1. i \in 1..ids /\ L[i] \in StepLists /\ f[i] = L[i]
    BY <1>5 DEF Follows
  <2>2. i \in 1..ids'
    BY <1>1, <2>1
  <2>. QED BY <1>3, <2>1, <2>2
<1>. QED BY <1>2, <1>3, <1>4, <1>5 DEF Grows

LEMMA FollowsWithout ==
    ASSUME NEW L, NEW f, Follows(f, L), NEW k
    PROVE  Follows(Without(f, k), L)
BY DEF Follows, Without, Restrict

LEMMA ListsSame ==
    ASSUME CallsInv, NEW L, CallLists(L), ids' \in {ids, ids + 1}
    PROVE  Grows(L, L)
<1>1. ids \in Nat /\ \A i \in Ids : i \in Nat
  BY ConversionAssumption DEF CallsInv, Ids, ConversionAssumption
<1>2. \A i \in 1..ids : i \in 1..ids'
  BY <1>1
<1>3. \A i \in Ids : i > ids' => i > ids
  BY <1>1
<1>. QED BY <1>2, <1>3 DEF Grows, CallLists, Follows

LEMMA ListsKept ==
    ASSUME CallsInv, NEW L, CallLists(L), NEW K, Grows(L, K), NEW m \in Managers, NEW r, Turns(m, r),
           Follows(funnels, K)', Follows(defs, K)',
           r.pc \in {"update", "cache"} => K[r.id] \in StepLists /\ r.steps = K[r.id],
           r.pc = "fill" => Follows(r.list, K)'
    PROVE  CallLists(K)'
<1>1. K \in [Ids -> StepLists \cup {<<>>}] /\ \A i \in Ids : i > ids' => K[i] = <<>>
  BY DEF Grows
<1>2. ASSUME NEW o \in Managers
      PROVE  /\ call'[o].pc \in {"update", "cache"} =>
                   K[call'[o].id] \in StepLists /\ call'[o].steps = K[call'[o].id]
             /\ call'[o].pc = "fill" => Follows(call[o].list, K)'
  <2>1. CASE o = m
    BY <2>1 DEF Turns
  <2>2. CASE o # m
    <3>1. call'[o] = call[o] /\ CallOK(call[o])
      BY <2>2 DEF Turns, CallsInv
    <3>2. /\ call[o].pc \in {"update", "cache"} =>
                  L[call[o].id] \in StepLists /\ call[o].steps = L[call[o].id]
          /\ call[o].pc = "fill" => Follows(call[o].list, L)
      BY DEF CallLists
    <3>3. call[o].pc \in {"update", "cache"} => call[o].id \in 1..ids
      BY <3>1 DEF CallOK
    <3>4. call[o].pc = "fill" => Follows(call[o].list, K)'
      <4>1. PICK l : l = call[o].list
        OBVIOUS
      <4>2. Follows(l, L) => Follows(l, K)'
        BY DEF Grows
      <4>. QED BY <3>1, <3>2, <4>1, <4>2 DEF Follows
    <3>. QED BY <3>1, <3>2, <3>3, <3>4 DEF Grows
  <2>. QED BY <2>1, <2>2
<1>. QED BY <1>1, <1>2 DEF CallLists

\* A step of a manager keeps the lists.
LEMMA ListsStep ==
    ASSUME CallsInv, NEW L, CallLists(L), NEW m \in Managers, Continue(m) \/ Start(m)
    PROVE  \E K : Grows(L, K) /\ CallLists(K)'
<1>1. ids' = ids => Grows(L, L)
  BY ListsSame
<1>2. Follows(funnels, L) /\ Follows(defs, L) /\ Free.pc = "idle" /\ DOMAIN call[m] = CallFields
      /\ CallOK(call[m])
  BY FreeCall DEF CallLists, CallsInv, CallOK
<1>3. ids' = ids => \A f : Follows(f, L) => Follows(f, L)'
  BY <1>1 DEF Grows
<1>4. ASSUME ids' = ids, NEW r, Turns(m, r), Follows(funnels, L)', Follows(defs, L)',
             r.pc \in {"update", "cache"} => L[r.id] \in StepLists /\ r.steps = L[r.id],
             r.pc = "fill" => Follows(r.list, L)'
      PROVE  \E K : Grows(L, K) /\ CallLists(K)'
  BY <1>1, <1>4, ListsKept
<1>5. UNCHANGED <<ids, funnels>> => Follows(funnels, L)'
  BY <1>2 DEF Follows
<1>6. UNCHANGED <<ids, defs>> => Follows(defs, L)'
  BY <1>2 DEF Follows
<1>7. CASE InsertFunnel(m)
  <2>1. PICK s \in StepLists : /\ funnels' = With(funnels, ids + 1, s)
                               /\ call' = [call EXCEPT ![m] = [Free EXCEPT !.pc = "cache", !.id = ids + 1, !.steps = s]]
    BY <1>7 DEF InsertFunnel
  <2>2. ids' = ids + 1 /\ ids + 1 \in Ids /\ defs' = defs
    <3>1. ids \in Nat /\ MaxIds \in Nat
      BY ConversionAssumption DEF CallsInv, Ids, ConversionAssumption
    <3>2. ids' = ids + 1 /\ ids < MaxIds /\ defs' = defs
      BY <1>7 DEF InsertFunnel
    <3>. QED BY <3>1, <3>2 DEF Ids
  <2>3. PICK K : K[ids + 1] = s /\ Grows(L, K)
    BY <2>2, ListsFresh
  <2>4. PICK r : r = [Free EXCEPT !.pc = "cache", !.id = ids + 1, !.steps = s]
    OBVIOUS
  <2>5. r.pc = "cache" /\ r.id = ids + 1 /\ r.steps = s
    BY <2>4, NewCall
  <2>6. Turns(m, r)
    BY <2>1, <2>4, NewTurns
  <2>7. Follows(defs, K)'
    <3>1. PICK f : f = defs
      OBVIOUS
    <3>2. Follows(f, K)'
      BY <1>2, <2>3, <3>1 DEF Grows
    <3>. QED BY <2>2, <3>1, <3>2 DEF Follows
  <2>8. Follows(funnels, K)'
    <3>1. PICK f : f = funnels
      OBVIOUS
    <3>2. Follows(f, K)'
      BY <1>2, <2>3, <3>1 DEF Grows
    <3>3. ASSUME NEW i \in DOMAIN funnels'
          PROVE  i \in 1..ids' /\ K[i] \in StepLists /\ funnels'[i] = K[i]
      <4>1. DOMAIN funnels' = DOMAIN f \cup {ids + 1}
            /\ funnels'[i] = IF i = ids + 1 THEN s ELSE f[i]
        BY <2>1, <3>1 DEF With
      <4>2. ids + 1 \in 1..ids'
        BY <2>2, ConversionAssumption DEF Ids, ConversionAssumption
      <4>. QED BY <2>3, <3>2, <4>1, <4>2 DEF Follows
    <3>. QED BY <3>3 DEF Follows
  <2>. QED BY <2>3, <2>5, <2>6, <2>7, <2>8, ListsKept
<1>8. CASE CheckUpdate(m)
  <2>1. UNCHANGED <<ids, funnels, defs>> /\ call[m].pc = "idle"
    BY <1>8 DEF CheckUpdate, Begins
  <2>2. CASE UNCHANGED call
    <3>1. Turns(m, call[m])
      BY <2>2, StaysTurns
    <3>. QED BY <1>4, <1>5, <1>6, <2>1, <3>1
  <2>3. ASSUME NEW i \in DOMAIN funnels, NEW s \in StepLists, Updatable(i, s),
               call' = [call EXCEPT ![m] = [Free EXCEPT !.pc = "update", !.id = i, !.steps = s]]
        PROVE  \E K : Grows(L, K) /\ CallLists(K)'
    <3>1. PICK r : r = [Free EXCEPT !.pc = "update", !.id = i, !.steps = s]
      OBVIOUS
    <3>2. r.pc = "update" /\ r.id = i /\ r.steps = s
      BY <3>1, NewCall
    <3>3. Turns(m, r)
      BY <2>3, <3>1, NewTurns
    <3>4. L[i] \in StepLists /\ s = L[i]
      BY <1>2, <2>3 DEF Follows, Updatable
    <3>. QED BY <1>4, <1>5, <1>6, <2>1, <3>2, <3>3, <3>4
  <2>. QED BY <1>8, <2>2, <2>3 DEF CheckUpdate
<1>9. CASE DeleteRow(m)
  <2>1. PICK i \in 1..ids \ goals : /\ funnels' = Without(funnels, i)
                                    /\ call' = [call EXCEPT ![m] = [Free EXCEPT !.pc = "drop", !.id = i]]
    BY <1>9 DEF DeleteRow
  <2>2. PICK r : r = [Free EXCEPT !.pc = "drop", !.id = i]
    OBVIOUS
  <2>3. Turns(m, r) /\ r.pc = "drop"
    BY <2>1, <2>2, NewTurns, NewDrop
  <2>4. UNCHANGED <<defs, ids>>
    BY <1>9 DEF DeleteRow
  <2>5. Follows(funnels, L)'
    <3>1. Follows(Without(funnels, i), L)
      BY <1>2, FollowsWithout
    <3>. QED BY <2>1, <2>4, <3>1 DEF Follows
  <2>. QED BY <1>4, <1>6, <2>3, <2>4, <2>5
<1>10. CASE WarmDrop(m)
  <2>1. PICK p \in {"scan", "query"} : Goes(m, p)
    BY <1>10 DEF WarmDrop
  <2>2. PICK r : r = [call[m] EXCEPT !.pc = p]
    OBVIOUS
  <2>3. Turns(m, r) /\ r.pc = p
    BY <1>2, <2>1, <2>2, GoesTurns, GoneCall
  <2>4. UNCHANGED <<funnels, ids>> /\ defs' = NoFunnels
    BY <1>10 DEF WarmDrop
  <2>5. Follows(defs, L)'
    BY <2>4 DEF Follows, NoFunnels
  <2>. QED BY <1>4, <1>5, <2>1, <2>3, <2>4, <2>5
<1>11. CASE UpdateRow(m)
  <2>1. UNCHANGED <<defs, ids>> /\ call[m].pc = "update"
        /\ L[call[m].id] \in StepLists /\ call[m].steps = L[call[m].id]
    BY <1>11 DEF UpdateRow, CallLists
  <2>2. CASE Ends(m) /\ UNCHANGED funnels
    <3>1. Turns(m, Free)
      BY <2>2, EndsTurns
    <3>. QED BY <1>2, <1>4, <1>5, <1>6, <2>1, <2>2, <3>1
  <2>3. CASE call[m].id \in DOMAIN funnels /\ Goes(m, "cache")
             /\ funnels' = [funnels EXCEPT ![call[m].id] = call[m].steps]
    <3>1. PICK r : r = [call[m] EXCEPT !.pc = "cache"]
      OBVIOUS
    <3>2. Turns(m, r) /\ r.pc = "cache" /\ r.id = call[m].id /\ r.steps = call[m].steps
      BY <1>2, <2>3, <3>1, GoesTurns, GoneCall
    <3>3. Follows(funnels, L)'
      BY <1>2, <2>1, <2>3 DEF Follows
    <3>. QED BY <1>4, <1>6, <2>1, <3>2, <3>3
  <2>. QED BY <1>11, <2>2, <2>3 DEF UpdateRow
<1>12. CASE CacheFunnel(m)
  <2>1. UNCHANGED <<funnels, ids>> /\ call[m].pc = "cache"
        /\ L[call[m].id] \in StepLists /\ call[m].steps = L[call[m].id]
        /\ defs' = With(defs, call[m].id, call[m].steps)
    BY <1>12 DEF CacheFunnel, CallLists
  <2>2. Turns(m, Free)
    BY <1>12, EndsTurns DEF CacheFunnel
  <2>3. call[m].id \in 1..ids
    BY <1>2, <2>1 DEF CallOK
  <2>4. Follows(defs, L)'
    BY <1>2, <2>1, <2>3 DEF Follows, With
  <2>. QED BY <1>2, <1>4, <1>5, <2>1, <2>2, <2>4
<1>13. CASE DropField(m)
  <2>1. UNCHANGED <<funnels, ids>> /\ defs' = Without(defs, call[m].id)
    BY <1>13 DEF DropField
  <2>2. Turns(m, Free)
    BY <1>13, EndsTurns DEF DropField
  <2>3. Follows(defs, L)'
    <3>1. Follows(Without(defs, call[m].id), L)
      BY <1>2, FollowsWithout
    <3>. QED BY <2>1, <3>1 DEF Follows
  <2>. QED BY <1>2, <1>4, <1>5, <2>1, <2>2, <2>3
<1>14. CASE WarmQuery(m)
  <2>1. UNCHANGED <<funnels, defs, ids>>
    BY <1>14 DEF WarmQuery
  <2>2. PICK r : r = [Free EXCEPT !.pc = "fill", !.list = funnels]
    OBVIOUS
  <2>3. r.pc = "fill" /\ r.list = funnels
    BY <2>2, NewFill
  <2>4. Turns(m, r)
    BY <1>14, <2>2, NewTurns DEF WarmQuery
  <2>5. Follows(r.list, L)'
    BY <1>5, <2>1, <2>3 DEF Follows
  <2>. QED BY <1>4, <1>5, <1>6, <2>1, <2>3, <2>4, <2>5
<1>15. CASE WarmFill(m)
  <2>1. UNCHANGED <<funnels, ids>> /\ Follows(call[m].list, L) /\ call[m].pc = "fill"
    BY <1>15 DEF WarmFill, CallLists
  <2>2. CASE call[m].list = NoFunnels /\ Ends(m) /\ UNCHANGED <<defs, untold>>
    <3>1. Turns(m, Free)
      BY <2>2, EndsTurns
    <3>. QED BY <1>2, <1>4, <1>5, <1>6, <2>1, <2>2, <3>1
  <2>3. ASSUME NEW i \in DOMAIN call[m].list,
               defs' = With(defs, i, call[m].list[i]),
               call' = [call EXCEPT ![m].list = Without(@, i)]
        PROVE  \E K : Grows(L, K) /\ CallLists(K)'
    <3>1. PICK r : r = [call[m] EXCEPT !.list = Without(call[m].list, i)]
      OBVIOUS
    <3>2. Turns(m, r) /\ r.pc = "fill" /\ r.list = Without(call[m].list, i)
      BY <1>2, <2>1, <2>3, <3>1, FilledCall DEF CallFields
    <3>3. Follows(r.list, L)'
      <4>1. Follows(Without(call[m].list, i), L)
        BY <2>1, FollowsWithout
      <4>. QED BY <2>1, <3>2, <4>1 DEF Follows
    <3>4. Follows(defs, L)'
      BY <1>2, <2>1, <2>3 DEF Follows, With
    <3>. QED BY <1>4, <1>5, <2>1, <3>2, <3>3, <3>4
  <2>. QED BY <1>15, <2>2, <2>3 DEF WarmFill
<1>16. CASE \/ InsertGoal(m) \/ DeleteGoal(m)
            \/ CountGoals(m) \/ CountFunnels(m) \/ CallFails(m)
  <2>1. UNCHANGED <<funnels, defs>> /\ ids' \in {ids, ids + 1}
    BY <1>16 DEF InsertGoal, DeleteGoal, CountGoals, CountFunnels, CallFails
  <2>2. PICK r : Turns(m, r) /\ r.pc \in {"idle", "insert goal", "insert"}
    <3>1. CASE InsertGoal(m) \/ CallFails(m)
      <4>1. Turns(m, Free)
        BY <3>1, EndsTurns DEF InsertGoal, CallFails
      <4>. QED BY <1>2, <4>1
    <3>2. CASE DeleteGoal(m)
      BY <3>2, StaysTurns DEF DeleteGoal, Begins
    <3>3. CASE UNCHANGED call /\ call[m].pc = "idle"
      BY <3>3, StaysTurns
    <3>4. ASSUME NEW p \in {"insert goal", "insert"}, Goes(m, p)
          PROVE  \E r : Turns(m, r) /\ r.pc \in {"idle", "insert goal", "insert"}
      <4>1. PICK r : r = [call[m] EXCEPT !.pc = p]
        OBVIOUS
      <4>2. Turns(m, r)
        BY <3>4, <4>1, GoesTurns
      <4>3. r.pc = p
        BY <1>2, <4>1 DEF CallFields
      <4>. QED BY <4>2, <4>3
    <3>. QED BY <1>16, <3>1, <3>2, <3>3, <3>4 DEF CountGoals, CountFunnels, Begins
  <2>3. Grows(L, L)
    BY <2>1, ListsSame
  <2>4. Follows(funnels, L)' /\ Follows(defs, L)'
    <3>1. PICK f, d : f = funnels /\ d = defs
      OBVIOUS
    <3>2. Follows(f, L)' /\ Follows(d, L)'
      BY <1>2, <2>3, <3>1 DEF Grows
    <3>. QED BY <2>1, <3>1, <3>2 DEF Follows
  <2>. QED BY <2>2, <2>3, <2>4, ListsKept
<1>. QED BY <1>7, <1>8, <1>9, <1>10, <1>11, <1>12, <1>13, <1>14, <1>15, <1>16 DEF Continue, Start

\* A waiting call takes the place it has counted.
LEMMA PlaceTaken ==
    ASSUME NEW S, IsFiniteSet(S), NEW A, IsFiniteSet(A), NEW m \in A, NEW x
    PROVE  Cardinality(S \cup {x}) + Cardinality(A \ {m}) <= Cardinality(S) + Cardinality(A)
<1>1. /\ Cardinality(S) \in Nat /\ Cardinality(S \cup {x}) \in Nat
      /\ Cardinality(S \cup {x}) <= Cardinality(S) + 1
  BY AddedSize
<1>2. /\ Cardinality(A) \in Nat /\ Cardinality(A \ {m}) \in Nat
      /\ Cardinality(A \ {m}) = Cardinality(A) - 1
  BY RemovedSize
<1>. QED BY <1>1, <1>2

LEMMA LimitSum ==
    ASSUME NEW a \in Nat, NEW b \in Nat, NEW g \in Nat, NEW w \in Nat, NEW x \in Nat, NEW k \in Nat,
           \/ a + b <= g + w /\ g + w <= x + k - 1
           \/ a < x /\ b <= k
    PROVE  a + b <= x + k - 1
OBVIOUS

LEMMA NoMorePlaces ==
    ASSUME NEW S, IsFiniteSet(S), NEW A, IsFiniteSet(A), NEW T, T \subseteq S, NEW B, B \subseteq A
    PROVE  Cardinality(T) + Cardinality(B) <= Cardinality(S) + Cardinality(A)
<1>1. /\ Cardinality(T) \in Nat /\ Cardinality(S) \in Nat /\ Cardinality(T) <= Cardinality(S)
      /\ Cardinality(B) \in Nat /\ Cardinality(A) \in Nat /\ Cardinality(B) <= Cardinality(A)
  BY SubsetSize
<1>. QED BY <1>1

LEMMA SizesNat ==
    ASSUME CallsInv
    PROVE  /\ IsFiniteSet(goals) /\ IsFiniteSet(DOMAIN funnels)
           /\ Cardinality(goals) \in Nat /\ Cardinality(DOMAIN funnels) \in Nat
           /\ \A p : IsFiniteSet(At(p)) /\ Cardinality(At(p)) \in Nat
                     /\ Cardinality(At(p)) <= Cardinality(Managers)
           /\ Cardinality(Managers) \in Nat /\ MaxGoals \in Nat /\ MaxFunnels \in Nat
<1>1. IsFiniteSet(Managers) /\ MaxGoals \in Nat /\ MaxFunnels \in Nat /\ MaxIds \in Nat
  BY ConversionAssumption DEF ConversionAssumption
<1>2. IsFiniteSet(1..ids)
  BY <1>1, FS_Interval DEF CallsInv, Ids
<1>3. goals \subseteq 1..ids /\ DOMAIN funnels \subseteq 1..ids
  BY DEF CallsInv
<1>4. \A p : At(p) \subseteq Managers
  BY DEF At
<1>. QED BY <1>1, <1>2, <1>3, <1>4, SubsetSize

\* What a step does to the goals and to those who have counted them.
GoalsTurn(m) ==
    \/ goals' \subseteq goals /\ At("insert goal")' \subseteq At("insert goal")
    \/ GoalsLeft /\ goals' = goals
    \/ /\ goals' = goals \cup {ids + 1} /\ m \in At("insert goal")
       /\ At("insert goal")' = At("insert goal") \ {m}

FunnelsTurn(m) ==
    \/ DOMAIN funnels' \subseteq DOMAIN funnels /\ At("insert")' \subseteq At("insert")
    \/ FunnelsLeft /\ DOMAIN funnels' = DOMAIN funnels
    \/ /\ DOMAIN funnels' = DOMAIN funnels \cup {ids + 1} /\ m \in At("insert")
       /\ At("insert")' = At("insert") \ {m}

LEMMA LimitKept ==
    ASSUME CallsInv, CallsInv', LimitInv, NEW m \in Managers, GoalsTurn(m), FunnelsTurn(m)
    PROVE  LimitInv'
<1>0. /\ Cardinality(goals) + Cardinality(At("insert goal")) <= MaxGoals + Cardinality(Managers) - 1
      /\ Cardinality(DOMAIN funnels) + Cardinality(At("insert")) <= MaxFunnels + Cardinality(Managers) - 1
  BY DEF LimitInv
<1>1. /\ IsFiniteSet(goals) /\ IsFiniteSet(DOMAIN funnels)
      /\ Cardinality(goals) \in Nat /\ Cardinality(DOMAIN funnels) \in Nat
      /\ IsFiniteSet(At("insert goal")) /\ Cardinality(At("insert goal")) \in Nat
      /\ IsFiniteSet(At("insert")) /\ Cardinality(At("insert")) \in Nat
      /\ Cardinality(Managers) \in Nat /\ MaxGoals \in Nat /\ MaxFunnels \in Nat
  BY SizesNat
<1>2. /\ Cardinality(goals') \in Nat /\ Cardinality(DOMAIN funnels') \in Nat
      /\ Cardinality(At("insert goal")') \in Nat /\ Cardinality(At("insert goal")') <= Cardinality(Managers)
      /\ Cardinality(At("insert")') \in Nat /\ Cardinality(At("insert")') <= Cardinality(Managers)
  <2>1. At("insert goal")' \subseteq Managers /\ At("insert")' \subseteq Managers
    BY DEF At
  <2>2. IsFiniteSet(Managers) /\ MaxIds \in Nat
    BY ConversionAssumption DEF ConversionAssumption
  <2>3. goals' \subseteq 1..ids' /\ DOMAIN funnels' \subseteq 1..ids' /\ IsFiniteSet(1..ids')
    BY <2>2, FS_Interval DEF CallsInv, Ids
  <2>. QED BY <2>1, <2>2, <2>3, SubsetSize
<1>3. Cardinality(goals') + Cardinality(At("insert goal")') <= MaxGoals + Cardinality(Managers) - 1
  <2>1. CASE goals' \subseteq goals /\ At("insert goal")' \subseteq At("insert goal")
    <3>1. Cardinality(goals') + Cardinality(At("insert goal")')
             <= Cardinality(goals) + Cardinality(At("insert goal"))
      BY <1>1, <2>1, NoMorePlaces
    <3>. QED BY <1>0, <1>1, <1>2, <3>1, LimitSum
  <2>2. CASE GoalsLeft /\ goals' = goals
    BY <1>1, <1>2, <2>2, LimitSum DEF GoalsLeft
  <2>3. CASE /\ goals' = goals \cup {ids + 1} /\ m \in At("insert goal")
             /\ At("insert goal")' = At("insert goal") \ {m}
    <3>1. Cardinality(goals') + Cardinality(At("insert goal")')
             <= Cardinality(goals) + Cardinality(At("insert goal"))
      BY <1>1, <2>3, PlaceTaken
    <3>. QED BY <1>0, <1>1, <1>2, <3>1, LimitSum
  <2>. QED BY <2>1, <2>2, <2>3 DEF GoalsTurn
<1>4. Cardinality(DOMAIN funnels') + Cardinality(At("insert")') <= MaxFunnels + Cardinality(Managers) - 1
  <2>1. CASE DOMAIN funnels' \subseteq DOMAIN funnels /\ At("insert")' \subseteq At("insert")
    <3>1. Cardinality(DOMAIN funnels') + Cardinality(At("insert")')
             <= Cardinality(DOMAIN funnels) + Cardinality(At("insert"))
      BY <1>1, <2>1, NoMorePlaces
    <3>. QED BY <1>0, <1>1, <1>2, <3>1, LimitSum
  <2>2. CASE FunnelsLeft /\ DOMAIN funnels' = DOMAIN funnels
    BY <1>1, <1>2, <2>2, LimitSum DEF FunnelsLeft
  <2>3. CASE /\ DOMAIN funnels' = DOMAIN funnels \cup {ids + 1} /\ m \in At("insert")
             /\ At("insert")' = At("insert") \ {m}
    <3>1. Cardinality(DOMAIN funnels') + Cardinality(At("insert")')
             <= Cardinality(DOMAIN funnels) + Cardinality(At("insert"))
      BY <1>1, <2>3, PlaceTaken
    <3>. QED BY <1>0, <1>1, <1>2, <3>1, LimitSum
  <2>. QED BY <2>1, <2>2, <2>3 DEF FunnelsTurn
<1>. QED BY <1>3, <1>4 DEF LimitInv

\* A turn into another stage than the two makes nobody wait.
LEMMA NobodyWaits ==
    ASSUME NEW m \in Managers, NEW r, Turns(m, r), NEW p, r.pc # p \/ call[m].pc = p
    PROVE  At(p)' \subseteq At(p)
BY StagesAfter DEF At

LEMMA LimitStep ==
    ASSUME CallsInv, CallsInv', LimitInv, NEW m \in Managers, Continue(m) \/ Start(m)
    PROVE  LimitInv'
<1>0. DOMAIN call[m] = CallFields /\ Free.pc = "idle"
  BY FreeCall DEF CallsInv, CallOK
<1>1. ASSUME UNCHANGED goals, DOMAIN funnels' \subseteq DOMAIN funnels, NEW r, Turns(m, r),
             r.pc \notin {"insert goal", "insert"} \/ r.pc = call[m].pc
      PROVE  LimitInv'
  <2>1. At("insert goal")' \subseteq At("insert goal") /\ At("insert")' \subseteq At("insert")
    BY <1>1, NobodyWaits
  <2>2. GoalsTurn(m) /\ FunnelsTurn(m)
    BY <1>1, <2>1 DEF GoalsTurn, FunnelsTurn
  <2>. QED BY <2>2, LimitKept
<1>2. CASE CountGoals(m)
  <2>1. CASE UNCHANGED call
    BY <1>1, <1>2, <2>1, StaysTurns DEF CountGoals
  <2>2. CASE GoalsLeft /\ Goes(m, "insert goal")
    <3>1. PICK r : r = [call[m] EXCEPT !.pc = "insert goal"]
      OBVIOUS
    <3>2. r.pc = "insert goal"
      BY <1>0, <3>1 DEF CallFields
    <3>3. Turns(m, r)
      BY <2>2, <3>1, GoesTurns
    <3>4. At("insert")' \subseteq At("insert")
      BY <3>2, <3>3, NobodyWaits
    <3>5. UNCHANGED <<goals, funnels>>
      BY <1>2 DEF CountGoals
    <3>6. GoalsTurn(m) /\ FunnelsTurn(m)
      BY <2>2, <3>4, <3>5 DEF GoalsTurn, FunnelsTurn
    <3>. QED BY <3>6, LimitKept
  <2>. QED BY <1>2, <2>1, <2>2 DEF CountGoals
<1>3. CASE CountFunnels(m)
  <2>1. CASE UNCHANGED call
    BY <1>1, <1>3, <2>1, StaysTurns DEF CountFunnels
  <2>2. CASE FunnelsLeft /\ Goes(m, "insert")
    <3>1. PICK r : r = [call[m] EXCEPT !.pc = "insert"]
      OBVIOUS
    <3>2. r.pc = "insert"
      BY <1>0, <3>1 DEF CallFields
    <3>3. Turns(m, r)
      BY <2>2, <3>1, GoesTurns
    <3>4. At("insert goal")' \subseteq At("insert goal")
      BY <3>2, <3>3, NobodyWaits
    <3>5. UNCHANGED <<goals, funnels>>
      BY <1>3 DEF CountFunnels
    <3>6. GoalsTurn(m) /\ FunnelsTurn(m)
      BY <2>2, <3>4, <3>5 DEF GoalsTurn, FunnelsTurn
    <3>. QED BY <3>6, LimitKept
  <2>. QED BY <1>3, <2>1, <2>2 DEF CountFunnels
<1>4. CASE InsertGoal(m)
  <2>1. Turns(m, Free) /\ m \in At("insert goal")
    BY <1>4, EndsTurns DEF InsertGoal, At
  <2>2. At("insert goal")' = At("insert goal") \ {m} /\ At("insert")' \subseteq At("insert")
    BY <1>0, <2>1, StagesAfter, NobodyWaits
  <2>3. goals' = goals \cup {ids + 1} /\ UNCHANGED funnels
    BY <1>4 DEF InsertGoal
  <2>4. GoalsTurn(m) /\ FunnelsTurn(m)
    BY <2>1, <2>2, <2>3 DEF GoalsTurn, FunnelsTurn
  <2>. QED BY <2>4, LimitKept
<1>5. CASE InsertFunnel(m)
  <2>1. PICK s \in StepLists : /\ funnels' = With(funnels, ids + 1, s)
                               /\ call' = [call EXCEPT ![m] = [Free EXCEPT !.pc = "cache", !.id = ids + 1, !.steps = s]]
    BY <1>5 DEF InsertFunnel
  <2>2. PICK r : r = [Free EXCEPT !.pc = "cache", !.id = ids + 1, !.steps = s]
    OBVIOUS
  <2>3. Turns(m, r)
    BY <2>1, <2>2, NewTurns
  <2>4. r.pc = "cache" /\ m \in At("insert")
    BY <1>5, <2>2, NewCall DEF InsertFunnel, At
  <2>5. At("insert")' = At("insert") \ {m} /\ At("insert goal")' \subseteq At("insert goal")
    BY <2>3, <2>4, StagesAfter, NobodyWaits
  <2>6. DOMAIN funnels' = DOMAIN funnels \cup {ids + 1} /\ UNCHANGED goals
    BY <1>5, <2>1 DEF InsertFunnel, With
  <2>7. GoalsTurn(m) /\ FunnelsTurn(m)
    BY <2>4, <2>5, <2>6 DEF GoalsTurn, FunnelsTurn
  <2>. QED BY <2>7, LimitKept
<1>6. CASE DeleteGoal(m)
  <2>1. Turns(m, call[m]) /\ goals' \subseteq goals /\ UNCHANGED funnels
    BY <1>6, StaysTurns DEF DeleteGoal
  <2>2. At("insert goal")' \subseteq At("insert goal") /\ At("insert")' \subseteq At("insert")
    BY <2>1, NobodyWaits
  <2>3. GoalsTurn(m) /\ FunnelsTurn(m)
    BY <2>1, <2>2 DEF GoalsTurn, FunnelsTurn
  <2>. QED BY <2>3, LimitKept
<1>7. CASE CheckUpdate(m)
  <2>1. UNCHANGED <<goals, funnels>>
    BY <1>7 DEF CheckUpdate
  <2>2. CASE UNCHANGED call
    BY <1>1, <2>1, <2>2, StaysTurns
  <2>3. ASSUME NEW i, NEW s,
               call' = [call EXCEPT ![m] = [Free EXCEPT !.pc = "update", !.id = i, !.steps = s]]
        PROVE  LimitInv'
    <3>1. PICK r : r = [Free EXCEPT !.pc = "update", !.id = i, !.steps = s]
      OBVIOUS
    <3>2. r.pc = "update"
      BY <3>1, NewCall
    <3>3. Turns(m, r)
      BY <2>3, <3>1, NewTurns
    <3>. QED BY <1>1, <2>1, <3>2, <3>3
  <2>. QED BY <1>7, <2>2, <2>3 DEF CheckUpdate
<1>8. CASE DeleteRow(m)
  <2>1. PICK i : /\ funnels' = Without(funnels, i)
                 /\ call' = [call EXCEPT ![m] = [Free EXCEPT !.pc = "drop", !.id = i]]
    BY <1>8 DEF DeleteRow
  <2>2. PICK r : r = [Free EXCEPT !.pc = "drop", !.id = i]
    OBVIOUS
  <2>3. r.pc = "drop"
    BY <2>2, NewDrop
  <2>5. DOMAIN funnels' \subseteq DOMAIN funnels /\ UNCHANGED goals
    BY <1>8, <2>1 DEF DeleteRow, Without, Restrict
  <2>4. Turns(m, r)
    BY <2>1, <2>2, NewTurns
  <2>. QED BY <1>1, <2>3, <2>4, <2>5
<1>9. CASE WarmDrop(m)
  <2>1. PICK p \in {"scan", "query"} : Goes(m, p)
    BY <1>9 DEF WarmDrop
  <2>2. PICK r : r = [call[m] EXCEPT !.pc = p]
    OBVIOUS
  <2>3. r.pc = p /\ UNCHANGED <<goals, funnels>>
    BY <1>0, <1>9, <2>2 DEF CallFields, WarmDrop
  <2>4. Turns(m, r)
    BY <2>1, <2>2, GoesTurns
  <2>. QED BY <1>1, <2>3, <2>4
<1>10. CASE UpdateRow(m)
  <2>1. UNCHANGED goals /\ DOMAIN funnels' = DOMAIN funnels
    BY <1>10 DEF UpdateRow
  <2>2. CASE Ends(m)
    BY <1>0, <1>1, <2>1, <2>2, EndsTurns
  <2>3. CASE Goes(m, "cache")
    <3>1. PICK r : r = [call[m] EXCEPT !.pc = "cache"]
      OBVIOUS
    <3>2. r.pc = "cache"
      BY <1>0, <3>1 DEF CallFields
    <3>3. Turns(m, r)
      BY <2>3, <3>1, GoesTurns
    <3>. QED BY <1>1, <2>1, <3>2, <3>3
  <2>. QED BY <1>10, <2>2, <2>3 DEF UpdateRow
<1>11. CASE CacheFunnel(m) \/ DropField(m) \/ CallFails(m)
  <2>1. Turns(m, Free) /\ UNCHANGED <<goals, funnels>>
    BY <1>11, EndsTurns DEF CacheFunnel, DropField, CallFails
  <2>. QED BY <1>0, <1>1, <2>1
<1>12. CASE WarmQuery(m)
  <2>1. PICK r : r = [Free EXCEPT !.pc = "fill", !.list = funnels]
    OBVIOUS
  <2>2. r.pc = "fill" /\ UNCHANGED <<goals, funnels>>
    BY <1>12, <2>1, NewFill DEF WarmQuery
  <2>3. Turns(m, r)
    BY <1>12, <2>1, NewTurns DEF WarmQuery
  <2>. QED BY <1>1, <2>2, <2>3
<1>13. CASE WarmFill(m)
  <2>1. UNCHANGED <<goals, funnels>>
    BY <1>13 DEF WarmFill
  <2>2. CASE Ends(m)
    BY <1>0, <1>1, <2>1, <2>2, EndsTurns
  <2>3. ASSUME NEW i, call' = [call EXCEPT ![m].list = Without(@, i)]
        PROVE  LimitInv'
    <3>1. PICK r : r = [call[m] EXCEPT !.list = Without(call[m].list, i)]
      OBVIOUS
    <3>2. Turns(m, r) /\ r.pc = call[m].pc
      BY <1>0, <2>3, <3>1, FilledCall DEF CallFields
    <3>. QED BY <1>1, <2>1, <3>2
  <2>. QED BY <1>13, <2>2, <2>3 DEF WarmFill
<1>. QED BY <1>2, <1>3, <1>4, <1>5, <1>6, <1>7, <1>8, <1>9, <1>10, <1>11, <1>12, <1>13
        DEF Continue, Start

\* What a turn of manager m to r must do for the hash. A funnel that is told stays told.
StillTold(m, r) ==
    \A i \in DOMAIN funnels' \ untold' :
        \/ i \in DOMAIN defs'
        \/ Brings(r, i)
        \/ /\ i \in DOMAIN funnels \ untold /\ (i \in DOMAIN defs => i \in DOMAIN defs')
           /\ ~Brings(call[m], i)

\* A field has a reason.
HasReason(m, r) ==
    \A i \in DOMAIN defs' :
        \/ i \in DOMAIN funnels' \cup leftover'
        \/ (r.pc = "drop" /\ r.id = i)
        \/ /\ i \in DOMAIN defs /\ i \notin DOMAIN funnels \cup leftover
           /\ call[m].pc = "drop" => call[m].id # i

\* Nobody carries what has lost its reason.
KeepsReasons ==
    \A i \in DOMAIN funnels \cup leftover :
        i \in DOMAIN funnels' \cup leftover' \/ (\A o \in Managers : ~Carries(call[o], i))

CarriesReason(r) == \A i \in 1..ids' : Carries(r, i) => i \in DOMAIN funnels' \cup leftover'

Tells(m, r) == StillTold(m, r) /\ HasReason(m, r) /\ KeepsReasons /\ CarriesReason(r)

LEMMA DefsKept ==
    ASSUME CallsInv, CallsInv', DefsInv, NEW m \in Managers, NEW r, Turns(m, r), Tells(m, r)
    PROVE  DefsInv'
<1>0. \A o \in Managers \ {m} : call'[o] = call[o]
  BY DEF Turns
<1>1. ASSUME NEW i \in DOMAIN funnels' \ untold'
      PROVE  i \in DOMAIN defs' \/ \E o \in Managers : Brings(call[o], i)'
  <2>1. CASE i \in DOMAIN defs'
    BY <2>1
  <2>2. CASE Brings(r, i)
    BY <2>2 DEF Turns, Brings, Carries
  <2>3. CASE /\ i \in DOMAIN funnels \ untold /\ (i \in DOMAIN defs => i \in DOMAIN defs')
             /\ ~Brings(call[m], i)
    <3>1. CASE i \in DOMAIN defs
      BY <2>3, <3>1
    <3>2. ASSUME NEW o \in Managers, Brings(call[o], i)
          PROVE  \E q \in Managers : Brings(call[q], i)'
      <4>1. o # m
        BY <2>3, <3>2
      <4>2. call'[o] = call[o]
        BY <1>0, <4>1
      <4>3. Brings(call[o], i)'
        BY <3>2, <4>2 DEF Brings, Carries
      <4>. QED BY <4>3
    <3>. QED BY <2>3, <3>1, <3>2 DEF DefsInv
  <2>. QED BY <2>1, <2>2, <2>3 DEF Tells, StillTold
<1>2. ASSUME NEW i \in DOMAIN defs'
      PROVE  i \in DOMAIN funnels' \cup leftover' \cup Dropped'
  <2>1. CASE i \in DOMAIN funnels' \cup leftover'
    BY <2>1
  <2>2. CASE r.pc = "drop" /\ r.id = i
    BY <2>2 DEF Turns, Dropped, At
  <2>3. CASE /\ i \in DOMAIN defs /\ i \notin DOMAIN funnels \cup leftover
             /\ call[m].pc = "drop" => call[m].id # i
    <3>1. PICK o \in At("drop") : i = call[o].id
      BY <2>3 DEF DefsInv, Dropped
    <3>2. o \in Managers /\ o # m
      BY <2>3, <3>1 DEF At
    <3>3. call'[o] = call[o] /\ call[o].pc = "drop"
      BY <1>0, <3>2 DEF At
    <3>4. o \in At("drop")'
      BY <3>2, <3>3 DEF At
    <3>. QED BY <3>1, <3>3, <3>4 DEF Dropped
  <2>. QED BY <2>1, <2>2, <2>3 DEF Tells, HasReason
<1>3. ASSUME NEW o \in Managers, NEW i \in 1..ids', Carries(call[o], i)'
      PROVE  i \in DOMAIN funnels' \cup leftover'
  <2>1. CASE o = m
    BY <1>3, <2>1 DEF Turns, Tells, CarriesReason, Carries
  <2>2. CASE o # m
    <3>1. Carries(call[o], i)
      BY <1>0, <1>3, <2>2 DEF Carries
    <3>2. i \in 1..ids
      <4>1. CallOK(call[o])
        BY DEF CallsInv
      <4>. QED BY <3>1, <4>1 DEF Carries, CallOK
    <3>3. i \in DOMAIN funnels \cup leftover
      BY <3>1, <3>2 DEF DefsInv
    <3>. QED BY <3>1, <3>3 DEF Tells, KeepsReasons
  <2>. QED BY <2>1, <2>2
<1>. QED BY <1>1, <1>2, <1>3 DEF DefsInv

LEMMA DefsStep ==
    ASSUME CallsInv, CallsInv', DefsInv, NEW m \in Managers, Continue(m) \/ Start(m)
    PROVE  DefsInv'
<1>0. DOMAIN call[m] = CallFields /\ Free.pc = "idle" /\ CallOK(call[m])
  BY FreeCall DEF CallsInv, CallOK
<1>1. \A i : ~Brings(Free, i) /\ ~Carries(Free, i)
  BY <1>0 DEF Brings, Carries
\* A turn that leaves the tables alone.
<1>2. ASSUME UNCHANGED <<funnels, defs, untold, leftover>>, NEW r, Turns(m, r),
             r.pc \in {"idle", "insert goal", "insert", "update"},
             call[m].pc \in {"idle", "insert goal", "insert", "update"}
      PROVE  DefsInv'
  <2>2. \A i : ~Brings(r, i) /\ ~Carries(r, i) /\ ~Brings(call[m], i)
    BY <1>2 DEF Brings, Carries
  <2>1. Tells(m, r)
    <3>1. StillTold(m, r)
      BY <1>2, <2>2 DEF StillTold
    <3>2. HasReason(m, r)
      BY <1>2, <2>2 DEF HasReason
    <3>3. KeepsReasons
      BY <1>2, <2>2 DEF KeepsReasons
    <3>4. CarriesReason(r)
      BY <1>2, <2>2 DEF CarriesReason
    <3>. QED BY <3>1, <3>2, <3>3, <3>4 DEF Tells
  <2>. QED BY <1>2, <2>1, DefsKept
<1>3. CASE CountGoals(m) \/ CountFunnels(m) \/ DeleteGoal(m) \/ InsertGoal(m) \/ CheckUpdate(m)
  <2>1. UNCHANGED <<funnels, defs, untold, leftover>> /\ call[m].pc \in {"idle", "insert goal"}
    BY <1>3 DEF CountGoals, CountFunnels, DeleteGoal, InsertGoal, CheckUpdate, Begins
  <2>2. CASE UNCHANGED call
    <3>1. Turns(m, call[m])
      BY <2>2, StaysTurns
    <3>. QED BY <1>2, <2>1, <3>1
  <2>3. CASE Ends(m)
    <3>1. Turns(m, Free)
      BY <2>3, EndsTurns
    <3>. QED BY <1>0, <1>2, <2>1, <3>1
  <2>4. ASSUME NEW p \in {"insert goal", "insert"}, Goes(m, p) PROVE DefsInv'
    <3>1. PICK r : r = [call[m] EXCEPT !.pc = p]
      OBVIOUS
    <3>2. r.pc = p
      BY <1>0, <3>1 DEF CallFields
    <3>3. Turns(m, r)
      BY <2>4, <3>1, GoesTurns
    <3>. QED BY <1>2, <2>1, <3>2, <3>3
  <2>5. ASSUME NEW i, NEW s, call' = [call EXCEPT ![m] = [Free EXCEPT !.pc = "update", !.id = i, !.steps = s]]
        PROVE  DefsInv'
    <3>1. PICK r : r = [Free EXCEPT !.pc = "update", !.id = i, !.steps = s]
      OBVIOUS
    <3>2. r.pc = "update"
      BY <3>1, NewCall
    <3>3. Turns(m, r)
      BY <2>5, <3>1, NewTurns
    <3>. QED BY <1>2, <2>1, <3>2, <3>3
  <2>. QED BY <1>3, <2>2, <2>3, <2>4, <2>5
          DEF CountGoals, CountFunnels, DeleteGoal, InsertGoal, CheckUpdate
<1>4. CASE InsertFunnel(m)
  <2>1. PICK s \in StepLists : /\ funnels' = With(funnels, ids + 1, s)
                               /\ call' = [call EXCEPT ![m] = [Free EXCEPT !.pc = "cache", !.id = ids + 1, !.steps = s]]
    BY <1>4 DEF InsertFunnel
  <2>2. PICK r : r = [Free EXCEPT !.pc = "cache", !.id = ids + 1, !.steps = s]
    OBVIOUS
  <2>3. Turns(m, r)
    BY <2>1, <2>2, NewTurns
  <2>4. r.pc = "cache" /\ r.id = ids + 1
    BY <2>2, NewCall
  <2>5. DOMAIN funnels' = DOMAIN funnels \cup {ids + 1} /\ UNCHANGED <<defs, untold, leftover>>
    BY <1>4, <2>1 DEF InsertFunnel, With
  <2>6. call[m].pc = "insert"
    BY <1>4 DEF InsertFunnel
  <2>7. Brings(r, ids + 1) /\ \A i : Carries(r, i) => i = ids + 1
    BY <2>4 DEF Brings, Carries
  <2>9. \A i : ~Brings(call[m], i)
    BY <2>6 DEF Brings, Carries
  <2>8. Tells(m, r)
    <3>1. StillTold(m, r)
      BY <2>4, <2>5, <2>6, <2>7, <2>9 DEF StillTold
    <3>2. HasReason(m, r)
      BY <2>4, <2>5, <2>6, <2>7, <2>9 DEF HasReason
    <3>3. KeepsReasons
      BY <2>4, <2>5, <2>6, <2>7, <2>9 DEF KeepsReasons
    <3>4. CarriesReason(r)
      BY <2>4, <2>5, <2>6, <2>7, <2>9 DEF CarriesReason
    <3>. QED BY <3>1, <3>2, <3>3, <3>4 DEF Tells
  <2>. QED BY <2>3, <2>8, DefsKept
<1>5. CASE UpdateRow(m)
  <2>1. DOMAIN funnels' = DOMAIN funnels /\ UNCHANGED <<defs, untold, leftover>> /\ call[m].pc = "update"
    BY <1>5 DEF UpdateRow
  <2>2. CASE Ends(m) /\ UNCHANGED funnels
    <3>1. Turns(m, Free)
      BY <2>2, EndsTurns
    <3>. QED BY <1>0, <1>2, <2>1, <2>2, <3>1
  <2>3. CASE call[m].id \in DOMAIN funnels /\ Goes(m, "cache")
    <3>1. PICK r : r = [call[m] EXCEPT !.pc = "cache"]
      OBVIOUS
    <3>2. r.pc = "cache" /\ r.id = call[m].id
      BY <1>0, <3>1 DEF CallFields
    <3>3. Turns(m, r)
      BY <2>3, <3>1, GoesTurns
    <3>4. \A i : Carries(r, i) => i = call[m].id
      BY <3>2 DEF Carries
    <3>6. \A i : ~Brings(call[m], i)
      BY <2>1 DEF Brings, Carries
    <3>5. Tells(m, r)
      <4>1. StillTold(m, r)
        BY <2>1, <2>3, <3>2, <3>4, <3>6 DEF StillTold
      <4>2. HasReason(m, r)
        BY <2>1, <2>3, <3>2, <3>4, <3>6 DEF HasReason
      <4>3. KeepsReasons
        BY <2>1, <2>3, <3>2, <3>4, <3>6 DEF KeepsReasons
      <4>4. CarriesReason(r)
        BY <2>1, <2>3, <3>2, <3>4, <3>6 DEF CarriesReason
      <4>. QED BY <4>1, <4>2, <4>3, <4>4 DEF Tells
    <3>. QED BY <3>3, <3>5, DefsKept
  <2>. QED BY <1>5, <2>2, <2>3 DEF UpdateRow
<1>6. CASE CacheFunnel(m)
  <2>1. Turns(m, Free)
    BY <1>6, EndsTurns DEF CacheFunnel
  <2>2. DOMAIN defs' = DOMAIN defs \cup {call[m].id} /\ UNCHANGED <<funnels, leftover>>
        /\ untold' = untold \ {call[m].id} /\ call[m].pc = "cache"
    BY <1>6 DEF CacheFunnel, With
  <2>3. call[m].id \in DOMAIN funnels \cup leftover
    <3>1. Carries(call[m], call[m].id) /\ call[m].id \in 1..ids
      BY <1>0, <2>2 DEF Carries, CallOK
    <3>. QED BY <3>1 DEF DefsInv
  <2>4. \A i : Brings(call[m], i) => i = call[m].id
    BY <2>2 DEF Brings, Carries
  <2>5. Tells(m, Free)
    <3>1. StillTold(m, Free)
      BY <1>0, <1>1, <2>2, <2>3, <2>4 DEF StillTold
    <3>2. HasReason(m, Free)
      BY <1>0, <1>1, <2>2, <2>3, <2>4 DEF HasReason
    <3>3. KeepsReasons
      BY <1>0, <1>1, <2>2, <2>3, <2>4 DEF KeepsReasons
    <3>4. CarriesReason(Free)
      BY <1>0, <1>1, <2>2, <2>3, <2>4 DEF CarriesReason
    <3>. QED BY <3>1, <3>2, <3>3, <3>4 DEF Tells
  <2>. QED BY <2>1, <2>5, DefsKept
<1>7. CASE DeleteRow(m)
  <2>1. PICK i \in 1..ids \ goals :
           /\ funnels' = Without(funnels, i)
           /\ call' = [call EXCEPT ![m] = [Free EXCEPT !.pc = "drop", !.id = i]]
           /\ leftover' = IF Carried(i) THEN leftover \cup {i} ELSE leftover
    BY <1>7 DEF DeleteRow
  <2>2. PICK r : r = [Free EXCEPT !.pc = "drop", !.id = i]
    OBVIOUS
  <2>3. Turns(m, r)
    BY <2>1, <2>2, NewTurns
  <2>4. r.pc = "drop" /\ r.id = i
    BY <2>2, NewDrop
  <2>5. DOMAIN funnels' = DOMAIN funnels \ {i} /\ UNCHANGED <<defs, untold>> /\ call[m].pc = "idle"
    BY <1>7, <2>1 DEF DeleteRow, Begins, Without, Restrict
  <2>6. leftover' = leftover \cup {i} \/ (leftover' = leftover /\ \A o \in Managers : ~Carries(call[o], i))
    BY <2>1 DEF Carried, Carries
  <2>8. \A j : ~Brings(call[m], j) /\ ~Carries(r, j)
    BY <2>4, <2>5 DEF Brings, Carries
  <2>7. Tells(m, r)
    <3>1. StillTold(m, r)
      BY <2>4, <2>5, <2>6, <2>8 DEF StillTold
    <3>2. HasReason(m, r)
      BY <2>4, <2>5, <2>6, <2>8 DEF HasReason
    <3>3. KeepsReasons
      BY <2>4, <2>5, <2>6, <2>8 DEF KeepsReasons
    <3>4. CarriesReason(r)
      BY <2>4, <2>5, <2>6, <2>8 DEF CarriesReason
    <3>. QED BY <3>1, <3>2, <3>3, <3>4 DEF Tells
  <2>. QED BY <2>3, <2>7, DefsKept
<1>8. CASE DropField(m)
  <2>1. Turns(m, Free)
    BY <1>8, EndsTurns DEF DropField
  <2>2. DOMAIN defs' = DOMAIN defs \ {call[m].id} /\ UNCHANGED <<funnels, leftover, untold>>
        /\ call[m].pc = "drop"
    BY <1>8 DEF DropField, Without, Restrict
  <2>3. call[m].id \notin DOMAIN funnels
    BY <2>2 DEF CallsInv, At
  <2>5. \A i : ~Brings(call[m], i)
    BY <2>2 DEF Brings, Carries
  <2>4. Tells(m, Free)
    <3>1. StillTold(m, Free)
      BY <1>0, <1>1, <2>2, <2>3, <2>5 DEF StillTold
    <3>2. HasReason(m, Free)
      BY <1>0, <1>1, <2>2, <2>3, <2>5 DEF HasReason
    <3>3. KeepsReasons
      BY <1>0, <1>1, <2>2, <2>3, <2>5 DEF KeepsReasons
    <3>4. CarriesReason(Free)
      BY <1>0, <1>1, <2>2, <2>3, <2>5 DEF CarriesReason
    <3>. QED BY <3>1, <3>2, <3>3, <3>4 DEF Tells
  <2>. QED BY <2>1, <2>4, DefsKept
<1>9. CASE WarmDrop(m)
  <2>1. PICK p \in {"scan", "query"} : Goes(m, p)
    BY <1>9 DEF WarmDrop
  <2>2. PICK r : r = [call[m] EXCEPT !.pc = p]
    OBVIOUS
  <2>3. r.pc \in {"scan", "query"}
    BY <1>0, <2>2 DEF CallFields
  <2>4. Turns(m, r)
    BY <2>1, <2>2, GoesTurns
  <2>5. DOMAIN defs' = {} /\ UNCHANGED funnels /\ leftover' = {i \in leftover : Carried(i)}
    BY <1>9 DEF WarmDrop, NoFunnels
  <2>6. \A i : Brings(r, i) /\ ~Carries(r, i)
    BY <2>3 DEF Brings, Carries
  <2>7. \A i : Carried(i) <=> \E o \in Managers : Carries(call[o], i)
    BY DEF Carried, Carries
  <2>8. Tells(m, r)
    <3>1. StillTold(m, r)
      BY <2>5, <2>6, <2>7 DEF StillTold
    <3>2. HasReason(m, r)
      BY <2>5, <2>6, <2>7 DEF HasReason
    <3>3. KeepsReasons
      BY <2>5, <2>6, <2>7 DEF KeepsReasons
    <3>4. CarriesReason(r)
      BY <2>5, <2>6, <2>7 DEF CarriesReason
    <3>. QED BY <3>1, <3>2, <3>3, <3>4 DEF Tells
  <2>. QED BY <2>4, <2>8, DefsKept
<1>10. CASE WarmQuery(m)
  <2>1. PICK r : r = [Free EXCEPT !.pc = "fill", !.list = funnels]
    OBVIOUS
  <2>2. r.pc = "fill" /\ r.list = funnels
    BY <2>1, NewFill
  <2>3. Turns(m, r)
    BY <1>10, <2>1, NewTurns DEF WarmQuery
  <2>4. UNCHANGED <<funnels, defs, untold, leftover>> /\ call[m].pc = "query"
    BY <1>10 DEF WarmQuery
  <2>5. \A i : (Brings(r, i) <=> i \in DOMAIN funnels) /\ (Carries(r, i) <=> i \in DOMAIN funnels)
    BY <2>2 DEF Brings, Carries
  <2>6. Tells(m, r)
    <3>1. StillTold(m, r)
      BY <2>2, <2>4, <2>5 DEF StillTold
    <3>2. HasReason(m, r)
      BY <2>2, <2>4, <2>5 DEF HasReason
    <3>3. KeepsReasons
      BY <2>2, <2>4, <2>5 DEF KeepsReasons
    <3>4. CarriesReason(r)
      BY <2>2, <2>4, <2>5 DEF CarriesReason
    <3>. QED BY <3>1, <3>2, <3>3, <3>4 DEF Tells
  <2>. QED BY <2>3, <2>6, DefsKept
<1>11. CASE WarmFill(m)
  <2>1. UNCHANGED <<funnels, leftover>> /\ call[m].pc = "fill"
    BY <1>11 DEF WarmFill
  <2>2. \A i : (Brings(call[m], i) <=> i \in DOMAIN call[m].list)
               /\ (Carries(call[m], i) <=> i \in DOMAIN call[m].list)
    BY <2>1 DEF Brings, Carries
  <2>3. \A i \in DOMAIN call[m].list : i \in DOMAIN funnels \cup leftover
    BY <1>0, <2>1, <2>2 DEF CallOK, DefsInv
  <2>4. CASE call[m].list = NoFunnels /\ Ends(m) /\ UNCHANGED <<defs, untold>>
    <3>1. Turns(m, Free)
      BY <2>4, EndsTurns
    <3>2. DOMAIN call[m].list = {}
      BY <2>4 DEF NoFunnels
    <3>3. Tells(m, Free)
      <4>1. StillTold(m, Free)
        BY <1>0, <1>1, <2>1, <2>2, <2>4, <3>2 DEF StillTold
      <4>2. HasReason(m, Free)
        BY <1>0, <1>1, <2>1, <2>2, <2>4, <3>2 DEF HasReason
      <4>3. KeepsReasons
        BY <1>0, <1>1, <2>1, <2>2, <2>4, <3>2 DEF KeepsReasons
      <4>4. CarriesReason(Free)
        BY <1>0, <1>1, <2>1, <2>2, <2>4, <3>2 DEF CarriesReason
      <4>. QED BY <4>1, <4>2, <4>3, <4>4 DEF Tells
    <3>. QED BY <3>1, <3>3, DefsKept
  <2>5. ASSUME NEW i \in DOMAIN call[m].list,
               defs' = With(defs, i, call[m].list[i]), untold' = untold \ {i},
               call' = [call EXCEPT ![m].list = Without(@, i)]
        PROVE  DefsInv'
    <3>1. PICK r : r = [call[m] EXCEPT !.list = Without(call[m].list, i)]
      OBVIOUS
    <3>2. Turns(m, r)
      BY <2>5, <3>1, FilledCall
    <3>3. r.pc = "fill" /\ DOMAIN r.list = DOMAIN call[m].list \ {i}
      BY <1>0, <2>1, <3>1 DEF CallFields, Without, Restrict
    <3>4. DOMAIN defs' = DOMAIN defs \cup {i}
      BY <2>5 DEF With
    <3>5. \A k : (Brings(r, k) <=> k \in DOMAIN r.list) /\ (Carries(r, k) <=> k \in DOMAIN r.list)
      BY <3>3 DEF Brings, Carries
    <3>6. Tells(m, r)
      <4>1. StillTold(m, r)
        BY <2>1, <2>2, <2>3, <2>5, <3>3, <3>4, <3>5 DEF StillTold
      <4>2. HasReason(m, r)
        BY <2>1, <2>2, <2>3, <2>5, <3>3, <3>4, <3>5 DEF HasReason
      <4>3. KeepsReasons
        BY <2>1, <2>2, <2>3, <2>5, <3>3, <3>4, <3>5 DEF KeepsReasons
      <4>4. CarriesReason(r)
        BY <2>1, <2>2, <2>3, <2>5, <3>3, <3>4, <3>5 DEF CarriesReason
      <4>. QED BY <4>1, <4>2, <4>3, <4>4 DEF Tells
    <3>. QED BY <3>2, <3>6, DefsKept
  <2>. QED BY <1>11, <2>4, <2>5 DEF WarmFill
<1>12. CASE CallFails(m)
  <2>1. Turns(m, Free)
    BY <1>12, EndsTurns DEF CallFails
  <2>2. UNCHANGED <<funnels, defs>> /\ untold \subseteq untold' /\ leftover \subseteq leftover'
    BY <1>12 DEF CallFails
  <2>3. call[m].pc = "drop" => call[m].id \in leftover'
    BY <1>12 DEF CallFails
  <2>4. ASSUME NEW i \in DOMAIN funnels, Brings(call[m], i) PROVE i \in untold'
    <3>1. CASE call[m].pc = "cache"
      <4>1. untold' = untold \cup {call[m].id} /\ i = call[m].id
        BY <1>12, <2>4, <3>1 DEF CallFails, Brings, Carries
      <4>. QED BY <4>1
    <3>2. CASE call[m].pc \in {"scan", "query", "fill"}
      <4>1. untold' = untold \cup DOMAIN funnels
        BY <1>12, <3>2 DEF CallFails
      <4>. QED BY <4>1
    <3>. QED BY <2>4, <3>1, <3>2 DEF Brings, Carries
  <2>5. Tells(m, Free)
    <3>1. StillTold(m, Free)
      BY <1>0, <1>1, <2>2, <2>3, <2>4 DEF StillTold
    <3>2. HasReason(m, Free)
      BY <1>0, <1>1, <2>2, <2>3, <2>4 DEF HasReason
    <3>3. KeepsReasons
      BY <1>0, <1>1, <2>2, <2>3, <2>4 DEF KeepsReasons
    <3>4. CarriesReason(Free)
      BY <1>0, <1>1, <2>2, <2>3, <2>4 DEF CarriesReason
    <3>. QED BY <3>1, <3>2, <3>3, <3>4 DEF Tells
  <2>. QED BY <2>1, <2>5, DefsKept
<1>. QED BY <1>3, <1>4, <1>5, <1>6, <1>7, <1>8, <1>9, <1>10, <1>11, <1>12 DEF Continue, Start

-----------------------------------------------------------------------------
(* The calls among the other steps. *)

\* A step of an event, of a report or of a flush leaves the calls alone.
CallsRest == UNCHANGED <<goals, funnels, defs, call, ids, untold, leftover>>

LEMMA CallsAtRest ==
    ASSUME CallsInv, LimitInv, DefsInv, CallsRest
    PROVE  /\ CallsInv' /\ LimitInv' /\ DefsInv'
           /\ \A L : CallLists(L) => CallLists(L)'
           /\ \A f, L : Follows(f, L) => Follows(f, L)'
<1>. USE DEF CallsRest
<1>1. CallsInv'
  BY DEF CallsInv, CallOK, At
<1>2. LimitInv'
  BY DEF LimitInv, At
<1>3. DefsInv'
  BY DEF DefsInv, Dropped, Brings, Carries, At
<1>4. ASSUME NEW L, CallLists(L) PROVE CallLists(L)'
  BY <1>4 DEF CallLists, Follows
<1>5. ASSUME NEW f, NEW L, Follows(f, L) PROVE Follows(f, L)'
  BY <1>5 DEF Follows
<1>. QED BY <1>1, <1>2, <1>3, <1>4, <1>5

LEMMA ListLengths ==
    /\ MaxSteps \in Nat
    /\ Len(<<>>) = 0
    /\ \A s \in StepLists : s \in Seq(Names) /\ Len(s) \in 2..MaxSteps
<1>1. MaxSteps \in Nat
  BY ConversionAssumption DEF ConversionAssumption
<1>2. ASSUME NEW s \in StepLists PROVE s \in Seq(Names) /\ Len(s) \in 2..MaxSteps
  <2>1. s \in Seq(Names)
    BY FunnelAssumption DEF FunnelAssumption
  <2>2. PICK n \in 2..MaxSteps : DOMAIN s = 1..n
    BY ConversionAssumption DEF ConversionAssumption
  <2>3. Len(s) \in Nat /\ DOMAIN s = 1..Len(s)
    BY <2>1
  <2>4. Len(s) = n
    <3>1. n \in Nat /\ n >= 1 /\ n \in 1..Len(s)
      BY <1>1, <2>2, <2>3
    <3>2. Len(s) \in 1..n
      BY <2>2, <2>3, <3>1
    <3>3. n <= Len(s)
      BY <2>3, <3>1
    <3>4. Len(s) <= n
      BY <3>1, <3>2
    <3>5. Len(s) \in Nat
      BY <2>3
    <3>. QED BY <3>1, <3>3, <3>4, <3>5
  <2>. QED BY <2>1, <2>2, <2>4
<1>. QED BY <1>1, <1>2

LEMMA ListLength ==
    ASSUME NEW L \in [Ids -> StepLists \cup {<<>>}], NEW i \in Ids
    PROVE  Len(L[i]) \in 0..MaxSteps
<1>1. L[i] \in StepLists \/ L[i] = <<>>
  OBVIOUS
<1>. QED BY <1>1, ListLengths

LEMMA CallsStart ==
    ASSUME ConversionInit
    PROVE  /\ CallsInv /\ LimitInv /\ DefsInv
           /\ \E L \in [Ids -> StepLists \cup {<<>>}] : CallLists(L)
<1>. USE ConversionAssumption DEF ConversionAssumption
<1>1. MaxIds \in Nat /\ MaxIds >= 1 /\ MaxGoals \in Nat /\ MaxGoals >= 1
      /\ MaxFunnels \in Nat /\ MaxFunnels >= 1
  OBVIOUS
<1>2. PICK s \in StepLists \cup {<<>>} :
         /\ \/ DOMAIN funnels = {} /\ s = <<>>
            \/ DOMAIN funnels = {1} /\ s \in StepLists /\ funnels[1] = s
         /\ ids = Cardinality(DOMAIN funnels)
  <2>1. CASE funnels = NoFunnels
    BY <2>1 DEF ConversionInit, NoFunnels
  <2>2. ASSUME NEW s \in StepLists, funnels = With(NoFunnels, 1, s)
        PROVE  DOMAIN funnels = {1} /\ funnels[1] = s
    BY <2>2 DEF With, NoFunnels
  <2>. QED BY <2>1, <2>2 DEF ConversionInit
<1>3. (DOMAIN funnels = {} /\ ids = 0) \/ (DOMAIN funnels = {1} /\ ids = 1)
  BY <1>2, FS_EmptySet, FS_Singleton
<1>4. /\ goals = {} /\ defs = funnels
      /\ \A m \in Managers : call[m] = Free
      /\ DOMAIN call = Managers
  BY DEF ConversionInit
<1>5. \A p : p # "idle" => At(p) = {}
  BY <1>4, FreeCall DEF At
<1>6. CallsInv
  <2>1. \A m \in Managers : CallOK(call[m])
    BY <1>4, FreeCall DEF CallOK, CallStages
  <2>2. ids \in Ids \cup {0}
    BY <1>1, <1>3 DEF Ids
  <2>3. DOMAIN funnels \subseteq 1..ids
    BY <1>3
  <2>4. At("drop") = {}
    BY <1>5
  <2>5. DOMAIN defs \subseteq 1..ids
    BY <1>4, <2>3
  <2>6. goals \subseteq 1..ids /\ goals \cap DOMAIN funnels = {}
    BY <1>4
  <2>. QED BY <1>4, <2>1, <2>2, <2>3, <2>4, <2>5, <2>6 DEF CallsInv
<1>7. LimitInv
  <2>1. At("insert goal") = {} /\ At("insert") = {}
    BY <1>5
  <2>2. Cardinality({}) = 0 /\ Cardinality({1}) = 1
    BY FS_EmptySet, FS_Singleton
  <2>3. Cardinality(Managers) \in Nat /\ Cardinality(Managers) # 0
    BY FS_CardinalityType, FS_EmptySet
  <2>4. Cardinality(DOMAIN funnels) \in {0, 1} /\ Cardinality(goals) = 0
    BY <1>3, <1>4, <2>2
  <2>5. Cardinality(At("insert goal")) = 0 /\ Cardinality(At("insert")) = 0
    BY <2>1, <2>2
  <2>6. PICK k \in Nat : k = Cardinality(Managers) /\ k >= 1
    BY <2>3
  <2>7. 0 + 0 <= MaxGoals + k - 1 /\ 0 + 0 <= MaxFunnels + k - 1 /\ 1 + 0 <= MaxFunnels + k - 1
    BY <1>1, <2>6
  <2>8. Cardinality(goals) + Cardinality(At("insert goal")) <= MaxGoals + k - 1
    BY <2>4, <2>5, <2>7
  <2>9. Cardinality(DOMAIN funnels) + Cardinality(At("insert")) <= MaxFunnels + k - 1
    BY <2>4, <2>5, <2>7
  <2>. QED BY <2>6, <2>8, <2>9 DEF LimitInv
<1>8. DefsInv
  BY <1>4, FreeCall DEF DefsInv, Carries
<1>9. \E L \in [Ids -> StepLists \cup {<<>>}] : CallLists(L)
  <2>1. PICK L : L = [i \in Ids |-> IF i = 1 THEN s ELSE <<>>]
    OBVIOUS
  <2>2. L \in [Ids -> StepLists \cup {<<>>}]
    BY <2>1
  <2>3. \A i \in Ids : i > ids => L[i] = <<>>
    <3>1. ids = 0 => s = <<>>
      BY <1>2, <1>3
    <3>. QED BY <1>1, <1>3, <2>1, <3>1 DEF Ids
  <2>4. 1 \in Ids /\ L[1] = s
    BY <1>1, <2>1 DEF Ids
  <2>5. Follows(funnels, L) /\ Follows(defs, L)
    BY <1>2, <1>3, <1>4, <2>4 DEF Follows
  <2>. QED BY <1>4, <2>2, <2>3, <2>5, FreeCall DEF CallLists
<1>. QED BY <1>6, <1>7, <1>8, <1>9

-----------------------------------------------------------------------------
(* The events. *)

\* Event t goes on as r, no other moves.
Works(t, r) ==
    /\ DOMAIN task' = Tasks
    /\ \A u \in Tasks \ {t} : task'[u] = task[u]
    /\ task'[t] = r

LEMMA EventEnds ==
    ASSUME TaskInv, NEW t \in Tasks, TaskEnds(t)
    PROVE  Works(t, NoTask)
BY DEF TaskInv, TaskEnds, Works

LEMMA EventGoes ==
    ASSUME TaskInv, NEW t \in Tasks, NEW p, TaskGoes(t, p)
    PROVE  Works(t, [task[t] EXCEPT !.pc = p])
BY DEF TaskInv, TaskGoes, Works

LEMMA EventNew ==
    ASSUME TaskInv, NEW t \in Tasks, NEW r, task' = [task EXCEPT ![t] = r]
    PROVE  Works(t, r)
BY DEF TaskInv, Works

LEMMA EventDay ==
    ASSUME TaskInv, NEW t \in Tasks, NEW d, NEW p, task' = [task EXCEPT ![t].day = d, ![t].pc = p]
    PROVE  Works(t, [task[t] EXCEPT !.day = d, !.pc = p])
BY DEF TaskInv, TaskOK, TaskFields, Works

LEMMA EventLook ==
    ASSUME TaskInv, NEW t \in Tasks, NEW f, task' = [task EXCEPT ![t].pc = "look", ![t].left = f]
    PROVE  Works(t, [task[t] EXCEPT !.pc = "look", !.left = f])
BY DEF TaskInv, TaskOK, TaskFields, Works

LEMMA IdleTask ==
    DOMAIN NoTask = TaskFields /\ NoTask.pc = "idle"
BY DEF NoTask, TaskFields

\* The fields that a step does not set stay.
SameTask(q, r, fields) == DOMAIN q = TaskFields /\ \A x \in TaskFields \ fields : q[x] = r[x]

LEMMA TaskNamed ==
    ASSUME NEW v, NEW s, NEW e, NEW d
    PROVE  LET q == [NoTask EXCEPT !.pc = "visitor", !.who = v, !.seg = s, !.name = e, !.named = d]
           IN DOMAIN q = TaskFields /\ q.pc = "visitor" /\ q.who = v /\ q.seg = s /\ q.name = e /\ q.named = d
BY DEF NoTask, TaskFields

LEMMA TaskUnnamed ==
    ASSUME NEW v, NEW s, NEW d
    PROVE  LET q == [NoTask EXCEPT !.pc = "visitor", !.who = v, !.seg = s, !.named = d]
           IN DOMAIN q = TaskFields /\ q.pc = "visitor" /\ q.who = v /\ q.seg = s /\ q.name = Other
              /\ q.named = d
BY DEF NoTask, TaskFields

LEMMA TaskGone ==
    ASSUME NEW r, DOMAIN r = TaskFields, NEW p
    PROVE  LET q == [r EXCEPT !.pc = p]
           IN q.pc = p /\ SameTask(q, r, {"pc"})
BY DEF SameTask, TaskFields

LEMMA TaskDated ==
    ASSUME NEW r, DOMAIN r = TaskFields, NEW d, NEW p
    PROVE  LET q == [r EXCEPT !.day = d, !.pc = p]
           IN q.pc = p /\ q.day = d /\ SameTask(q, r, {"pc", "day"})
BY DEF SameTask, TaskFields

LEMMA TaskLeft ==
    ASSUME NEW r, DOMAIN r = TaskFields, NEW p, NEW f
    PROVE  LET q == [r EXCEPT !.pc = p, !.left = f]
           IN q.pc = p /\ q.left = f /\ SameTask(q, r, {"pc", "left"})
BY DEF SameTask, TaskFields

LEMMA TaskDecided ==
    ASSUME NEW r, DOMAIN r = TaskFields, NEW i, NEW k, NEW s
    PROVE  LET q == [r EXCEPT !.pc = "write", !.id = i, !.from = k, !.n = 1, !.first = s]
           IN /\ q.pc = "write" /\ q.id = i /\ q.from = k /\ q.n = 1 /\ q.first = s
              /\ SameTask(q, r, {"pc", "id", "from", "n", "first"})
BY DEF SameTask, TaskFields

LEMMA TaskTurned ==
    ASSUME NEW r, DOMAIN r = TaskFields, NEW k, NEW p
    PROVE  LET q == [r EXCEPT !.n = k, !.pc = p]
           IN q.pc = p /\ q.n = k /\ SameTask(q, r, {"pc", "n"})
BY DEF SameTask, TaskFields

\* The tables of a day only grow.
TablesGrow ==
    /\ \A d \in Dates : names[d] \subseteq names'[d] /\ exact[d] \subseteq exact'[d]
    /\ \A i \in Ids, v \in Visitors : earned[i][v] <= earned'[i][v]
    /\ \A d \in Dates, i \in Ids, n \in Levels : steps[d][i][n] \subseteq steps'[d][i][n]
    /\ \A d \in Dates :
          /\ \A x \in DOMAIN members[d] : x \in DOMAIN members'[d] /\ members[d][x] \subseteq members'[d][x]
          /\ Cardinality(DOMAIN members[d]) >= SegmentLimit => DOMAIN members'[d] = DOMAIN members[d]

LEMMA TablesSame ==
    ASSUME DayInv, UNCHANGED <<names, exact, earned, steps, members>>
    PROVE  TablesGrow
<1>1. \A i \in Ids, v \in Visitors : earned[i][v] \in Nat
  BY DEF DayInv
<1>. QED BY <1>1 DEF TablesGrow

LEMMA TaskStaysOK ==
    ASSUME TablesGrow, NEW r, TaskOK(r)
    PROVE  TaskOK(r)'
<1>1. r.pc # "idle" => r.named \in Dates /\ r.name \in names'[r.named] \cup {Other}
  BY DEF TaskOK, TablesGrow
<1>2. r.pc \notin {"idle", "visitor", "count"} => r.who \in exact'[r.day]
  BY DEF TaskOK, TablesGrow
<1>. QED BY <1>1, <1>2 DEF TaskOK

LEMMA TaskStaysWriting ==
    ASSUME DayInv, DayInv', TablesGrow, NEW r, TaskOK(r), Writes(r)
    PROVE  Writes(r)'
<1>1. ASSUME r.pc \in {"write", "state"} PROVE r.from + 1 <= earned'[r.id][r.who]
  <2>1. r.id \in Ids /\ r.who \in Visitors /\ r.from \in Int /\ r.from + 1 <= earned[r.id][r.who]
    BY <1>1, ListLengths DEF TaskOK, Loop, Writes
  <2>2. earned[r.id][r.who] \in Nat /\ earned'[r.id][r.who] \in Nat
    BY <2>1 DEF DayInv
  <2>3. earned[r.id][r.who] <= earned'[r.id][r.who]
    BY <2>1 DEF TablesGrow
  <2>. QED BY <2>1, <2>2, <2>3
<1>2. ASSUME r.pc = "write" PROVE Behind(r)' /\ (r.n > 1 => Placed(r)')
  <2>1. r.day \in Dates /\ r.id \in Ids /\ r.from \in 0..MaxSteps - 1 /\ r.n \in 1..r.from + 1
    BY <1>2 DEF TaskOK, Loop, Writes
  <2>2. \A k \in 1..r.n - 1 : k \in Levels
    BY <2>1, ListLengths DEF Levels
  <2>3. Behind(r)'
    BY <1>2, <2>1, <2>2 DEF Behind, Writes, TablesGrow
  <2>4. ASSUME r.n > 1 PROVE Placed(r)'
    <3>1. PICK x : x = <<r.id, r.n - 1, r.first>>
      OBVIOUS
    <3>2. IF x \in DOMAIN members[r.day] THEN r.who \in members[r.day][x]
          ELSE Cardinality(DOMAIN members[r.day]) >= SegmentLimit
      BY <1>2, <2>4, <3>1 DEF Writes, Placed
    <3>3. IF x \in DOMAIN members'[r.day] THEN r.who \in members'[r.day][x]
          ELSE Cardinality(DOMAIN members'[r.day]) >= SegmentLimit
      BY <2>1, <3>2 DEF TablesGrow
    <3>. QED BY <3>1, <3>3 DEF Placed
  <2>. QED BY <2>3, <2>4
<1>. QED BY <1>1, <1>2 DEF Writes

\* A step of event t keeps all events well.
LEMMA EventsKept ==
    ASSUME DayInv, DayInv', TaskInv, WriteInv, TablesGrow,
           NEW t \in Tasks, NEW r, Works(t, r), TaskOK(r)', Writes(r)'
    PROVE  TaskInv' /\ WriteInv'
<1>1. ASSUME NEW u \in Tasks PROVE TaskOK(task[u])' /\ Writes(task[u])'
  <2>1. CASE u = t
    BY <2>1 DEF Works, TaskOK, Writes, Behind, Placed
  <2>2. CASE u # t
    <3>1. PICK q : q = task[u]
      OBVIOUS
    <3>2. task'[u] = q
      BY <2>2, <3>1 DEF Works
    <3>3. TaskOK(q)' /\ Writes(q)'
      BY <3>1, TaskStaysOK, TaskStaysWriting DEF TaskInv, WriteInv
    <3>. QED BY <3>2, <3>3 DEF TaskOK, Writes, Behind, Placed
  <2>. QED BY <2>1, <2>2
<1>. QED BY <1>1 DEF TaskInv, WriteInv, Works

LEMMA EventsFollow ==
    ASSUME NEW L, \A u \in Tasks : TaskFollows(task[u], L), CallsRest,
           NEW t \in Tasks, NEW r, Works(t, r), TaskFollows(r, L)
    PROVE  \A u \in Tasks : TaskFollows(task[u], L)'
<1>. SUFFICES ASSUME NEW u \in Tasks PROVE TaskFollows(task[u], L)'
  OBVIOUS
<1>1. CASE u = t
  BY <1>1 DEF Works, TaskFollows, Follows, CallsRest
<1>2. CASE u # t
  <2>1. task'[u] = task[u]
    BY <1>2 DEF Works
  <2>. QED BY <2>1 DEF TaskFollows, Follows, CallsRest
<1>. QED BY <1>1, <1>2

EventsInv == DayInv /\ TaskInv /\ GuardInv /\ StepInv /\ WriteInv /\ MemberInv

LEMMA Caps ==
    /\ NameLimit \in Nat /\ NameLimit >= 1 /\ SegmentLimit \in Nat /\ SegmentLimit >= 1
    /\ VisitorLimit \in Nat /\ VisitorLimit >= 1
    /\ Other \notin Names /\ NoSegment \notin Segments /\ MaxSteps \in Nat
<1>1. {NameLimit, SegmentLimit, VisitorLimit} \subseteq Nat \ {0}
  BY FunnelAssumption DEF FunnelAssumption
<1>. QED BY <1>1, FunnelAssumption, ListLengths DEF FunnelAssumption

\* What a step leaves alone stays well.
LEMMA GuardRest ==
    ASSUME GuardInv, UNCHANGED <<names, exact, events, members, crossed>>
    PROVE  GuardInv'
BY DEF GuardInv, Unguarded

LEMMA StepRest ==
    ASSUME DayInv, DayInv', StepInv, TablesGrow, UNCHANGED <<steps, state>>
    PROVE  StepInv'
<1>1. ASSUME NEW d \in Dates, NEW i \in Ids, NEW n \in Levels
      PROVE  /\ steps[d][i][n] \subseteq exact'[d]
             /\ \A k \in 1..n : steps[d][i][n] \subseteq steps[d][i][k]
             /\ \A v \in steps[d][i][n] : earned'[i][v] >= n
  <2>1. steps[d][i][n] \subseteq exact'[d] /\ \A k \in 1..n : steps[d][i][n] \subseteq steps[d][i][k]
    BY DEF StepInv, TablesGrow
  <2>2. ASSUME NEW v \in steps[d][i][n] PROVE earned'[i][v] >= n
    <3>1. v \in Visitors /\ n \in Int
      BY ListLengths DEF DayInv, Levels
    <3>2. earned[i][v] \in Nat /\ earned'[i][v] \in Nat
      BY <3>1 DEF DayInv
    <3>3. earned[i][v] >= n /\ earned[i][v] <= earned'[i][v]
      BY <3>1 DEF StepInv, TablesGrow
    <3>. QED BY <3>1, <3>2, <3>3
  <2>. QED BY <2>1, <2>2
<1>2. ASSUME NEW i \in Ids, NEW v \in Visitors PROVE state[i][v].reached <= earned'[i][v]
  <2>1. state[i][v].reached \in Int /\ earned[i][v] \in Nat /\ earned'[i][v] \in Nat
    BY ListLengths DEF DayInv
  <2>2. state[i][v].reached <= earned[i][v] /\ earned[i][v] <= earned'[i][v]
    BY DEF StepInv, TablesGrow
  <2>. QED BY <2>1, <2>2
<1>. QED BY <1>1, <1>2 DEF StepInv

LEMMA MemberRest ==
    ASSUME MemberInv, UNCHANGED <<steps, members>>
    PROVE  MemberInv'
BY ZenonT(30) DEF MemberInv

LEMMA FollowRest ==
    ASSUME NEW L, EventLists(L), UNCHANGED <<steps, state>>, CallsRest,
           NEW t \in Tasks, NEW r, Works(t, r), TaskFollows(r, L)
    PROVE  EventLists(L)'
<1>1. \A u \in Tasks : TaskFollows(task[u], L)'
  BY EventsFollow DEF EventLists
<1>. QED BY <1>1 DEF EventLists

\* An event that is named.
LEMMA NameTaken ==
    ASSUME EventsInv, NEW t \in Tasks, NEW v \in Visitors, NEW e \in Names, NEW s \in Segments,
           TakeName(t, v, e, s)
    PROVE  EventsInv' /\ TablesGrow /\ CallsRest /\ \A L : EventLists(L) => EventLists(L)'
<1>. USE Caps DEF EventsInv
<1>1. PICK full \in BOOLEAN : full <=> (e \notin names[date] /\ Cardinality(names[date]) >= NameLimit)
  OBVIOUS
<1>2. PICK name : name = IF full THEN Other ELSE e
  OBVIOUS
<1>3. PICK r : r = [NoTask EXCEPT !.pc = "visitor", !.who = v, !.seg = s, !.name = name, !.named = date]
  OBVIOUS
<1>4. r.pc = "visitor" /\ DOMAIN r = TaskFields /\ r.who = v /\ r.seg = s /\ r.name = name /\ r.named = date
  BY <1>3, TaskNamed
<1>5. Works(t, r)
  BY <1>1, <1>2, <1>3, EventNew DEF TakeName
<1>6. /\ names' = IF full THEN names ELSE [names EXCEPT ![date] = @ \cup {e}]
      /\ UNCHANGED <<date, exact, events, steps, members, state, earned, crossed>>
  BY <1>1 DEF TakeName
<1>7. CallsRest
  BY DEF TakeName, conversionVars, CallsRest
<1>8. date \in Dates /\ names \in [Dates -> SUBSET Names]
  BY DEF DayInv
<1>9. names' \in [Dates -> SUBSET Names] /\ \A d \in Dates : names[d] \subseteq names'[d]
  BY <1>6, <1>8
<1>10. DayInv'
  BY <1>6, <1>9 DEF DayInv
<1>11. TablesGrow
  <2>1. \A i \in Ids, w \in Visitors : earned[i][w] \in Nat
    BY DEF DayInv
  <2>. QED BY <1>6, <1>9, <2>1 DEF TablesGrow
<1>12. TaskOK(r)'
  <2>1. name \in names'[date] \cup {Other}
    BY <1>2, <1>6, <1>8
  <2>. QED BY <1>4, <1>6, <1>8, <2>1 DEF TaskOK, TaskStages, AnySegment, Loop
<1>13. Writes(r)'
  BY <1>4 DEF Writes
<1>14. TaskInv' /\ WriteInv'
  BY <1>5, <1>10, <1>11, <1>12, <1>13, EventsKept
<1>15. GuardInv'
  <2>. SUFFICES ASSUME NEW d \in Dates
                PROVE  /\ IsFiniteSet(names'[d]) /\ Cardinality(names'[d]) <= NameLimit
                       /\ IsFiniteSet(Unguarded(d)') /\ Cardinality(Unguarded(d)') <= crossed
    BY <1>6 DEF GuardInv
  <2>1. IsFiniteSet(names[d]) /\ Cardinality(names[d]) <= NameLimit
    BY DEF GuardInv
  <2>2. IsFiniteSet(names'[d]) /\ Cardinality(names'[d]) <= NameLimit
    <3>1. names'[d] = names[d] \/ (names'[d] = names[d] \cup {e} /\ Cardinality(names[d]) < NameLimit)
      <4>1. CASE full \/ d # date
        BY <1>6, <1>8, <4>1
      <4>2. CASE ~full /\ d = date
        <5>1. names'[d] = names[d] \cup {e}
          BY <1>6, <1>8, <4>2
        <5>2. CASE e \in names[d]
          BY <5>1, <5>2
        <5>3. CASE e \notin names[d]
          <6>1. ~(Cardinality(names[d]) >= NameLimit) /\ Cardinality(names[d]) \in Nat
            BY <1>1, <2>1, <4>2, <5>3, FS_CardinalityType
          <6>. QED BY <5>1, <6>1
        <5>. QED BY <5>2, <5>3
      <4>. QED BY <4>1, <4>2
    <3>2. IsFiniteSet(names[d] \cup {e}) /\ Cardinality(names[d] \cup {e}) <= Cardinality(names[d]) + 1
          /\ Cardinality(names[d]) \in Nat /\ Cardinality(names[d] \cup {e}) \in Nat
      BY <2>1, AddedSize
    <3>3. Cardinality(names[d]) < NameLimit => Cardinality(names[d] \cup {e}) <= NameLimit
      BY <3>2
    <3>. QED BY <2>1, <3>1, <3>2, <3>3
  <2>3. Unguarded(d)' \subseteq Unguarded(d)
    BY <1>6, <1>9 DEF Unguarded
  <2>4. IsFiniteSet(Unguarded(d)) /\ Cardinality(Unguarded(d)) <= crossed /\ crossed \in Nat
    BY DEF GuardInv, DayInv
  <2>. QED BY <2>2, <2>3, <2>4, SubsetSize
<1>16. StepInv'
  BY <1>6, <1>10, <1>11, StepRest
<1>17. MemberInv'
  BY <1>6, MemberRest
<1>18. ASSUME NEW L, EventLists(L) PROVE EventLists(L)'
  <2>1. TaskFollows(r, L)
    BY <1>4 DEF TaskFollows, Loop
  <2>. QED BY <1>5, <1>6, <1>7, <1>18, <2>1, FollowRest
<1>. QED BY <1>7, <1>10, <1>11, <1>14, <1>15, <1>16, <1>17, <1>18

\* A step that touches no table of the day.
LEMMA TablesRest ==
    ASSUME EventsInv, UNCHANGED <<date, names, exact, events, steps, members, state, earned, crossed>>
    PROVE  DayInv' /\ GuardInv' /\ StepInv' /\ MemberInv' /\ TablesGrow
<1>. USE DEF EventsInv
<1>1. DayInv'
  BY DEF DayInv
<1>2. TablesGrow
  BY TablesSame
<1>. QED BY <1>1, <1>2, GuardRest, StepRest, MemberRest

\* The name is lost.
LEMMA NameLost ==
    ASSUME EventsInv, NEW t \in Tasks, NEW v \in Visitors, NEW e \in Names, NEW s \in Segments,
           NameFails(t, v, e, s)
    PROVE  EventsInv' /\ TablesGrow /\ CallsRest /\ \A L : EventLists(L) => EventLists(L)'
<1>. USE DEF EventsInv
<1>1. PICK r : r = [NoTask EXCEPT !.pc = "visitor", !.who = v, !.seg = s, !.named = date]
  OBVIOUS
<1>2. /\ r.pc = "visitor" /\ DOMAIN r = TaskFields /\ r.who = v /\ r.seg = s /\ r.name = Other
      /\ r.named = date
  BY <1>1, TaskUnnamed
<1>3. Works(t, r)
  BY <1>1, EventNew DEF NameFails
<1>4. UNCHANGED <<date, names, exact, events, steps, members, state, earned, crossed>>
  BY DEF NameFails
<1>5. CallsRest
  BY DEF NameFails, CallsRest
<1>6. DayInv' /\ GuardInv' /\ StepInv' /\ MemberInv' /\ TablesGrow
  BY <1>4, TablesRest
<1>7. TaskOK(r)' /\ Writes(r)'
  BY <1>2 DEF TaskOK, TaskStages, AnySegment, Loop, Writes, DayInv
<1>8. TaskInv' /\ WriteInv'
  BY <1>3, <1>6, <1>7, EventsKept
<1>9. ASSUME NEW L, EventLists(L) PROVE EventLists(L)'
  <2>1. TaskFollows(r, L)
    BY <1>2 DEF TaskFollows, Loop
  <2>. QED BY <1>3, <1>4, <1>5, <1>9, <2>1, FollowRest
<1>. QED BY <1>5, <1>6, <1>8, <1>9

\* An event of a visitor who is followed or not.
LEMMA VisitorTaken ==
    ASSUME EventsInv, NEW t \in Tasks, TakeVisitor(t)
    PROVE  EventsInv' /\ TablesGrow /\ CallsRest /\ \A L : EventLists(L) => EventLists(L)'
<1>. USE Caps DEF EventsInv
<1>1. PICK room \in BOOLEAN : room <=> Room(task[t].who)
  OBVIOUS
<1>2. PICK p : p = IF room THEN "store" ELSE "count"
  OBVIOUS
<1>3. PICK r : r = [task[t] EXCEPT !.day = date, !.pc = p]
  OBVIOUS
<1>4. task[t].pc = "visitor" /\ TaskOK(task[t])
  BY DEF TakeVisitor, TaskInv
<1>5. /\ r.pc = p /\ r.day = date /\ DOMAIN r = TaskFields
      /\ r.who = task[t].who /\ r.seg = task[t].seg /\ r.named = task[t].named /\ r.name = task[t].name
  BY <1>3, <1>4, TaskDated DEF TaskOK, SameTask, TaskFields
<1>6. Works(t, r)
  BY <1>1, <1>2, <1>3, EventDay DEF TakeVisitor
<1>7. /\ exact' = IF room THEN [exact EXCEPT ![date] = @ \cup {r.who}] ELSE exact
      /\ UNCHANGED <<date, names, events, steps, members, state, earned, crossed>>
  BY <1>1, <1>5 DEF TakeVisitor
<1>8. CallsRest
  BY DEF TakeVisitor, conversionVars, CallsRest
<1>9. date \in Dates /\ exact \in [Dates -> SUBSET (Visitors \cup Strangers)] /\ r.who \in Visitors
  BY <1>4, <1>5 DEF DayInv, TaskOK
<1>10. /\ exact' \in [Dates -> SUBSET (Visitors \cup Strangers)]
       /\ \A d \in Dates : exact[d] \subseteq exact'[d]
       /\ p = "store" => r.who \in exact'[date]
  BY <1>2, <1>7, <1>9
<1>11. DayInv'
  BY <1>7, <1>10 DEF DayInv
<1>12. TablesGrow
  <2>1. \A i \in Ids, w \in Visitors : earned[i][w] \in Nat
    BY DEF DayInv
  <2>. QED BY <1>7, <1>10, <2>1 DEF TablesGrow
<1>13. TaskOK(r)'
  <2>1. r.seg \in AnySegment /\ r.named \in Dates /\ r.name \in names'[r.named] \cup {Other}
    BY <1>4, <1>5, <1>7 DEF TaskOK
  <2>2. p \in {"store", "count"}
    BY <1>2
  <2>3. r.pc \notin {"idle", "visitor", "count"} => r.who \in exact'[r.day]
    BY <1>5, <1>10, <2>2
  <2>. QED BY <1>5, <1>9, <2>1, <2>2, <2>3 DEF TaskOK, TaskStages, Loop
<1>14. Writes(r)'
  BY <1>2, <1>5 DEF Writes
<1>15. TaskInv' /\ WriteInv'
  BY <1>6, <1>11, <1>12, <1>13, <1>14, EventsKept
<1>16. GuardInv'
  <2>. SUFFICES ASSUME NEW d \in Dates
                PROVE  /\ IsFiniteSet(exact'[d]) /\ Cardinality(exact'[d]) <= VisitorLimit
                       /\ \A e \in AnyName : events[d][e].who \subseteq exact'[d]
    BY <1>7 DEF GuardInv, Unguarded
  <2>1. IsFiniteSet(exact[d]) /\ Cardinality(exact[d]) <= VisitorLimit
        /\ \A e \in AnyName : events[d][e].who \subseteq exact[d]
    BY DEF GuardInv
  <2>2. exact'[d] = exact[d] \/ (exact'[d] = exact[d] \cup {r.who} /\ Cardinality(exact[d]) < VisitorLimit)
    <3>1. CASE ~room \/ d # date
      BY <1>7, <1>9, <3>1
    <3>2. CASE room /\ d = date
      <4>1. exact'[d] = exact[d] \cup {r.who}
        BY <1>7, <1>9, <3>2
      <4>2. r.who \in exact[d] \/ Cardinality(exact[d]) < VisitorLimit
        BY <1>1, <1>5, <3>2 DEF Room
      <4>. QED BY <4>1, <4>2
    <3>. QED BY <3>1, <3>2
  <2>3. IsFiniteSet(exact[d] \cup {r.who}) /\ Cardinality(exact[d] \cup {r.who}) <= Cardinality(exact[d]) + 1
        /\ Cardinality(exact[d]) \in Nat /\ Cardinality(exact[d] \cup {r.who}) \in Nat
    BY <2>1, AddedSize
  <2>4. Cardinality(exact[d]) < VisitorLimit => Cardinality(exact[d] \cup {r.who}) <= VisitorLimit
    BY <2>3
  <2>. QED BY <1>10, <2>1, <2>2, <2>3, <2>4
<1>17. StepInv'
  BY <1>7, <1>11, <1>12, StepRest
<1>18. MemberInv'
  BY <1>7, MemberRest
<1>19. ASSUME NEW L, EventLists(L) PROVE EventLists(L)'
  <2>1. TaskFollows(r, L)
    BY <1>2, <1>5 DEF TaskFollows, Loop
  <2>. QED BY <1>6, <1>7, <1>8, <1>19, <2>1, FollowRest
<1>. QED BY <1>8, <1>11, <1>12, <1>15, <1>16, <1>17, <1>18, <1>19

\* An event ends or waits for its next command.
LEMMA EventTurns ==
    ASSUME EventsInv, UNCHANGED <<date, names, exact, events, steps, members, state, earned, crossed>>,
           NEW t \in Tasks, NEW r, Works(t, r), TaskOK(r), Writes(r), CallsRest
    PROVE  EventsInv' /\ TablesGrow
<1>1. DayInv' /\ GuardInv' /\ StepInv' /\ MemberInv' /\ TablesGrow
  BY TablesRest
<1>2. TaskOK(r)' /\ Writes(r)'
  BY <1>1, TaskStaysOK, TaskStaysWriting DEF EventsInv
<1>3. TaskInv' /\ WriteInv'
  BY <1>1, <1>2, EventsKept DEF EventsInv
<1>. QED BY <1>1, <1>3 DEF EventsInv

LEMMA IdleFine ==
    TaskOK(NoTask) /\ Writes(NoTask) /\ \A L : TaskFollows(NoTask, L)
BY IdleTask DEF TaskOK, TaskStages, Loop, Writes, TaskFollows

\* An event is counted: under a name the guard of its day has, or across midnight.
LEMMA EventStored ==
    ASSUME EventsInv, NEW t \in Tasks, Store(t)
    PROVE  EventsInv' /\ TablesGrow /\ CallsRest /\ \A L : EventLists(L) => EventLists(L)'
<1>. USE Caps DEF EventsInv
<1>1. PICK e : e = task[t]
  OBVIOUS
<1>2. e.pc \in {"store", "count"} /\ TaskOK(e)
  BY <1>1 DEF Store, TaskInv
<1>3. PICK r : r = IF e.pc = "store" THEN [e EXCEPT !.pc = "defs"] ELSE NoTask
  OBVIOUS
<1>4. Works(t, r)
  BY <1>1, <1>3, EventEnds, EventGoes DEF Store
<1>5. /\ events' = [events EXCEPT ![e.day][e.name] =
                       [count |-> @.count + 1, who |-> IF e.pc = "store" THEN @.who \cup {e.who} ELSE @.who]]
      /\ crossed' = IF e.named # e.day THEN crossed + 1 ELSE crossed
      /\ UNCHANGED <<date, names, exact, steps, members, state, earned>>
  BY <1>1 DEF Store
<1>6. CallsRest
  BY DEF Store, conversionVars, CallsRest
<1>7. /\ e.day \in Dates /\ e.named \in Dates /\ e.who \in Visitors /\ e.name \in names[e.named] \cup {Other}
      /\ e.pc = "store" => e.who \in exact[e.day]
  BY <1>2 DEF TaskOK
<1>8. e.name \in AnyName /\ crossed \in Nat
      /\ events \in [Dates -> [AnyName -> [count : Nat, who : SUBSET Visitors]]]
  BY <1>7 DEF DayInv, AnyName
<1>9. PICK x : x = [count |-> events[e.day][e.name].count + 1,
                    who |-> IF e.pc = "store" THEN events[e.day][e.name].who \cup {e.who}
                            ELSE events[e.day][e.name].who]
  OBVIOUS
<1>10. x \in [count : Nat, who : SUBSET Visitors]
  BY <1>7, <1>8, <1>9
<1>11. events' = [events EXCEPT ![e.day][e.name] = x]
  BY <1>5, <1>9
<1>12. events' \in [Dates -> [AnyName -> [count : Nat, who : SUBSET Visitors]]]
  BY <1>7, <1>8, <1>10, <1>11
<1>13. \A d \in Dates, n \in AnyName :
          events'[d][n] = IF d = e.day /\ n = e.name THEN x ELSE events[d][n]
  BY <1>7, <1>8, <1>11
<1>14. DayInv'
  <2>1. crossed' \in Nat
    BY <1>5, <1>8
  <2>. QED BY <1>5, <1>12, <2>1 DEF DayInv
<1>15. TablesGrow
  BY <1>5, TablesSame
<1>16. TaskOK(r)' /\ Writes(r)'
  <2>1. CASE e.pc = "store"
    <3>1. r.pc = "defs" /\ DOMAIN r = TaskFields /\ \A f \in TaskFields \ {"pc"} : r[f] = e[f]
      BY <1>2, <1>3, <2>1, TaskGone DEF TaskOK, SameTask
    <3>2. r.day = e.day /\ r.who = e.who /\ r.seg = e.seg /\ r.named = e.named /\ r.name = e.name
      BY <3>1 DEF TaskFields
    <3>3. TaskOK(r)'
      <4>1. r.seg \in AnySegment
        BY <1>2, <3>2 DEF TaskOK
      <4>. QED BY <1>5, <1>7, <2>1, <3>1, <3>2, <4>1 DEF TaskOK, TaskStages, Loop
    <3>4. Writes(r)'
      BY <3>1 DEF Writes
    <3>. QED BY <3>3, <3>4
  <2>2. CASE e.pc = "count"
    BY <1>3, <2>2, IdleTask DEF TaskOK, TaskStages, Loop, Writes
  <2>. QED BY <1>2, <2>1, <2>2
<1>17. TaskInv' /\ WriteInv'
  BY <1>4, <1>14, <1>15, <1>16, EventsKept
<1>18. GuardInv'
  <2>. SUFFICES ASSUME NEW d \in Dates
                PROVE  /\ \A n \in AnyName : events'[d][n].who \subseteq exact[d]
                       /\ IsFiniteSet(Unguarded(d)') /\ Cardinality(Unguarded(d)') <= crossed'
    BY <1>5 DEF GuardInv
  <2>1. \A n \in AnyName : events'[d][n].who \subseteq exact[d]
    <3>1. \A n \in AnyName : events[d][n].who \subseteq exact[d]
      BY DEF GuardInv
    <3>2. d = e.day => x.who \subseteq exact[d]
      BY <1>7, <1>8, <1>9, <3>1
    <3>. QED BY <1>13, <3>1, <3>2
  <2>2. IsFiniteSet(Unguarded(d)) /\ Cardinality(Unguarded(d)) <= crossed
    BY DEF GuardInv
  <2>3. \A n \in Names : n \in AnyName
    BY DEF AnyName
  <2>4. Unguarded(d)' \subseteq Unguarded(d) \cup {e.name}
    BY <1>5, <1>13, <2>3 DEF Unguarded
  <2>5. e.named = e.day => Unguarded(d)' \subseteq Unguarded(d)
    <3>1. e.named = e.day /\ d = e.day => e.name \in names[d] \/ e.name \notin Names
      BY <1>7
    <3>. QED BY <1>5, <1>13, <2>3, <3>1 DEF Unguarded
  <2>6. IsFiniteSet(Unguarded(d) \cup {e.name}) /\ Cardinality(Unguarded(d)) \in Nat
        /\ Cardinality(Unguarded(d) \cup {e.name}) \in Nat
        /\ Cardinality(Unguarded(d) \cup {e.name}) <= Cardinality(Unguarded(d)) + 1
    BY <2>2, AddedSize
  <2>7. IsFiniteSet(Unguarded(d)') /\ Cardinality(Unguarded(d)') \in Nat
        /\ Cardinality(Unguarded(d)') <= Cardinality(Unguarded(d) \cup {e.name})
    BY <2>4, <2>6, SubsetSize
  <2>8. e.named = e.day => Cardinality(Unguarded(d)') <= Cardinality(Unguarded(d))
    BY <2>2, <2>5, SubsetSize
  <2>9. Cardinality(Unguarded(d)') <= crossed'
    <3>1. CASE e.named = e.day
      BY <1>5, <1>8, <2>2, <2>6, <2>7, <2>8, <3>1
    <3>2. CASE e.named # e.day
      BY <1>5, <1>8, <2>2, <2>6, <2>7, <3>2
    <3>. QED BY <3>1, <3>2
  <2>. QED BY <2>1, <2>7, <2>9
<1>19. StepInv' /\ MemberInv'
  BY <1>5, <1>14, <1>15, StepRest, MemberRest
<1>20. ASSUME NEW L, EventLists(L) PROVE EventLists(L)'
  <2>1. TaskFollows(r, L)
    <3>1. CASE e.pc = "store"
      BY <1>3, <3>1, <1>2, TaskGone DEF TaskOK, TaskFollows, Loop
    <3>2. CASE e.pc = "count"
      BY <1>3, <3>2, IdleFine
    <3>. QED BY <1>2, <3>1, <3>2
  <2>. QED BY <1>4, <1>5, <1>6, <1>20, <2>1, FollowRest
<1>. QED BY <1>6, <1>14, <1>15, <1>17, <1>18, <1>19, <1>20

\* An event copies the definitions, or has nothing to do.
LEMMA DefinitionsRead ==
    ASSUME EventsInv, NEW t \in Tasks, ReadDefinitions(t)
    PROVE  /\ EventsInv' /\ TablesGrow /\ CallsRest
           /\ \A L : CallLists(L) /\ EventLists(L) => EventLists(L)'
<1>. USE DEF EventsInv
<1>1. PICK e : e = task[t]
  OBVIOUS
<1>2. e.pc = "defs" /\ TaskOK(e)
  BY <1>1 DEF ReadDefinitions, TaskInv
<1>3. UNCHANGED <<date, names, exact, events, steps, members, state, earned, crossed>>
  BY DEF ReadDefinitions
<1>4. CallsRest
  BY DEF ReadDefinitions, conversionVars, CallsRest
<1>5. CASE TaskEnds(t)
  <2>1. Works(t, NoTask)
    BY <1>5, EventEnds
  <2>2. EventsInv' /\ TablesGrow
    BY <1>3, <1>4, <2>1, EventTurns, IdleFine
  <2>3. ASSUME NEW L, EventLists(L) PROVE EventLists(L)'
    BY <1>3, <1>4, <2>1, <2>3, IdleFine, FollowRest
  <2>. QED BY <1>4, <2>2, <2>3
<1>6. CASE task' = [task EXCEPT ![t].pc = "look", ![t].left = defs]
  <2>1. PICK r : r = [e EXCEPT !.pc = "look", !.left = defs]
    OBVIOUS
  <2>2. Works(t, r)
    BY <1>1, <1>6, <2>1, EventLook
  <2>3. r.pc = "look" /\ r.left = defs /\ SameTask(r, e, {"pc", "left"})
    <3>1. DOMAIN e = TaskFields
      BY <1>2 DEF TaskOK
    <3>. QED BY <2>1, <3>1 DEF SameTask, TaskFields
  <2>4. /\ DOMAIN r = TaskFields
        /\ r.day = e.day /\ r.who = e.who /\ r.seg = e.seg /\ r.named = e.named /\ r.name = e.name
    BY <2>3 DEF SameTask, TaskFields
  <2>5. TaskOK(r) /\ Writes(r)
    BY <1>2, <2>3, <2>4 DEF TaskOK, TaskStages, Loop, Writes
  <2>6. EventsInv' /\ TablesGrow
    BY <1>3, <1>4, <2>2, <2>5, EventTurns
  <2>7. ASSUME NEW L, CallLists(L), EventLists(L) PROVE EventLists(L)'
    <3>1. TaskFollows(r, L)
      BY <2>3, <2>7 DEF TaskFollows, Loop, CallLists
    <3>. QED BY <1>3, <1>4, <2>2, <2>7, <3>1, FollowRest
  <2>. QED BY <1>4, <2>6, <2>7
<1>. QED BY <1>5, <1>6 DEF ReadDefinitions

\* An event that fails ends, or goes the short way.
LEMMA EventFailed ==
    ASSUME EventsInv, NEW t \in Tasks, TaskFails(t)
    PROVE  EventsInv' /\ TablesGrow /\ CallsRest /\ \A L : EventLists(L) => EventLists(L)'
<1>. USE DEF EventsInv
<1>1. PICK e : e = task[t]
  OBVIOUS
<1>2. TaskOK(e)
  BY <1>1 DEF TaskInv
<1>3. UNCHANGED <<date, names, exact, events, steps, members, state, earned, crossed>>
  BY DEF TaskFails
<1>4. CallsRest
  BY DEF TaskFails, CallsRest
<1>5. \E r : Works(t, r) /\ TaskOK(r) /\ Writes(r) /\ \A L : TaskFollows(r, L)
  <2>1. CASE TaskEnds(t)
    BY <2>1, EventEnds, IdleFine
  <2>2. CASE e.pc = "visitor" /\ task' = [task EXCEPT ![t].day = date, ![t].pc = "count"]
    <3>1. PICK r : r = [e EXCEPT !.day = date, !.pc = "count"]
      OBVIOUS
    <3>2. r.pc = "count" /\ r.day = date /\ SameTask(r, e, {"pc", "day"})
      <4>1. DOMAIN e = TaskFields
        BY <1>2 DEF TaskOK
      <4>. QED BY <3>1, <4>1 DEF SameTask, TaskFields
    <3>3. /\ DOMAIN r = TaskFields
          /\ r.who = e.who /\ r.seg = e.seg /\ r.named = e.named /\ r.name = e.name
      BY <3>2 DEF SameTask, TaskFields
    <3>4. TaskOK(r) /\ Writes(r) /\ \A L : TaskFollows(r, L)
      BY <1>2, <2>2, <3>2, <3>3 DEF TaskOK, TaskStages, Loop, Writes, TaskFollows, DayInv
    <3>5. Works(t, r)
      BY <1>1, <2>2, <3>1, EventDay
    <3>. QED BY <3>4, <3>5
  <2>. QED BY <1>1, <2>1, <2>2 DEF TaskFails
<1>6. PICK r : Works(t, r) /\ TaskOK(r) /\ Writes(r) /\ \A L : TaskFollows(r, L)
  BY <1>5
<1>7. EventsInv' /\ TablesGrow
  BY <1>3, <1>4, <1>6, EventTurns
<1>8. ASSUME NEW L, EventLists(L) PROVE EventLists(L)'
  BY <1>3, <1>4, <1>6, <1>8, FollowRest
<1>. QED BY <1>4, <1>7, <1>8

\* The next funnel, or the end.
LEMMA NextFunnel ==
    ASSUME TaskInv, NEW t \in Tasks, task[t].pc \in {"look", "segments"}, NEW i, Done(t, i)
    PROVE  \E r : /\ Works(t, r) /\ TaskOK(r) /\ Writes(r)
                  /\ \A L : TaskFollows(task[t], L) => TaskFollows(r, L)
<1>1. PICK e : e = task[t]
  OBVIOUS
<1>2. e.pc \in {"look", "segments"} /\ TaskOK(e)
  BY <1>1 DEF TaskInv
<1>3. CASE TaskEnds(t)
  <2>1. Works(t, NoTask)
    BY <1>3, EventEnds
  <2>. QED BY <2>1, IdleFine
<1>4. CASE task' = [task EXCEPT ![t] = [task[t] EXCEPT !.pc = "look", !.left = Without(@, i)]]
  <2>0. DOMAIN e = TaskFields
    BY <1>2 DEF TaskOK
  <2>1. PICK r : r = [e EXCEPT !.pc = "look", !.left = Without(e.left, i)]
    OBVIOUS
  <2>2. Works(t, r)
    <3>1. task' = [task EXCEPT ![t] = r]
      BY <1>1, <1>4, <2>1
    <3>. QED BY <3>1, EventNew
  <2>3. /\ r.pc = "look" /\ r.left = Without(e.left, i) /\ DOMAIN r = TaskFields
        /\ r.day = e.day /\ r.who = e.who /\ r.seg = e.seg /\ r.named = e.named /\ r.name = e.name
    BY <2>0, <2>1 DEF TaskFields
  <2>4. TaskOK(r) /\ Writes(r)
    BY <1>2, <2>3 DEF TaskOK, TaskStages, Loop, Writes
  <2>5. ASSUME NEW L, TaskFollows(e, L) PROVE TaskFollows(r, L)
    BY <1>2, <2>3, <2>5, FollowsWithout DEF TaskFollows, Loop
  <2>. QED BY <1>1, <2>2, <2>4, <2>5
<1>. QED BY <1>3, <1>4 DEF Done

\* A funnel that is decided on has its next step earned.
LEMMA FunnelDecided ==
    ASSUME EventsInv, NEW L \in [Ids -> StepLists \cup {<<>>}], EventLists(L),
           NEW t \in Tasks, NEW i \in Ids, NEW s, task[t].pc = "look", i \in DOMAIN task[t].left,
           s.reached \in Nat, s.seg \in AnySegment, s.reached <= earned[i][task[t].who],
           Decide(t, i, s), Earn(t, i),
           UNCHANGED <<date, names, exact, events, steps, members, state, crossed>>, CallsRest
    PROVE  EventsInv' /\ TablesGrow /\ EventLists(L)'
<1>. USE DEF EventsInv
<1>1. PICK e : e = task[t]
  OBVIOUS
<1>2. e.pc = "look" /\ i \in DOMAIN e.left /\ TaskOK(e) /\ DOMAIN e = TaskFields /\ TaskFollows(e, L)
  BY <1>1 DEF TaskInv, TaskOK, EventLists
<1>3. PICK v \in Visitors : v = e.who
  BY <1>2 DEF TaskOK
<1>4. PICK list : list = e.left[i]
  OBVIOUS
<1>5. list = L[i] /\ list \in StepLists
  BY <1>2, <1>4 DEF TaskFollows, Follows
<1>6. /\ list \in Seq(Names) /\ Len(list) \in Nat /\ Len(list) >= 2 /\ Len(list) <= MaxSteps
      /\ MaxSteps \in Nat /\ DOMAIN list = 1..Len(list)
  BY <1>5, ListLengths
<1>7. earned \in [Ids -> [Visitors -> Nat]] /\ earned[i][v] \in Nat
  BY DEF DayInv
<1>8. earned' = IF earned[i][v] + 1 \in DOMAIN list /\ e.name = list[earned[i][v] + 1]
                THEN [earned EXCEPT ![i][v] = earned[i][v] + 1] ELSE earned
  BY <1>1, <1>3, <1>4 DEF Earn
<1>9. /\ earned' \in [Ids -> [Visitors -> Nat]]
      /\ \A j \in Ids, w \in Visitors : earned[j][w] <= earned'[j][w]
  BY <1>7, <1>8
<1>10. DayInv'
  BY <1>9 DEF DayInv
<1>11. TablesGrow
  BY <1>9 DEF TablesGrow
<1>12. GuardInv' /\ StepInv' /\ MemberInv'
  BY <1>10, <1>11, GuardRest, StepRest, MemberRest
<1>13. \E r : Works(t, r) /\ TaskOK(r)' /\ Writes(r)' /\ TaskFollows(r, L)
  <2>1. CASE Done(t, i)
    <3>1. PICK r : Works(t, r) /\ TaskOK(r) /\ Writes(r) /\ (TaskFollows(e, L) => TaskFollows(r, L))
      BY <1>1, <2>1, NextFunnel
    <3>. QED BY <1>2, <1>10, <1>11, <3>1, TaskStaysOK, TaskStaysWriting
  <2>2. CASE ~Done(t, i)
    <3>1. PICK from : from = IF Advances(list, s.reached, e.name) THEN s.reached ELSE 0
      OBVIOUS
    <3>2. PICK first : first = IF from = 0 \/ s.seg = NoSegment THEN e.seg ELSE s.seg
      OBVIOUS
    <3>3. /\ Advances(list, s.reached, e.name) \/ Restarts(list, s.reached, e.name)
          /\ task' = [task EXCEPT ![t] = [@ EXCEPT !.pc = "write", !.id = i, !.from = from, !.n = 1,
                                                   !.first = first]]
      BY <1>1, <1>4, <2>2, <3>1, <3>2 DEF Decide
    <3>4. PICK r : r = [e EXCEPT !.pc = "write", !.id = i, !.from = from, !.n = 1, !.first = first]
      OBVIOUS
    <3>5. Works(t, r)
      <4>1. task' = [task EXCEPT ![t] = r]
        BY <1>1, <1>2, <3>3, <3>4 DEF TaskInv, TaskFields
      <4>. QED BY <4>1, EventNew
    <3>6. /\ r.pc = "write" /\ r.id = i /\ r.from = from /\ r.n = 1 /\ r.first = first /\ DOMAIN r = TaskFields
          /\ r.day = e.day /\ r.who = v /\ r.seg = e.seg /\ r.named = e.named /\ r.name = e.name
          /\ r.left = e.left
      BY <1>2, <1>3, <3>4 DEF TaskFields
    <3>7. from \in Nat /\ from + 1 <= Len(list) /\ from + 1 <= earned'[i][v]
      <4>1. CASE Advances(list, s.reached, e.name)
        <5>1. from = s.reached /\ s.reached < Len(list) /\ e.name = list[s.reached + 1]
          BY <3>1, <4>1 DEF Advances
        <5>2. CASE earned[i][v] = s.reached
          <6>1. earned[i][v] + 1 \in DOMAIN list
            BY <1>6, <5>1, <5>2
          <6>2. earned'[i][v] = s.reached + 1
            BY <1>7, <1>8, <5>1, <5>2, <6>1
          <6>. QED BY <1>6, <5>1, <6>2
        <5>3. CASE earned[i][v] # s.reached
          <6>1. earned[i][v] >= s.reached + 1
            BY <1>1, <1>3, <1>7, <5>3
          <6>2. earned'[i][v] \in Nat /\ earned[i][v] <= earned'[i][v]
            BY <1>9
          <6>. QED BY <1>6, <1>7, <5>1, <6>1, <6>2
        <5>. QED BY <5>2, <5>3
      <4>2. CASE ~Advances(list, s.reached, e.name)
        <5>1. s.reached \in 1..Len(list) - 1 /\ from = 0
          BY <3>1, <3>3, <4>2 DEF Restarts
        <5>2. earned[i][v] >= 1
          BY <1>1, <1>3, <1>6, <1>7, <5>1
        <5>3. earned'[i][v] \in Nat /\ earned[i][v] <= earned'[i][v]
          BY <1>9
        <5>. QED BY <1>6, <1>7, <5>1, <5>2, <5>3
      <4>. QED BY <4>1, <4>2
    <3>8. from \in 0..MaxSteps - 1 /\ first \in AnySegment
      <4>1. e.seg \in AnySegment
        BY <1>2 DEF TaskOK
      <4>. QED BY <1>6, <3>2, <3>7, <4>1
    <3>9. TaskOK(r)'
      <4>1. /\ r.who \in Visitors /\ r.seg \in AnySegment /\ r.named \in Dates
            /\ r.name \in names'[r.named] \cup {Other}
            /\ r.day \in Dates /\ r.who \in exact'[r.day]
        BY <1>2, <1>3, <3>6 DEF TaskOK
      <4>. QED BY <1>2, <3>6, <3>8, <4>1 DEF TaskOK, TaskStages
    <3>10. Writes(r)'
      <4>1. r.n \in 1..r.from + 1
        BY <3>6, <3>7
      <4>2. \A k \in 1..r.n - 1 : FALSE
        BY <3>6
      <4>. QED BY <3>6, <3>7, <4>1, <4>2 DEF Writes, Behind
    <3>11. TaskFollows(r, L)
      BY <1>2, <1>5, <3>6, <3>7 DEF TaskFollows, Loop
    <3>. QED BY <3>5, <3>9, <3>10, <3>11
  <2>. QED BY <2>1, <2>2
<1>14. PICK r : Works(t, r) /\ TaskOK(r)' /\ Writes(r)' /\ TaskFollows(r, L)
  BY <1>13
<1>15. TaskInv' /\ WriteInv'
  BY <1>10, <1>11, <1>14, EventsKept
<1>16. EventLists(L)'
  BY <1>14, FollowRest
<1>. QED BY <1>10, <1>11, <1>12, <1>15, <1>16

LEMMA FunnelLooked ==
    ASSUME EventsInv, NEW L \in [Ids -> StepLists \cup {<<>>}], EventLists(L),
           NEW t \in Tasks, NEW i \in Ids, Look(t, i) \/ LookFails(t, i)
    PROVE  EventsInv' /\ TablesGrow /\ CallsRest /\ EventLists(L)'
<1>. USE DEF EventsInv
<1>1. /\ task[t].pc = "look" /\ i \in DOMAIN task[t].left /\ Earn(t, i)
      /\ UNCHANGED <<date, names, exact, events, steps, members, state, crossed>>
  BY DEF Look, LookFails
<1>2. CallsRest
  BY DEF Look, LookFails, conversionVars, CallsRest
<1>3. task[t].who \in Visitors
  BY <1>1 DEF TaskInv, TaskOK
<1>4. earned[i][task[t].who] \in Nat
  BY <1>3 DEF DayInv
<1>5. CASE Decide(t, i, state[i][task[t].who])
  <2>1. PICK s : s = state[i][task[t].who]
    OBVIOUS
  <2>2. s.reached \in Nat /\ s.seg \in AnySegment /\ s.reached <= earned[i][task[t].who]
    BY <1>3, <2>1, ListLengths DEF DayInv, StepInv
  <2>3. Decide(t, i, s)
    BY <1>5, <2>1
  <2>. QED BY <1>1, <1>2, <2>2, <2>3, FunnelDecided
<1>6. CASE Decide(t, i, NoState)
  <2>1. NoState.reached \in Nat /\ NoState.seg \in AnySegment /\ NoState.reached <= earned[i][task[t].who]
    BY <1>4 DEF NoState, AnySegment
  <2>. QED BY <1>1, <1>2, <1>6, <2>1, FunnelDecided
<1>. QED BY <1>2, <1>5, <1>6 DEF Look, LookFails

\* The state of a visitor is written or expires.
LEMMA StateKept ==
    ASSUME EventsInv, UNCHANGED <<names, exact, events, steps, members, earned, crossed>>,
           date' \in Dates,
           state' \in [Ids -> [Visitors -> [reached : 0..MaxSteps, seg : AnySegment, day : Dates]]],
           \A i \in Ids, v \in Visitors : state'[i][v].reached <= earned[i][v]
    PROVE  DayInv' /\ GuardInv' /\ StepInv' /\ MemberInv' /\ TablesGrow
<1>. USE DEF EventsInv
<1>1. DayInv'
  BY DEF DayInv
<1>2. TablesGrow
  BY TablesSame
<1>3. StepInv'
  BY DEF StepInv
<1>. QED BY <1>1, <1>2, <1>3, GuardRest, MemberRest

LEMMA StateSet ==
    ASSUME EventsInv, NEW t \in Tasks, SetState(t)
    PROVE  /\ EventsInv' /\ TablesGrow /\ CallsRest
           /\ \A L \in [Ids -> StepLists \cup {<<>>}] : EventLists(L) => EventLists(L)'
<1>. USE Caps DEF EventsInv
<1>1. PICK e : e = task[t]
  OBVIOUS
<1>2. e.pc = "state" /\ TaskOK(e) /\ Writes(e)
  BY <1>1 DEF SetState, TaskInv, WriteInv
<1>3. DOMAIN e = TaskFields /\ e.id \in Ids /\ e.who \in Visitors /\ e.from \in 0..MaxSteps - 1
      /\ e.from + 1 <= earned[e.id][e.who] /\ e.day \in Dates /\ e.who \in exact[e.day]
  BY <1>2 DEF TaskOK, Loop, Writes
<1>4. PICK r : r = [e EXCEPT !.pc = "segments"]
  OBVIOUS
<1>5. /\ r.pc = "segments" /\ DOMAIN r = TaskFields
      /\ r.day = e.day /\ r.who = e.who /\ r.seg = e.seg /\ r.named = e.named /\ r.name = e.name
      /\ r.left = e.left /\ r.id = e.id /\ r.from = e.from /\ r.first = e.first
  BY <1>3, <1>4 DEF TaskFields
<1>6. Works(t, r)
  BY <1>1, <1>4, EventGoes DEF SetState
<1>7. UNCHANGED <<date, names, exact, events, steps, members, earned, crossed>>
  BY DEF SetState
<1>8. CallsRest
  BY DEF SetState, conversionVars, CallsRest
<1>9. date \in Dates
      /\ state \in [Ids -> [Visitors -> [reached : 0..MaxSteps, seg : AnySegment, day : Dates]]]
  BY DEF DayInv
<1>10. PICK s : s = [state[e.id][e.who] EXCEPT !.reached = e.from + 1, !.day = date]
  OBVIOUS
<1>11. state' = [state EXCEPT ![e.id][e.who] = s]
  BY <1>1, <1>10 DEF SetState
<1>12. s \in [reached : 0..MaxSteps, seg : AnySegment, day : Dates] /\ s.reached = e.from + 1
  <2>1. state[e.id][e.who] \in [reached : 0..MaxSteps, seg : AnySegment, day : Dates]
    BY <1>3, <1>9
  <2>2. e.from + 1 \in 0..MaxSteps
    BY <1>3
  <2>. QED BY <1>9, <1>10, <2>1, <2>2
<1>13. /\ state' \in [Ids -> [Visitors -> [reached : 0..MaxSteps, seg : AnySegment, day : Dates]]]
       /\ \A i \in Ids, v \in Visitors : state'[i][v] = IF i = e.id /\ v = e.who THEN s ELSE state[i][v]
  BY <1>3, <1>9, <1>11, <1>12
<1>14. \A i \in Ids, v \in Visitors : state'[i][v].reached <= earned[i][v]
  BY <1>3, <1>12, <1>13 DEF StepInv
<1>15. DayInv' /\ GuardInv' /\ StepInv' /\ MemberInv' /\ TablesGrow
  BY <1>7, <1>9, <1>13, <1>14, StateKept
<1>16. TaskOK(r)'
  <2>1. TaskOK(r)
    BY <1>2, <1>5 DEF TaskOK, TaskStages, Loop
  <2>. QED BY <1>15, <2>1, TaskStaysOK
<1>17. Writes(r)'
  BY <1>5 DEF Writes
<1>18. TaskInv' /\ WriteInv'
  BY <1>6, <1>15, <1>16, <1>17, EventsKept
<1>19. ASSUME NEW L \in [Ids -> StepLists \cup {<<>>}], EventLists(L) PROVE EventLists(L)'
  <2>1. TaskFollows(e, L)
    BY <1>1, <1>19 DEF EventLists
  <2>2. TaskFollows(r, L)
    BY <1>2, <1>5, <2>1 DEF TaskFollows, Loop
  <2>3. \A u \in Tasks : TaskFollows(task[u], L)'
    BY <1>6, <1>8, <1>19, <2>2, EventsFollow DEF EventLists
  <2>4. \A i \in Ids, v \in Visitors : state'[i][v].reached <= Len(L[i])
    <3>1. e.from + 1 <= Len(L[e.id])
      BY <1>2, <2>1 DEF TaskFollows
    <3>2. \A i \in Ids, v \in Visitors : state[i][v].reached <= Len(L[i])
      BY <1>19 DEF EventLists
    <3>. QED
      <4>. SUFFICES ASSUME NEW i \in Ids, NEW v \in Visitors PROVE state'[i][v].reached <= Len(L[i])
        OBVIOUS
      <4>1. CASE i = e.id /\ v = e.who
        BY <1>12, <1>13, <3>1, <4>1
      <4>2. CASE ~(i = e.id /\ v = e.who)
        BY <1>13, <3>2, <4>2
      <4>. QED BY <4>1, <4>2
  <2>. QED BY <1>7, <1>19, <2>3, <2>4 DEF EventLists
<1>. QED BY <1>8, <1>15, <1>18, <1>19

LEMMA SegmentsSet ==
    ASSUME EventsInv, NEW t \in Tasks, SetSegments(t)
    PROVE  /\ EventsInv' /\ TablesGrow /\ CallsRest
           /\ \A L \in [Ids -> StepLists \cup {<<>>}] : EventLists(L) => EventLists(L)'
<1>. USE Caps DEF EventsInv
<1>1. PICK e : e = task[t]
  OBVIOUS
<1>2. e.pc = "segments" /\ TaskOK(e)
  BY <1>1 DEF SetSegments, TaskInv
<1>3. e.id \in Ids /\ e.who \in Visitors /\ e.first \in AnySegment
  BY <1>2 DEF TaskOK, Loop
<1>4. PICK r : /\ Works(t, r) /\ TaskOK(r) /\ Writes(r)
               /\ \A L : TaskFollows(e, L) => TaskFollows(r, L)
  BY <1>1, <1>2, NextFunnel DEF SetSegments
<1>5. UNCHANGED <<date, names, exact, events, steps, members, earned, crossed>>
  BY DEF SetSegments
<1>6. CallsRest
  BY DEF SetSegments, conversionVars, CallsRest
<1>7. date \in Dates
      /\ state \in [Ids -> [Visitors -> [reached : 0..MaxSteps, seg : AnySegment, day : Dates]]]
  BY DEF DayInv
<1>8. state' = [state EXCEPT ![e.id][e.who].seg = e.first]
  BY <1>1 DEF SetSegments
<1>9. /\ state' \in [Ids -> [Visitors -> [reached : 0..MaxSteps, seg : AnySegment, day : Dates]]]
      /\ \A i \in Ids, v \in Visitors : state'[i][v].reached = state[i][v].reached
  <2>1. PICK s : s = [state[e.id][e.who] EXCEPT !.seg = e.first]
    OBVIOUS
  <2>2. state' = [state EXCEPT ![e.id][e.who] = s]
    BY <1>3, <1>7, <1>8, <2>1
  <2>3. /\ s \in [reached : 0..MaxSteps, seg : AnySegment, day : Dates]
        /\ s.reached = state[e.id][e.who].reached
    <3>1. state[e.id][e.who] \in [reached : 0..MaxSteps, seg : AnySegment, day : Dates]
      BY <1>3, <1>7
    <3>. QED BY <1>3, <2>1, <3>1
  <2>. QED BY <1>3, <1>7, <2>2, <2>3
<1>10. DayInv' /\ GuardInv' /\ StepInv' /\ MemberInv' /\ TablesGrow
  <2>1. \A i \in Ids, v \in Visitors : state'[i][v].reached <= earned[i][v]
    BY <1>9 DEF StepInv
  <2>. QED BY <1>5, <1>7, <1>9, <2>1, StateKept
<1>11. TaskOK(r)' /\ Writes(r)'
  BY <1>4, <1>10, TaskStaysOK, TaskStaysWriting
<1>12. TaskInv' /\ WriteInv'
  BY <1>4, <1>10, <1>11, EventsKept
<1>13. ASSUME NEW L \in [Ids -> StepLists \cup {<<>>}], EventLists(L) PROVE EventLists(L)'
  <2>1. TaskFollows(r, L)
    BY <1>1, <1>4, <1>13 DEF EventLists
  <2>2. \A u \in Tasks : TaskFollows(task[u], L)'
    BY <1>4, <1>6, <1>13, <2>1, EventsFollow DEF EventLists
  <2>. QED BY <1>5, <1>9, <1>13, <2>2 DEF EventLists
<1>. QED BY <1>6, <1>10, <1>12, <1>13

\* Midnight, and a state that expires: no event moves.
LEMMA EventsStand ==
    ASSUME EventsInv, DayInv', TablesGrow, UNCHANGED task
    PROVE  TaskInv' /\ WriteInv'
<1>1. ASSUME NEW t \in Tasks PROVE TaskOK(task[t])' /\ Writes(task[t])'
  <2>1. PICK r : r = task[t]
    OBVIOUS
  <2>2. TaskOK(r)' /\ Writes(r)'
    BY <2>1, TaskStaysOK, TaskStaysWriting DEF EventsInv, TaskInv, WriteInv
  <2>3. task'[t] = r
    BY <2>1
  <2>. QED BY <2>2, <2>3 DEF TaskOK, Writes, Behind, Placed
<1>. QED BY <1>1 DEF TaskInv, WriteInv, EventsInv

LEMMA DayPassed ==
    ASSUME EventsInv, Midnight
    PROVE  EventsInv' /\ TablesGrow /\ CallsRest /\ \A L : EventLists(L) => EventLists(L)'
<1>. USE DEF EventsInv, Midnight, trackVars, conversionVars
<1>1. DayInv' /\ TablesGrow
  <2>1. DayInv'
    BY DEF DayInv, Dates
  <2>2. TablesGrow
    BY TablesSame
  <2>. QED BY <2>1, <2>2
<1>2. TaskInv' /\ WriteInv'
  BY <1>1, EventsStand
<1>3. GuardInv' /\ StepInv' /\ MemberInv'
  BY <1>1, GuardRest, StepRest, MemberRest
<1>4. CallsRest
  BY DEF CallsRest
<1>5. \A L : EventLists(L) => EventLists(L)'
  BY DEF EventLists, TaskFollows, Follows
<1>. QED BY <1>1, <1>2, <1>3, <1>4, <1>5

LEMMA StateExpired ==
    ASSUME EventsInv, NEW i \in Ids, NEW v \in Visitors, Expire(i, v)
    PROVE  /\ EventsInv' /\ TablesGrow /\ CallsRest
           /\ \A L \in [Ids -> StepLists \cup {<<>>}] : EventLists(L) => EventLists(L)'
<1>. USE Caps DEF EventsInv, Expire, conversionVars
<1>1. date \in Dates
      /\ state \in [Ids -> [Visitors -> [reached : 0..MaxSteps, seg : AnySegment, day : Dates]]]
      /\ earned \in [Ids -> [Visitors -> Nat]]
  BY DEF DayInv
<1>2. NoState \in [reached : 0..MaxSteps, seg : AnySegment, day : Dates] /\ NoState.reached = 0
  BY DEF NoState, AnySegment, Dates
<1>3. /\ state' \in [Ids -> [Visitors -> [reached : 0..MaxSteps, seg : AnySegment, day : Dates]]]
      /\ \A j \in Ids, w \in Visitors : state'[j][w] = IF j = i /\ w = v THEN NoState ELSE state[j][w]
  BY <1>1, <1>2
<1>4. \A j \in Ids, w \in Visitors : state'[j][w].reached <= earned[j][w]
  BY <1>1, <1>2, <1>3 DEF StepInv
<1>5. DayInv' /\ GuardInv' /\ StepInv' /\ MemberInv' /\ TablesGrow
  BY <1>1, <1>3, <1>4, StateKept
<1>6. TaskInv' /\ WriteInv'
  BY <1>5, EventsStand
<1>7. CallsRest
  BY DEF CallsRest
<1>8. ASSUME NEW L \in [Ids -> StepLists \cup {<<>>}], EventLists(L) PROVE EventLists(L)'
  <2>1. \A u \in Tasks : TaskFollows(task[u], L)'
    BY <1>7, <1>8 DEF EventLists, TaskFollows, Follows, CallsRest
  <2>2. \A j \in Ids : Len(L[j]) \in Nat
    BY ListLength
  <2>3. \A j \in Ids, w \in Visitors : state'[j][w].reached <= Len(L[j])
    BY <1>2, <1>3, <1>8, <2>2 DEF EventLists
  <2>. QED BY <1>8, <2>1, <2>3 DEF EventLists
<1>. QED BY <1>5, <1>6, <1>7, <1>8

\* The registry of segments q is m with visitor v in field x, unless m is full.
Registers(m, x, v, q) ==
    /\ \A y \in DOMAIN m \ {x} : y \in DOMAIN q /\ q[y] = m[y]
    /\ \A y \in DOMAIN q \ {x} : y \in DOMAIN m
    /\ \/ x \in DOMAIN m /\ DOMAIN q = DOMAIN m /\ q[x] = m[x] \cup {v}
       \/ /\ x \notin DOMAIN m /\ Cardinality(DOMAIN m) < SegmentLimit
          /\ DOMAIN q = DOMAIN m \cup {x} /\ q[x] = {v}
       \/ x \notin DOMAIN m /\ ~(Cardinality(DOMAIN m) < SegmentLimit) /\ q = m

LEMMA MemberAdded ==
    ASSUME NEW m, NEW x, NEW v
    PROVE  Registers(m, x, v, AddMember(m, x, v))
<1>. PICK q : q = AddMember(m, x, v)
  OBVIOUS
<1>1. CASE x \in DOMAIN m
  BY <1>1 DEF AddMember, Registers
<1>2. CASE x \notin DOMAIN m /\ Cardinality(DOMAIN m) < SegmentLimit
  <2>1. q = With(m, x, {v})
    BY <1>2 DEF AddMember
  <2>2. Registers(m, x, v, q)
    BY <1>2, <2>1 DEF With, Registers
  <2>. QED BY <2>2
<1>3. CASE x \notin DOMAIN m /\ ~(Cardinality(DOMAIN m) < SegmentLimit)
  BY <1>3 DEF AddMember, Registers
<1>. QED BY <1>1, <1>2, <1>3

\* One turn of the loop: a visitor is counted at the next step, behind whom all steps
\* before are counted already.
LEMMA StepWritten ==
    ASSUME EventsInv, NEW t \in Tasks, WriteStep(t)
    PROVE  /\ EventsInv' /\ TablesGrow /\ CallsRest
           /\ \A L \in [Ids -> StepLists \cup {<<>>}] : EventLists(L) => EventLists(L)'
<1>. USE Caps
<1>1. PICK e : e = task[t]
  OBVIOUS
<1>2. e.pc = "write" /\ TaskOK(e) /\ Writes(e)
  BY <1>1 DEF EventsInv, WriteStep, TaskInv, WriteInv
<1>3. PICK n : n = e.n
  OBVIOUS
<1>4. PICK d \in Dates : d = e.day
  BY <1>2 DEF TaskOK
<1>5. PICK i \in Ids : i = e.id
  BY <1>2 DEF TaskOK, Loop
<1>6. PICK v \in Visitors : v = e.who
  BY <1>2 DEF TaskOK
<1>7. /\ DOMAIN e = TaskFields /\ v \in exact[d] /\ e.from \in 0..MaxSteps - 1 /\ n \in 1..e.from + 1
      /\ e.from + 1 <= earned[i][v] /\ e.first \in AnySegment
  BY <1>2, <1>3, <1>4, <1>5, <1>6 DEF TaskOK, Loop, Writes
<1>8. n \in Levels /\ n \in Nat /\ n >= 1 /\ n <= e.from + 1
  BY <1>7 DEF Levels
<1>9. \A k \in 1..n - 1 : v \in steps[d][i][k]
  BY <1>2, <1>3, <1>4, <1>5, <1>6 DEF Writes, Behind
<1>10. PICK x : x = <<i, n, e.first>>
  OBVIOUS
<1>11. PICK z : z = <<i, n - 1, e.first>>
  OBVIOUS
<1>12. x # z
  BY <1>8, <1>10, <1>11
<1>13. n > 1 => IF z \in DOMAIN members[d] THEN v \in members[d][z]
                ELSE Cardinality(DOMAIN members[d]) >= SegmentLimit
  BY <1>2, <1>3, <1>4, <1>5, <1>6, <1>11 DEF Writes, Placed
<1>14. /\ steps' = [steps EXCEPT ![d][i][n] = @ \cup {v}]
       /\ members' = [members EXCEPT ![d] = AddMember(@, x, v)]
       /\ task' = [task EXCEPT ![t] = [@ EXCEPT !.n = n + 1, !.pc = IF n <= e.from THEN "write" ELSE "state"]]
       /\ UNCHANGED <<date, names, exact, events, state, earned, crossed>>
  BY <1>1, <1>3, <1>4, <1>5, <1>6, <1>10 DEF WriteStep, StartOfLoop
<1>15. CallsRest
  BY DEF WriteStep, conversionVars, CallsRest
<1>16. steps \in [Dates -> [Ids -> [Levels -> SUBSET Visitors]]] /\ DOMAIN members = Dates
  BY DEF EventsInv, DayInv
<1>17. /\ steps' \in [Dates -> [Ids -> [Levels -> SUBSET Visitors]]]
       /\ \A c \in Dates, j \in Ids, k \in Levels :
             steps'[c][j][k] = IF c = d /\ j = i /\ k = n THEN steps[c][j][k] \cup {v} ELSE steps[c][j][k]
  <2>1. PICK w : w = steps[d][i][n] \cup {v}
    OBVIOUS
  <2>2. steps' = [steps EXCEPT ![d][i][n] = w]
    BY <1>14, <2>1
  <2>3. w \in SUBSET Visitors
    <3>1. steps[d][i][n] \in SUBSET Visitors
      BY <1>8, <1>16
    <3>. QED BY <2>1, <3>1
  <2>4. steps' \in [Dates -> [Ids -> [Levels -> SUBSET Visitors]]]
    BY <1>8, <1>16, <2>2, <2>3
  <2>5. \A c \in Dates, j \in Ids, k \in Levels :
           steps'[c][j][k] = IF c = d /\ j = i /\ k = n THEN w ELSE steps[c][j][k]
    BY <1>8, <1>16, <2>2
  <2>. QED BY ZenonT(30), <2>1, <2>4, <2>5
<1>18. DOMAIN members' = Dates /\ members'[d] = AddMember(members[d], x, v)
       /\ \A c \in Dates \ {d} : members'[c] = members[c]
  BY <1>14, <1>16
<1>19. PICK m : m = members[d]
  OBVIOUS
<1>20. PICK q : q = members'[d]
  OBVIOUS
<1>21. Registers(m, x, v, q)
  <2>1. q = AddMember(m, x, v)
    BY <1>18, <1>19, <1>20
  <2>. QED BY <2>1, MemberAdded
<1>22. IsFiniteSet(DOMAIN m) /\ Cardinality(DOMAIN m) \in Nat /\ Cardinality(DOMAIN m) <= SegmentLimit
  BY <1>19, FS_CardinalityType DEF EventsInv, GuardInv
<1>23. DayInv'
  BY <1>14, <1>17, <1>18 DEF EventsInv, DayInv
<1>24. TablesGrow
  <2>1. \A j \in Ids, w \in Visitors : earned[j][w] <= earned'[j][w]
    <3>1. \A j \in Ids, w \in Visitors : earned[j][w] \in Nat
      BY DEF EventsInv, DayInv
    <3>. QED BY <1>14, <3>1
  <2>2. \A c \in Dates, j \in Ids, k \in Levels : steps[c][j][k] \subseteq steps'[c][j][k]
    <3>. SUFFICES ASSUME NEW c \in Dates, NEW j \in Ids, NEW k \in Levels
                  PROVE  steps[c][j][k] \subseteq steps'[c][j][k]
      OBVIOUS
    <3>1. steps'[c][j][k] = steps[c][j][k] \/ steps'[c][j][k] = steps[c][j][k] \cup {v}
      BY ZenonT(30), <1>17
    <3>. QED BY <3>1
  <2>3. ASSUME NEW c \in Dates
        PROVE  /\ \A y \in DOMAIN members[c] : y \in DOMAIN members'[c] /\ members[c][y] \subseteq members'[c][y]
               /\ Cardinality(DOMAIN members[c]) >= SegmentLimit => DOMAIN members'[c] = DOMAIN members[c]
    <3>1. CASE c = d
      <4>1. /\ \A y \in DOMAIN m : y \in DOMAIN q /\ m[y] \subseteq q[y]
        BY <1>21 DEF Registers
      <4>2. Cardinality(DOMAIN m) >= SegmentLimit => DOMAIN q = DOMAIN m
        BY <1>21, <1>22 DEF Registers
      <4>. QED BY <1>19, <1>20, <3>1, <4>1, <4>2
    <3>2. CASE c # d
      BY <1>18, <3>2
    <3>. QED BY <3>1, <3>2
  <2>. QED BY <1>14, <2>1, <2>2, <2>3 DEF TablesGrow
<1>25. PICK p : p = IF n <= e.from THEN "write" ELSE "state"
  OBVIOUS
<1>26. PICK r : r = [e EXCEPT !.n = n + 1, !.pc = p]
  OBVIOUS
<1>27. Works(t, r)
  <2>1. task' = [task EXCEPT ![t] = r]
    BY <1>1, <1>14, <1>25, <1>26
  <2>. QED BY <2>1, EventNew DEF EventsInv
<1>28. /\ r.pc = p /\ r.n = n + 1 /\ DOMAIN r = TaskFields
       /\ r.day = d /\ r.who = v /\ r.seg = e.seg /\ r.named = e.named /\ r.name = e.name
       /\ r.left = e.left /\ r.id = i /\ r.from = e.from /\ r.first = e.first
  BY <1>4, <1>5, <1>6, <1>7, <1>26 DEF TaskFields
<1>29. TaskOK(r)'
  <2>1. r.pc \in TaskStages /\ r.pc \notin {"idle", "visitor", "count"} /\ r.pc \in Loop
    BY <1>25, <1>28 DEF TaskStages, Loop
  <2>2. TaskOK(r)
    BY <1>2, <1>4, <1>5, <1>6, <1>7, <1>28, <2>1 DEF TaskOK, Loop
  <2>. QED BY <1>24, <2>2, TaskStaysOK
<1>30. Writes(r)'
  <2>1. r.from + 1 <= earned'[i][v]
    BY <1>7, <1>14, <1>28
  <2>2. ASSUME p = "write" PROVE r.n \in 1..r.from + 1 /\ Behind(r)' /\ Placed(r)'
    <3>1. n <= e.from
      BY <1>25, <2>2
    <3>2. r.n \in 1..r.from + 1
      BY <1>7, <1>8, <1>28, <3>1
    <3>3. \A k \in 1..n : k \in Levels /\ (k \in 1..n - 1 \/ k = n)
      BY <1>7, <1>8 DEF Levels
    <3>4. \A k \in 1..n : v \in steps'[d][i][k]
      BY <1>9, <1>17, <3>3
    <3>5. r.n - 1 = n
      BY <1>8, <1>28
    <3>6. Behind(r)'
      BY <1>28, <3>4, <3>5 DEF Behind
    <3>7. IF x \in DOMAIN q THEN v \in q[x] ELSE Cardinality(DOMAIN q) >= SegmentLimit
      BY <1>21, <1>22 DEF Registers
    <3>8. Placed(r)'
      BY <1>10, <1>20, <1>28, <3>5, <3>7 DEF Placed
    <3>. QED BY <3>2, <3>6, <3>8
  <2>. QED BY <1>28, <2>1, <2>2 DEF Writes
<1>31. TaskInv' /\ WriteInv'
  BY <1>23, <1>24, <1>27, <1>29, <1>30, EventsKept DEF EventsInv
<1>32. GuardInv'
  <2>1. IsFiniteSet(DOMAIN q) /\ Cardinality(DOMAIN q) <= SegmentLimit
    <3>1. IsFiniteSet(DOMAIN m \cup {x}) /\ Cardinality(DOMAIN m \cup {x}) \in Nat
          /\ Cardinality(DOMAIN m \cup {x}) <= Cardinality(DOMAIN m) + 1
      BY <1>22, AddedSize
    <3>2. Cardinality(DOMAIN m) < SegmentLimit => Cardinality(DOMAIN m \cup {x}) <= SegmentLimit
      BY <1>22, <3>1
    <3>. QED BY <1>21, <1>22, <3>1, <3>2 DEF Registers
  <2>2. \A c \in Dates : IsFiniteSet(DOMAIN members'[c]) /\ Cardinality(DOMAIN members'[c]) <= SegmentLimit
    BY <1>18, <1>20, <2>1 DEF EventsInv, GuardInv
  <2>. QED BY <1>14, <2>2 DEF EventsInv, GuardInv, Unguarded
<1>33. StepInv'
  <2>1. ASSUME NEW c \in Dates, NEW j \in Ids, NEW k \in Levels
        PROVE  /\ steps'[c][j][k] \subseteq exact[c]
               /\ \A l \in 1..k : steps'[c][j][k] \subseteq steps'[c][j][l]
               /\ \A w \in steps'[c][j][k] : earned[j][w] >= k
    <3>1. /\ steps[c][j][k] \subseteq exact[c]
          /\ \A l \in 1..k : steps[c][j][k] \subseteq steps[c][j][l]
          /\ \A w \in steps[c][j][k] : earned[j][w] >= k
      BY DEF EventsInv, StepInv
    <3>2. \A l \in 1..k : l \in Levels
      BY DEF Levels
    <3>3. CASE c = d /\ j = i /\ k = n
      <4>1. steps'[c][j][k] = steps[c][j][k] \cup {v}
        BY <1>17, <3>3
      <4>2. ASSUME NEW l \in 1..k PROVE v \in steps'[c][j][l]
        <5>1. l \in 1..n - 1 \/ l = n
          BY <1>8, <3>3
        <5>. QED BY <1>9, <1>17, <3>2, <3>3, <5>1
      <4>3. earned[i][v] >= n
        <5>1. earned[i][v] \in Nat
          BY DEF EventsInv, DayInv
        <5>. QED BY <1>7, <1>8, <5>1
      <4>4. \A l \in 1..k : steps[c][j][l] \subseteq steps'[c][j][l]
        BY <1>24, <3>2 DEF TablesGrow
      <4>5. v \in exact[c] /\ steps'[c][j][k] \subseteq exact[c]
        BY <1>7, <3>1, <3>3, <4>1
      <4>6. \A l \in 1..k : steps'[c][j][k] \subseteq steps'[c][j][l]
        BY <3>1, <4>1, <4>2, <4>4
      <4>7. \A w \in steps'[c][j][k] : earned[j][w] >= k
        BY <3>1, <3>3, <4>1, <4>3
      <4>. QED BY <4>5, <4>6, <4>7
    <3>4. CASE ~(c = d /\ j = i /\ k = n)
      BY ZenonT(30), <1>17, <3>1, <3>2, <3>4
    <3>. QED BY <3>3, <3>4
  <2>. QED BY <1>14, <2>1 DEF EventsInv, StepInv
<1>34. MemberInv'
  <2>. SUFFICES ASSUME NEW c \in Dates, NEW j \in Ids, NEW k \in Levels \ {1}, NEW s \in Segments,
                       <<j, k, s>> \in DOMAIN members'[c]
                PROVE  /\ <<j, k - 1, s>> \in DOMAIN members'[c]
                       /\ members'[c][<<j, k, s>>] \subseteq members'[c][<<j, k - 1, s>>]
                       /\ members'[c][<<j, k, s>>] \subseteq steps'[c][j][k]
    BY DEF MemberInv
  <2>1. PICK y : y = <<j, k, s>>
    OBVIOUS
  <2>2. PICK u : u = <<j, k - 1, s>>
    OBVIOUS
  <2>3. k \in Nat /\ k > 1 /\ y # u
    BY <2>1, <2>2 DEF Levels
  <2>4. y \in DOMAIN members[c] =>
            u \in DOMAIN members[c] /\ members[c][y] \subseteq members[c][u] /\ members[c][y] \subseteq steps[c][j][k]
    BY <2>1, <2>2 DEF EventsInv, MemberInv
  <2>5. steps[c][j][k] \subseteq steps'[c][j][k]
    BY ZenonT(30), <1>17
  <2>6. CASE c = d /\ y = x
    <3>1. u = z /\ j = i /\ k = n
      BY <1>10, <1>11, <2>1, <2>2, <2>6
    <3>2. v \in steps'[c][j][k]
      BY <1>17, <2>6, <3>1
    <3>3. n > 1 /\ x \in DOMAIN q
      BY <1>20, <2>1, <2>3, <2>6, <3>1
    <3>4. z \in DOMAIN m /\ v \in m[z]
      <4>1. IF z \in DOMAIN m THEN v \in m[z] ELSE Cardinality(DOMAIN m) >= SegmentLimit
        BY <1>13, <1>19, <3>3
      <4>2. CASE x \in DOMAIN m
        BY <1>19, <2>4, <2>6, <3>1, <4>1, <4>2
      <4>3. CASE x \notin DOMAIN m
        BY <1>21, <1>22, <3>3, <4>1, <4>3 DEF Registers
      <4>. QED BY <4>2, <4>3
    <3>5. z \in DOMAIN q /\ q[z] = m[z]
      BY <1>12, <1>21, <3>4 DEF Registers
    <3>6. q[x] \subseteq m[z] /\ q[x] \subseteq steps'[c][j][k]
      <4>1. CASE x \in DOMAIN m
        BY <1>19, <1>21, <2>4, <2>5, <2>6, <3>1, <3>2, <3>4, <4>1 DEF Registers
      <4>2. CASE x \notin DOMAIN m
        BY <1>21, <3>2, <3>3, <3>4, <4>2 DEF Registers
      <4>. QED BY <4>1, <4>2
    <3>. QED BY <1>20, <2>1, <2>2, <2>6, <3>1, <3>5, <3>6
  <2>7. CASE ~(c = d /\ y = x)
    <3>1. y \in DOMAIN members[c] /\ members'[c][y] = members[c][y]
      BY <1>18, <1>19, <1>20, <1>21, <2>1, <2>7 DEF Registers
    <3>2. u \in DOMAIN members'[c] /\ members[c][u] \subseteq members'[c][u]
      BY <1>24, <2>4, <3>1 DEF TablesGrow
    <3>. QED BY <2>1, <2>2, <2>4, <2>5, <3>1, <3>2
  <2>. QED BY <2>6, <2>7
<1>35. ASSUME NEW L \in [Ids -> StepLists \cup {<<>>}], EventLists(L) PROVE EventLists(L)'
  <2>1. TaskFollows(e, L)
    BY <1>1, <1>35 DEF EventLists
  <2>2. TaskFollows(r, L)
    BY <1>2, <1>5, <1>28, <2>1 DEF TaskFollows, Loop
  <2>3. \A u \in Tasks : TaskFollows(task[u], L)'
    BY <1>15, <1>27, <1>35, <2>2, EventsFollow DEF EventLists
  <2>4. n <= Len(L[i])
    <3>1. e.from + 1 <= Len(L[i]) /\ Len(L[i]) \in Nat
      BY <1>2, <1>5, <2>1, ListLength DEF TaskFollows
    <3>. QED BY <1>7, <1>8, <3>1
  <2>5. \A j \in Ids, c \in Dates, k \in Levels : k > Len(L[j]) => steps'[c][j][k] = {}
    <3>. SUFFICES ASSUME NEW j \in Ids, NEW c \in Dates, NEW k \in Levels, k > Len(L[j])
                  PROVE  steps'[c][j][k] = {}
      OBVIOUS
    <3>1. ~(j = i /\ k = n)
      <4>1. Len(L[i]) \in Nat
        BY ListLength
      <4>. QED BY <1>8, <2>4, <4>1
    <3>2. steps[c][j][k] = {}
      BY <1>35 DEF EventLists
    <3>. QED BY <1>17, <3>1, <3>2
  <2>. QED BY <1>14, <1>35, <2>3, <2>5 DEF EventLists
<1>. QED BY <1>15, <1>23, <1>24, <1>31, <1>32, <1>33, <1>34, <1>35 DEF EventsInv

\* Every step that is not one of a manager or of a scan.
LEMMA EventsStep ==
    ASSUME EventsInv, NEW L \in [Ids -> StepLists \cup {<<>>}], CallLists(L), EventLists(L),
           \/ \E t \in Tasks : Track(t)
           \/ Midnight
           \/ \E i \in Ids, v \in Visitors : Expire(i, v)
    PROVE  /\ EventsInv' /\ TablesGrow /\ CallsRest /\ EventLists(L)'
           /\ UNCHANGED <<row, scan>> /\ date <= date'
<1>0. date \in Dates /\ date <= date
  BY DEF EventsInv, DayInv, Dates
<1>1. ASSUME NEW t \in Tasks, Track(t)
      PROVE  EventsInv' /\ TablesGrow /\ CallsRest /\ EventLists(L)' /\ UNCHANGED <<row, scan, date>>
  <2>1. ASSUME NEW v \in Visitors, NEW e \in Names, NEW s \in Segments, TakeName(t, v, e, s)
        PROVE  EventsInv' /\ TablesGrow /\ CallsRest /\ EventLists(L)' /\ UNCHANGED <<row, scan, date>>
    BY <2>1, NameTaken DEF TakeName, scanVars
  <2>2. ASSUME NEW v \in Visitors, NEW e \in Names, NEW s \in Segments, NameFails(t, v, e, s)
        PROVE  EventsInv' /\ TablesGrow /\ CallsRest /\ EventLists(L)' /\ UNCHANGED <<row, scan, date>>
    BY <2>2, NameLost DEF NameFails, scanVars
  <2>3. CASE TakeVisitor(t)
    BY <2>3, VisitorTaken DEF TakeVisitor, scanVars
  <2>4. CASE Store(t)
    BY <2>4, EventStored DEF Store, scanVars
  <2>5. CASE ReadDefinitions(t)
    BY <2>5, DefinitionsRead DEF ReadDefinitions, scanVars
  <2>6. ASSUME NEW i \in Ids, Look(t, i) \/ LookFails(t, i)
        PROVE  EventsInv' /\ TablesGrow /\ CallsRest /\ EventLists(L)' /\ UNCHANGED <<row, scan, date>>
    <3>1. EventsInv' /\ TablesGrow /\ CallsRest /\ EventLists(L)'
      BY <2>6, FunnelLooked
    <3>. QED BY <2>6, <3>1 DEF Look, LookFails, scanVars
  <2>7. CASE WriteStep(t)
    BY <2>7, StepWritten DEF WriteStep, scanVars
  <2>8. CASE SetState(t)
    BY <2>8, StateSet DEF SetState, scanVars
  <2>9. CASE SetSegments(t)
    BY <2>9, SegmentsSet DEF SetSegments, scanVars
  <2>10. CASE TaskFails(t)
    BY <2>10, EventFailed DEF TaskFails, scanVars
  <2>. QED BY <1>1, <2>1, <2>2, <2>3, <2>4, <2>5, <2>6, <2>7, <2>8, <2>9, <2>10 DEF Track
<1>2. CASE Midnight
  BY <1>2, DayPassed DEF Midnight, scanVars
<1>3. ASSUME NEW i \in Ids, NEW v \in Visitors, Expire(i, v)
      PROVE  EventsInv' /\ TablesGrow /\ CallsRest /\ EventLists(L)' /\ UNCHANGED <<row, scan, date>>
  BY <1>3, StateExpired DEF Expire, scanVars
<1>. QED BY <1>0, <1>1, <1>2, <1>3

-----------------------------------------------------------------------------
(* The flush and the report among the other steps. *)

LEMMA StepSize ==
    ASSUME EventsInv, NEW d \in Dates, NEW i \in Ids, NEW n \in Levels
    PROVE  IsFiniteSet(steps[d][i][n]) /\ Cardinality(steps[d][i][n]) \in Nat
<1>1. steps[d][i][n] \subseteq exact[d] /\ IsFiniteSet(exact[d])
  BY DEF EventsInv, StepInv, GuardInv
<1>. QED BY <1>1, SubsetSize

\* The steps of a day are counted more often, never less.
LEMMA SizesGrow ==
    ASSUME EventsInv, EventsInv', TablesGrow
    PROVE  \A d \in Dates, i \in Ids, n \in Levels :
              /\ Cardinality(steps[d][i][n]) \in Nat /\ Cardinality(steps'[d][i][n]) \in Nat
              /\ Cardinality(steps[d][i][n]) <= Cardinality(steps'[d][i][n])
<1>. SUFFICES ASSUME NEW d \in Dates, NEW i \in Ids, NEW n \in Levels
              PROVE  /\ Cardinality(steps[d][i][n]) \in Nat /\ Cardinality(steps'[d][i][n]) \in Nat
                     /\ Cardinality(steps[d][i][n]) <= Cardinality(steps'[d][i][n])
  OBVIOUS
<1>1. steps'[d][i][n] \subseteq exact'[d] /\ IsFiniteSet(exact'[d])
  BY DEF EventsInv, StepInv, GuardInv
<1>2. IsFiniteSet(steps'[d][i][n])
  BY <1>1, SubsetSize
<1>3. steps[d][i][n] \subseteq steps'[d][i][n]
  BY DEF TablesGrow
<1>. QED BY <1>2, <1>3, SubsetSize

LEMMA WithinKept ==
    ASSUME EventsInv, EventsInv', TablesGrow, NEW d \in Dates, NEW i \in Ids, NEW x \in Numbers, Within(x, d, i)
    PROVE  Within(x, d, i)'
<1>. SUFFICES ASSUME NEW n \in Levels PROVE x[n] <= Cardinality(steps'[d][i][n])
  BY DEF Within
<1>1. x[n] \in Nat /\ x[n] <= Cardinality(steps[d][i][n])
  BY DEF Numbers, Within
<1>2. Cardinality(steps[d][i][n]) \in Nat /\ Cardinality(steps'[d][i][n]) \in Nat
      /\ Cardinality(steps[d][i][n]) <= Cardinality(steps'[d][i][n])
  BY SizesGrow
<1>. QED BY <1>1, <1>2

LEMMA ScanStaysOK ==
    ASSUME EventsInv, EventsInv', TablesGrow, NEW r, ScanOK(r)
    PROVE  ScanOK(r)'
<1>1. ASSUME r.pc \in {"count", "shown"}, NEW i \in DOMAIN r.got
      PROVE  r.got[i] \in Numbers /\ Within(r.got[i], r.day, i)'
  <2>1. r.day \in Dates /\ i \in Ids /\ r.got[i] \in Numbers /\ Within(r.got[i], r.day, i)
    BY <1>1 DEF ScanOK
  <2>. QED BY <2>1, WithinKept
<1>. QED BY <1>1 DEF ScanOK

LEMMA FlushStaysOK ==
    ASSUME EventsInv, EventsInv', TablesGrow, NEW r, ScanOK(r), FlushOK(r)
    PROVE  FlushOK(r)'
<1>1. ASSUME r.pc # "idle", NEW i \in Ids PROVE Within(r.held[i], r.day, i)'
  <2>1. r.day \in Dates /\ r.held[i] \in Numbers /\ Within(r.held[i], r.day, i)
    BY <1>1 DEF ScanOK, FlushOK
  <2>. QED BY <2>1, WithinKept
<1>. QED BY <1>1 DEF FlushOK

\* A report is no flush.
LEMMA TwoKinds ==
    /\ "report" \notin Flushers /\ "report" \in Scanners
    /\ \A s \in Scanners : s = "report" \/ s \in Flushers
    /\ \A w \in Flushers : w \in Scanners /\ w # "report"
BY FunnelAssumption DEF FunnelAssumption, Scanners

LEMMA ScansRest ==
    ASSUME EventsInv, EventsInv', TablesGrow, ScanInv, ReportInv, ReportBracketed,
           UNCHANGED <<row, scan>>, date <= date'
    PROVE  ScanInv' /\ ReportInv' /\ ReportBracketed'
<1>1. ScanInv'
  <2>1. ASSUME NEW d \in Dates, NEW i \in Ids PROVE Within(row[d][i], d, i)'
    <3>1. PICK x : x = row[d][i]
      OBVIOUS
    <3>2. x \in Numbers /\ Within(x, d, i)
      BY <3>1 DEF ScanInv
    <3>3. Within(x, d, i)'
      BY <3>2, WithinKept
    <3>4. row'[d][i] = x
      BY <3>1
    <3>. QED BY <3>3, <3>4 DEF Within
  <2>2. ASSUME NEW s \in Scanners PROVE ScanOK(scan[s])'
    <3>1. PICK r : r = scan[s]
      OBVIOUS
    <3>2. ScanOK(r)'
      BY <3>1, ScanStaysOK DEF ScanInv
    <3>3. scan'[s] = r
      BY <3>1
    <3>. QED BY <3>2, <3>3 DEF ScanOK, Within
  <2>3. ASSUME NEW w \in Flushers PROVE FlushOK(scan[w])'
    <3>1. PICK r : r = scan[w]
      OBVIOUS
    <3>2. FlushOK(r)'
      BY <3>1, TwoKinds, FlushStaysOK DEF ScanInv
    <3>3. scan'[w] = r
      BY <3>1
    <3>. QED BY <3>2, <3>3 DEF FlushOK, Within
  <2>. QED BY <2>1, <2>2, <2>3 DEF ScanInv
<1>2. PICK r : r = scan["report"]
  OBVIOUS
<1>3. scan'["report"] = r
  BY <1>2
<1>4. date \in Dates /\ date' \in Dates
  BY DEF EventsInv, DayInv
<1>5. Zeros \in Numbers /\ 1 \in Dates
  BY DEF Zeros, Numbers, Dates
<1>6. ReportInv'
  <2>. SUFFICES ASSUME r.pc # "idle"
                PROVE  /\ r.end <= date'
                       /\ Within(r.base, r.end, r.id)'
                       /\ r.pc # "rows" =>
                             /\ Within(r.stored, r.end, r.id)'
                             /\ r.end # 1 => Within(r.old, 1, r.id)'
    BY <1>2, <1>3 DEF ReportInv, ReportOK, Within
  <2>1. /\ r.id \in Ids /\ r.end \in Dates /\ r.end <= date /\ r.base \in Numbers /\ Within(r.base, r.end, r.id)
        /\ r.pc # "rows" => /\ r.old \in Numbers /\ r.stored \in Numbers
                            /\ Within(r.stored, r.end, r.id)
                            /\ r.end # 1 => Within(r.old, 1, r.id)
    BY <1>2 DEF ReportInv, ReportOK
  <2>2. r.end <= date'
    BY <1>4, <2>1 DEF Dates
  <2>. QED BY <1>5, <2>1, <2>2, WithinKept
<1>7. ReportBracketed'
  <2>. SUFFICES ASSUME r.pc = "shown"
                PROVE  \A n \in Levels :
                          r.shown[n] <= Cardinality(steps'[1][r.id][n]) + Cardinality(steps'[2][r.id][n])
    BY <1>2, <1>3 DEF ReportBracketed
  <2>. SUFFICES ASSUME NEW n \in Levels
                PROVE  r.shown[n] <= Cardinality(steps'[1][r.id][n]) + Cardinality(steps'[2][r.id][n])
    OBVIOUS
  <2>1. r.id \in Ids /\ r.shown \in Numbers
    BY <1>2 DEF ReportInv, ReportOK
  <2>2. r.shown[n] \in Nat
    BY <2>1 DEF Numbers
  <2>3. r.shown[n] <= Cardinality(steps[1][r.id][n]) + Cardinality(steps[2][r.id][n])
    BY <1>2 DEF ReportBracketed
  <2>4. \A d \in {1, 2} :
           /\ Cardinality(steps[d][r.id][n]) \in Nat /\ Cardinality(steps'[d][r.id][n]) \in Nat
           /\ Cardinality(steps[d][r.id][n]) <= Cardinality(steps'[d][r.id][n])
    BY <2>1, SizesGrow DEF Dates
  <2>. QED BY <2>2, <2>3, <2>4
<1>. QED BY <1>1, <1>6, <1>7

LEMMA ScanListsKept ==
    ASSUME NEW L, NEW K, ScanLists(L), UNCHANGED <<row, scan>>,
           \A f : Follows(f, L) => Follows(f, K)', \A i \in 1..ids : K[i] = L[i]
    PROVE  ScanLists(K)'
<1>. SUFFICES ASSUME NEW s \in Scanners PROVE ScanFollows(s, scan[s], K)'
  BY DEF ScanLists
<1>1. PICK r : r = scan[s] /\ r = scan'[s]
  OBVIOUS
<1>2. ScanFollows(s, r, L)
  BY <1>1 DEF ScanLists
<1>3. Complete(s, r) => Complete(s, r)'
  BY DEF Complete, Floor
<1>4. r.pc = "count" => Follows(r.left, K)'
  BY <1>2 DEF ScanFollows
<1>5. r.pc = "count" /\ r.n > 1 => K[r.id] = L[r.id]
  BY <1>2 DEF ScanFollows, Complete, Follows
<1>6. ScanFollows(s, r, K)'
  BY <1>2, <1>3, <1>4, <1>5 DEF ScanFollows
<1>. QED BY ZenonT(30), <1>1, <1>6 DEF ScanFollows, Complete, Floor

-----------------------------------------------------------------------------
(* The steps of the whole. *)

LEMMA EventsInside ==
    Inv <=> /\ CallsInv /\ LimitInv /\ DefsInv /\ EventsInv /\ ScanInv /\ ReportInv /\ ReportBracketed
            /\ \E L \in [Ids -> StepLists \cup {<<>>}] : Lists(L)
BY DEF Inv, EventsInv

\* A new funnel finds nobody on its way.
LEMMA EventListsGrow ==
    ASSUME CallsInv, EventsInv, NEW L, CallLists(L), EventLists(L), NEW K, Grows(L, K),
           UNCHANGED <<date, trackVars>>
    PROVE  EventLists(K)'
<1>1. /\ L \in [Ids -> StepLists \cup {<<>>}] /\ K \in [Ids -> StepLists \cup {<<>>}]
      /\ \A i \in 1..ids : K[i] = L[i]
      /\ \A f : Follows(f, L) => Follows(f, K)'
      /\ \A i \in Ids : i > ids => L[i] = <<>>
  BY DEF Grows, CallLists
<1>2. \A i \in Ids : Len(L[i]) \in Nat /\ Len(K[i]) \in Nat
  <2>. SUFFICES ASSUME NEW i \in Ids PROVE Len(L[i]) \in Nat /\ Len(K[i]) \in Nat
    OBVIOUS
  <2>1. Len(L[i]) \in 0..MaxSteps /\ Len(K[i]) \in 0..MaxSteps
    BY <1>1, ListLength
  <2>. QED BY <2>1
<1>3. \A i \in Ids : i \in 1..ids \/ i > ids
  BY ConversionAssumption DEF CallsInv, Ids, ConversionAssumption
<1>4. \A i \in Ids : K[i] = L[i] \/ Len(L[i]) = 0
  BY <1>1, <1>3, ListLengths
<1>5. UNCHANGED <<task, state, steps>>
  BY DEF trackVars
<1>6. ASSUME NEW t \in Tasks PROVE TaskFollows(task[t], K)'
  <2>1. PICK r : r = task[t]
    OBVIOUS
  <2>2. TaskOK(r) /\ TaskFollows(r, L)
    BY <2>1 DEF EventsInv, TaskInv, EventLists
  <2>3. r.pc \in Loop \cup {"look"} => Follows(r.left, L) /\ Follows(r.left, K)'
    BY <1>1, <2>2 DEF TaskFollows
  <2>4. r.pc \in {"write", "state"} => K[r.id] = L[r.id]
    BY <1>1, <2>2, <2>3 DEF TaskOK, Loop, Follows
  <2>5. TaskFollows(r, K)'
    BY <2>2, <2>3, <2>4 DEF TaskFollows
  <2>6. task'[t] = r
    BY <1>5, <2>1
  <2>. QED BY <2>5, <2>6 DEF TaskFollows, Follows
<1>7. ASSUME NEW i \in Ids, NEW v \in Visitors PROVE state[i][v].reached <= Len(K[i])
  <2>1. state[i][v].reached \in 0..MaxSteps /\ MaxSteps \in Nat
    BY ListLengths DEF EventsInv, DayInv
  <2>2. state[i][v].reached <= Len(L[i])
    BY DEF EventLists
  <2>. QED BY <1>2, <1>4, <2>1, <2>2
<1>8. ASSUME NEW i \in Ids, NEW d \in Dates, NEW n \in Levels, n > Len(K[i]) PROVE steps[d][i][n] = {}
  <2>1. n \in Nat
    BY ListLengths DEF Levels
  <2>2. n > Len(L[i])
    BY <1>2, <1>4, <1>8, <2>1
  <2>. QED BY <2>2 DEF EventLists
<1>. QED BY <1>5, <1>6, <1>7, <1>8 DEF EventLists

LEMMA ManagerStep ==
    ASSUME Inv, NEW m \in Managers, Continue(m) \/ Start(m), UNCHANGED <<date, trackVars, scanVars>>
    PROVE  Inv'
<1>1. /\ CallsInv /\ LimitInv /\ DefsInv /\ EventsInv /\ ScanInv /\ ReportInv /\ ReportBracketed
      /\ \E L \in [Ids -> StepLists \cup {<<>>}] : Lists(L)
  BY EventsInside
<1>2. PICK L \in [Ids -> StepLists \cup {<<>>}] : Lists(L)
  BY <1>1
<1>3. PICK K : Grows(L, K) /\ CallLists(K)'
  BY <1>1, <1>2, ListsStep DEF Lists
<1>4. CallsInv'
  BY <1>1, CallsStep
<1>5. LimitInv'
  BY <1>1, <1>4, LimitStep
<1>6. DefsInv'
  BY <1>1, <1>4, DefsStep
<1>7. /\ UNCHANGED <<date, names, exact, events, steps, members, state, earned, crossed, task>>
      /\ UNCHANGED <<row, scan>>
  BY DEF trackVars, scanVars
<1>8. DayInv' /\ GuardInv' /\ StepInv' /\ MemberInv' /\ TablesGrow
  BY <1>1, <1>7, TablesRest
<1>9. EventsInv'
  BY <1>1, <1>7, <1>8, EventsStand DEF EventsInv
<1>10. ScanInv' /\ ReportInv' /\ ReportBracketed'
  <2>1. date <= date'
    BY <1>1, <1>7 DEF EventsInv, DayInv, Dates
  <2>. QED BY <1>1, <1>7, <1>8, <1>9, <2>1, ScansRest
<1>11. EventLists(K)'
  BY <1>1, <1>2, <1>3, EventListsGrow DEF Lists
<1>12. ScanLists(K)'
  BY <1>2, <1>3, <1>7, ScanListsKept DEF Lists, Grows
<1>13. K \in [Ids -> StepLists \cup {<<>>}]
  BY <1>3 DEF Grows
<1>14. Lists(K)'
  BY <1>3, <1>11, <1>12 DEF Lists
<1>. QED BY <1>4, <1>5, <1>6, <1>8, <1>9, <1>10, <1>13, <1>14 DEF Inv, EventsInv

LEMMA EventStep ==
    ASSUME Inv,
           \/ \E t \in Tasks : Track(t)
           \/ Midnight
           \/ \E i \in Ids, v \in Visitors : Expire(i, v)
    PROVE  Inv'
<1>1. /\ CallsInv /\ LimitInv /\ DefsInv /\ EventsInv /\ ScanInv /\ ReportInv /\ ReportBracketed
      /\ \E L \in [Ids -> StepLists \cup {<<>>}] : Lists(L)
  BY EventsInside
<1>2. PICK L \in [Ids -> StepLists \cup {<<>>}] : Lists(L)
  BY <1>1
<1>3. EventsInv' /\ TablesGrow /\ CallsRest /\ EventLists(L)' /\ UNCHANGED <<row, scan>> /\ date <= date'
  BY <1>1, <1>2, EventsStep DEF Lists
<1>4. /\ CallsInv' /\ LimitInv' /\ DefsInv'
      /\ CallLists(L) => CallLists(L)'
      /\ \A f : Follows(f, L) => Follows(f, L)'
  BY <1>1, <1>3, CallsAtRest
<1>5. ScanInv' /\ ReportInv' /\ ReportBracketed'
  BY <1>1, <1>3, ScansRest
<1>6. ScanLists(L)'
  BY <1>2, <1>3, <1>4, ScanListsKept DEF Lists
<1>7. Lists(L)'
  BY <1>2, <1>3, <1>4, <1>6 DEF Lists
<1>. QED BY <1>3, <1>4, <1>5, <1>7 DEF Inv, EventsInv

-----------------------------------------------------------------------------
(* The steps of the flush and of the report. *)

\* ReportBracketed, of what a report shows.
Bracketed(r) ==
    r.pc = "shown" =>
        /\ \A n \in Levels \ {1} : r.shown[n] <= r.shown[n - 1]
        /\ \A n \in Levels : r.shown[n] <= Cardinality(steps[1][r.id][n]) + Cardinality(steps[2][r.id][n])
        /\ ~r.lost /\ r.day = r.end /\ r.id \in DOMAIN r.got => \A n \in Levels : r.shown[n] >= r.base[n]

\* A scan goes on as q, nothing else moves but the rows of a flush that ends.
Moves(s, q) ==
    /\ DOMAIN scan' = Scanners
    /\ scan'[s] = q
    /\ \A o \in Scanners \ {s} : scan'[o] = scan[o]
    /\ UNCHANGED <<date, trackVars>> /\ CallsRest

MovesWell(s, q) ==
    /\ Moves(s, q)
    /\ ScanOK(q)
    /\ s \in Flushers => FlushOK(q)
    /\ s = "report" => ReportOK(q) /\ Bracketed(q)

LEMMA ScanMoves ==
    ASSUME Inv, NEW s \in Scanners, NEW q, MovesWell(s, q),
           \/ UNCHANGED row
           \/ /\ row' \in [Dates -> [Ids -> Numbers]]
              /\ \A d \in Dates, i \in Ids : Within(row'[d][i], d, i),
           NEW L \in [Ids -> StepLists \cup {<<>>}], Lists(L), ScanFollows(s, q, L)
    PROVE  Inv'
<1>1. /\ CallsInv /\ LimitInv /\ DefsInv /\ EventsInv /\ ScanInv /\ ReportInv /\ ReportBracketed
  BY EventsInside
<1>2. /\ UNCHANGED <<date, names, exact, events, steps, members, state, earned, crossed, task>>
      /\ CallsRest
  BY DEF MovesWell, Moves, trackVars
<1>3. /\ CallsInv' /\ LimitInv' /\ DefsInv'
      /\ CallLists(L) => CallLists(L)'
      /\ \A f : Follows(f, L) => Follows(f, L)'
  BY <1>1, <1>2, CallsAtRest
<1>4. DayInv' /\ GuardInv' /\ StepInv' /\ MemberInv' /\ TablesGrow
  BY <1>1, <1>2, TablesRest
<1>5. EventsInv'
  BY <1>1, <1>2, <1>4, EventsStand DEF EventsInv
<1>6. EventLists(L)'
  BY <1>2 DEF Lists, EventLists, TaskFollows, Follows, CallsRest
<1>7. ASSUME NEW o \in Scanners \ {s} PROVE scan'[o] = scan[o]
  BY DEF MovesWell, Moves
<1>8. scan'[s] = q /\ DOMAIN scan' = Scanners
  BY DEF MovesWell, Moves
<1>9. ScanInv'
  <2>1. /\ row' \in [Dates -> [Ids -> Numbers]]
        /\ \A d \in Dates, i \in Ids : Within(row[d][i], d, i)'
    BY <1>1, <1>2 DEF ScanInv, Within
  <2>2. ASSUME NEW o \in Scanners PROVE ScanOK(scan[o])'
    <3>1. CASE o = s
      BY <1>2, <1>8, <3>1 DEF MovesWell, ScanOK, Within
    <3>2. CASE o # s
      <4>1. scan'[o] = scan[o]
        BY <1>7, <3>2
      <4>. QED BY <1>1, <1>2, <4>1 DEF ScanInv, ScanOK, Within
    <3>. QED BY <3>1, <3>2
  <2>3. ASSUME NEW w \in Flushers PROVE FlushOK(scan[w])'
    <3>1. CASE w = s
      BY <1>2, <1>8, <3>1 DEF MovesWell, FlushOK, Within
    <3>2. CASE w # s
      <4>1. scan'[w] = scan[w]
        BY <1>7, <3>2, TwoKinds
      <4>. QED BY <1>1, <1>2, <4>1 DEF ScanInv, FlushOK, Within
    <3>. QED BY <3>1, <3>2
  <2>. QED BY <1>8, <2>1, <2>2, <2>3 DEF ScanInv
<1>10. PICK r : r = scan'["report"]
  OBVIOUS
<1>11. ReportOK(r) /\ Bracketed(r)
  <2>1. CASE s = "report"
    BY <1>8, <1>10, <2>1 DEF MovesWell
  <2>2. CASE s # "report"
    <3>1. r = scan["report"]
      BY <1>7, <1>10, <2>2 DEF Scanners
    <3>. QED BY <1>1, <3>1 DEF ReportInv, ReportBracketed, Bracketed
  <2>. QED BY <2>1, <2>2
<1>12. ReportInv'
  BY <1>2, <1>10, <1>11 DEF ReportInv, ReportOK, Within
<1>13. ReportBracketed'
  BY <1>2, <1>10, <1>11 DEF ReportBracketed, Bracketed
<1>14. ScanLists(L)'
  <2>. SUFFICES ASSUME NEW o \in Scanners PROVE ScanFollows(o, scan[o], L)'
    BY DEF ScanLists
  <2>1. PICK u : u = scan'[o]
    OBVIOUS
  <2>2. ScanFollows(o, u, L)
    BY <1>7, <1>8, <2>1 DEF Lists, ScanLists
  <2>3. Complete(o, u) => Complete(o, u)'
    BY DEF Complete, Floor
  <2>4. ScanFollows(o, u, L)'
    BY <1>3, <2>2, <2>3 DEF ScanFollows
  <2>. QED BY ZenonT(30), <2>1, <2>4 DEF ScanFollows, Complete, Floor
<1>15. Lists(L)'
  BY <1>3, <1>6, <1>14 DEF Lists
<1>. QED BY <1>3, <1>4, <1>5, <1>9, <1>12, <1>13, <1>15 DEF Inv, EventsInv

LEMMA MovesTo ==
    ASSUME ScanInv, NEW s \in Scanners, NEW q, scan' = [scan EXCEPT ![s] = q],
           UNCHANGED <<date, trackVars>>, CallsRest
    PROVE  Moves(s, q)
BY DEF ScanInv, Moves

LEMMA FieldsThere ==
    /\ DOMAIN NoScan = ScanFields /\ NoScan.pc = "idle" /\ NoScan.day = 1 /\ NoScan.n = 1
    /\ NoScan.lost = FALSE /\ DOMAIN NoScan.left = {} /\ DOMAIN NoScan.got = {}
    /\ Zeros \in Numbers /\ \A n \in Levels : Zeros[n] = 0
    /\ 1 \in Levels /\ MaxSteps \in Nat /\ \A n \in Levels : n \in Nat /\ n >= 1 /\ n <= MaxSteps
<1>1. MaxSteps \in Nat /\ MaxSteps >= 1
  BY ConversionAssumption DEF ConversionAssumption
<1>2. Zeros \in Numbers /\ \A n \in Levels : Zeros[n] = 0
  BY DEF Zeros, Numbers
<1>3. 1 \in Levels /\ \A n \in Levels : n \in Nat /\ n >= 1 /\ n <= MaxSteps
  BY <1>1 DEF Levels
<1>4. DOMAIN NoScan.left = {} /\ DOMAIN NoScan.got = {}
  BY DEF NoScan, NoFunnels
<1>5. DOMAIN NoScan = ScanFields /\ NoScan.pc = "idle" /\ NoScan.day = 1 /\ NoScan.n = 1
      /\ NoScan.lost = FALSE
  BY DEF NoScan, ScanFields
<1>. QED BY <1>1, <1>2, <1>3, <1>4, <1>5

\* A scan that ends is well.
LEMMA EndedWell ==
    ASSUME NEW s, NEW L
    PROVE  /\ ScanOK(NoScan) /\ FlushOK(NoScan) /\ ReportOK(NoScan) /\ Bracketed(NoScan)
           /\ ScanFollows(s, NoScan, L)
BY FieldsThere DEF ScanOK, ScanStages, FlushOK, ReportOK, Bracketed, ScanFollows

LEMMA ScanEnded ==
    ASSUME Inv, NEW s \in Scanners, scan' = [scan EXCEPT ![s] = NoScan],
           UNCHANGED <<date, trackVars, row>>, CallsRest
    PROVE  Inv'
<1>1. Moves(s, NoScan)
  BY EventsInside, MovesTo
<1>2. MovesWell(s, NoScan)
  BY <1>1, EndedWell, FieldsThere DEF MovesWell
<1>3. PICK L \in [Ids -> StepLists \cup {<<>>}] : Lists(L)
  BY EventsInside
<1>. QED BY <1>2, <1>3, EndedWell, ScanMoves

LEMMA FlushStarted ==
    ASSUME Inv, NEW w \in Flushers, NEW d \in Dates, StartFlush(w, d)
    PROVE  Inv'
<1>0. ScanInv /\ w \in Scanners /\ w # "report"
  BY EventsInside, TwoKinds
<1>1. PICK held : held = row[d]
  OBVIOUS
<1>2. PICK q : q = [NoScan EXCEPT !.pc = "defs", !.day = d, !.held = held]
  OBVIOUS
<1>3. /\ DOMAIN q = ScanFields /\ q.pc = "defs" /\ q.day = d /\ q.n = 1 /\ q.lost = FALSE
      /\ DOMAIN q.left = {} /\ DOMAIN q.got = {} /\ q.held = held
  BY <1>2, FieldsThere DEF ScanFields
<1>4. Moves(w, q)
  <2>1. scan' = [scan EXCEPT ![w] = q] /\ UNCHANGED <<date, trackVars>> /\ CallsRest
    BY <1>1, <1>2 DEF StartFlush, BeginScan, CallsRest, conversionVars
  <2>. QED BY <1>0, <2>1, MovesTo
<1>5. FlushOK(q)
  BY <1>0, <1>1, <1>3 DEF ScanInv, FlushOK
<1>6. MovesWell(w, q)
  BY <1>0, <1>3, <1>4, <1>5 DEF MovesWell, ScanOK, ScanStages
<1>7. \A L : ScanFollows(w, q, L)
  BY <1>3 DEF ScanFollows
<1>8. UNCHANGED row
  BY DEF StartFlush, BeginScan
<1>9. PICK L \in [Ids -> StepLists \cup {<<>>}] : Lists(L)
  BY EventsInside
<1>. QED BY <1>0, <1>6, <1>7, <1>8, <1>9, ScanMoves

LEMMA ReportStarted ==
    ASSUME Inv, NEW i \in Ids, StartReport(i)
    PROVE  Inv'
<1>0. CallsInv /\ EventsInv /\ ScanInv /\ date \in Dates /\ 1 \in Dates /\ date <= date
  BY EventsInside DEF EventsInv, DayInv, Dates
<1>1. PICK base : base = StepCounts(date, i)
  OBVIOUS
<1>2. PICK q : q = [NoScan EXCEPT !.pc = "rows", !.id = i, !.end = date, !.base = base]
  OBVIOUS
<1>3. /\ DOMAIN q = ScanFields /\ q.pc = "rows" /\ q.day = 1 /\ q.n = 1 /\ q.lost = FALSE
      /\ DOMAIN q.left = {} /\ DOMAIN q.got = {} /\ q.id = i /\ q.end = date /\ q.base = base
  BY <1>2, FieldsThere DEF ScanFields
<1>4. Moves("report", q)
  <2>1. scan' = [scan EXCEPT !["report"] = q] /\ UNCHANGED <<date, trackVars>> /\ CallsRest
    BY <1>1, <1>2 DEF StartReport, BeginScan, CallsRest, conversionVars
  <2>. QED BY <1>0, <2>1, MovesTo DEF Scanners
<1>5. \A n \in Levels : base[n] = Cardinality(steps[date][i][n]) /\ base[n] \in Nat
  BY <1>0, <1>1, StepSize DEF StepCounts
<1>6. base \in Numbers /\ Within(base, date, i)
  <2>1. base \in Numbers
    BY <1>1, <1>5 DEF StepCounts, Numbers
  <2>. QED BY <1>5, <2>1 DEF Within
<1>7. ASSUME NEW n \in Levels, NEW k \in 1..n PROVE base[n] <= base[k]
  <2>1. k \in Levels
    BY FieldsThere DEF Levels
  <2>2. steps[date][i][n] \subseteq steps[date][i][k]
    BY <1>0 DEF EventsInv, StepInv
  <2>3. IsFiniteSet(steps[date][i][k])
    BY <1>0, <2>1, StepSize
  <2>. QED BY <1>5, <2>1, <2>2, <2>3, SubsetSize
<1>8. MovesWell("report", q)
  <2>1. ScanOK(q)
    BY <1>0, <1>3 DEF ScanOK, ScanStages
  <2>2. ReportOK(q)
    BY <1>0, <1>3, <1>6, <1>7 DEF ReportOK
  <2>. QED BY <1>3, <1>4, <2>1, <2>2, TwoKinds DEF MovesWell, Bracketed
<1>9. \A L : ScanFollows("report", q, L)
  BY <1>3 DEF ScanFollows
<1>10. UNCHANGED row /\ "report" \in Scanners
  BY DEF StartReport, BeginScan, Scanners
<1>11. PICK L \in [Ids -> StepLists \cup {<<>>}] : Lists(L)
  BY EventsInside
<1>. QED BY <1>8, <1>9, <1>10, <1>11, ScanMoves

LEMMA RowsRead ==
    ASSUME Inv, ReadRows
    PROVE  Inv'
<1>0. /\ EventsInv /\ ScanInv /\ ReportInv /\ date \in Dates /\ 1 \in Dates
  BY EventsInside DEF EventsInv, DayInv, Dates
<1>1. PICK r : r = scan["report"]
  OBVIOUS
<1>2. r.pc = "rows" /\ ScanOK(r) /\ ReportOK(r)
  BY <1>0, <1>1 DEF ReadRows, ScanInv, ReportInv, Scanners
<1>3. /\ DOMAIN r = ScanFields /\ DOMAIN r.left = {} /\ DOMAIN r.got = {} /\ r.n = 1 /\ r.lost \in BOOLEAN
      /\ r.id \in Ids /\ r.end \in Dates /\ r.end <= date
  BY <1>2 DEF ScanOK, ReportOK
<1>4. PICK old : old = IF r.end = 1 THEN Zeros ELSE row[1][r.id]
  OBVIOUS
<1>5. PICK stored : stored = row[r.end][r.id]
  OBVIOUS
<1>6. PICK q : q = [r EXCEPT !.pc = "defs", !.day = date, !.stored = stored, !.old = old]
  OBVIOUS
<1>7. /\ DOMAIN q = ScanFields /\ q.pc = "defs" /\ q.day = date /\ q.stored = stored /\ q.old = old
      /\ q.left = r.left /\ q.got = r.got /\ q.n = r.n /\ q.lost = r.lost
      /\ q.id = r.id /\ q.end = r.end /\ q.base = r.base
  BY <1>3, <1>6 DEF ScanFields
<1>8. Moves("report", q)
  <2>1. scan' = [scan EXCEPT !["report"] = q] /\ UNCHANGED <<date, trackVars>> /\ CallsRest
    BY <1>1, <1>4, <1>5, <1>6 DEF ReadRows, CallsRest, conversionVars
  <2>. QED BY <1>0, <2>1, MovesTo DEF Scanners
<1>9. old \in Numbers /\ stored \in Numbers /\ Within(stored, r.end, r.id)
      /\ IF r.end = 1 THEN old = Zeros ELSE Within(old, 1, r.id)
  BY <1>0, <1>3, <1>4, <1>5, FieldsThere DEF ScanInv
<1>10. MovesWell("report", q)
  <2>1. ScanOK(q)
    BY <1>0, <1>3, <1>7 DEF ScanOK, ScanStages
  <2>2. ReportOK(q)
    BY <1>2, <1>3, <1>7, <1>9 DEF ReportOK
  <2>. QED BY <1>7, <1>8, <2>1, <2>2, TwoKinds DEF MovesWell, Bracketed
<1>11. \A L : ScanFollows("report", q, L)
  BY <1>7 DEF ScanFollows
<1>12. UNCHANGED row /\ "report" \in Scanners
  BY DEF ReadRows, Scanners
<1>13. PICK L \in [Ids -> StepLists \cup {<<>>}] : Lists(L)
  BY EventsInside
<1>. QED BY <1>10, <1>11, <1>12, <1>13, ScanMoves

\* The reads of the definitions, lost or not.
LEMMA CountBegins ==
    ASSUME Inv, NEW s \in Scanners, scan[s].pc = "defs", NEW all, NEW lost \in BOOLEAN, NEW q,
           q.pc = "count", q.left = all, q.lost = lost,
           DOMAIN q = ScanFields, \A x \in ScanFields \ {"pc", "left", "lost"} : q[x] = scan[s][x],
           Moves(s, q), UNCHANGED row,
           s = "report" => DOMAIN all \subseteq {scan[s].id},
           NEW L \in [Ids -> StepLists \cup {<<>>}], Lists(L), Follows(all, L)
    PROVE  Inv'
<1>1. PICK r : r = scan[s]
  OBVIOUS
<1>2. ScanOK(r) /\ (s = "report" => ReportOK(r)) /\ (s \in Flushers => FlushOK(r))
  BY <1>1, EventsInside DEF ScanInv, ReportInv
<1>3. /\ DOMAIN r = ScanFields /\ r.pc = "defs" /\ DOMAIN r.left = {} /\ DOMAIN r.got = {} /\ r.n = 1
      /\ r.day \in Dates
  BY <1>1, <1>2 DEF ScanOK
<1>4. /\ q.id = r.id /\ q.end = r.end /\ q.day = r.day /\ q.old = r.old /\ q.stored = r.stored
      /\ q.n = r.n /\ q.got = r.got /\ q.base = r.base /\ q.held = r.held
  BY <1>1 DEF ScanFields
<1>5. ScanOK(q)
  BY <1>3, <1>4 DEF ScanOK, ScanStages
<1>6. s = "report" => ReportOK(q)
  BY <1>1, <1>2, <1>3, <1>4 DEF ReportOK
<1>7. MovesWell(s, q)
  <2>1. s \in Flushers => FlushOK(q)
    BY <1>2, <1>3, <1>4 DEF FlushOK
  <2>. QED BY <1>5, <1>6, <2>1 DEF MovesWell, Bracketed
<1>8. Complete(s, q)
  BY <1>3, <1>4, FieldsThere DEF Complete
<1>9. ScanFollows(s, q, L)
  BY <1>3, <1>4, <1>8 DEF ScanFollows
<1>. QED BY <1>7, <1>9, ScanMoves

LEMMA ScanDefinitionsStep ==
    ASSUME Inv, NEW s \in Scanners, ScanDefinitions(s) \/ ScanDefinitionsFails(s)
    PROVE  Inv'
<1>0. ScanInv /\ DOMAIN scan[s] = ScanFields /\ ScanOK(scan[s]) /\ scan[s].pc = "defs"
  BY EventsInside DEF ScanInv, ScanOK, ScanDefinitions, ScanDefinitionsFails
<1>1. PICK L \in [Ids -> StepLists \cup {<<>>}] : Lists(L)
  BY EventsInside
<1>2. CASE ScanDefinitions(s)
  <2>1. PICK all : all = IF s = "report" THEN Restrict(defs, DOMAIN defs \cap {scan[s].id}) ELSE defs
    OBVIOUS
  <2>2. PICK q : q = [scan[s] EXCEPT !.pc = "count", !.left = all]
    OBVIOUS
  <2>3. /\ q.pc = "count" /\ q.left = all /\ q.lost = scan[s].lost /\ DOMAIN q = ScanFields
        /\ \A x \in ScanFields \ {"pc", "left", "lost"} : q[x] = scan[s][x]
    BY <1>0, <2>2 DEF ScanFields
  <2>4. scan[s].lost \in BOOLEAN
    BY <1>0 DEF ScanOK
  <2>5. Moves(s, q)
    <3>1. scan' = [scan EXCEPT ![s] = q] /\ UNCHANGED <<date, trackVars>> /\ CallsRest
      BY <1>2, <2>1, <2>2 DEF ScanDefinitions, CallsRest, conversionVars
    <3>. QED BY <1>0, <3>1, MovesTo
  <2>6. s = "report" => DOMAIN all \subseteq {scan[s].id}
    BY <2>1 DEF Restrict
  <2>7. Follows(all, L)
    <3>1. Follows(defs, L)
      BY <1>1 DEF Lists, CallLists
    <3>. QED BY <2>1, <3>1 DEF Follows, Restrict
  <2>8. UNCHANGED row
    BY <1>2 DEF ScanDefinitions
  <2>. QED BY <1>0, <1>1, <2>3, <2>4, <2>5, <2>6, <2>7, <2>8, CountBegins
<1>3. CASE ScanDefinitionsFails(s)
  <2>1. PICK all : all = scan[s].left
    OBVIOUS
  <2>2. PICK q : q = [scan[s] EXCEPT !.pc = "count", !.lost = TRUE]
    OBVIOUS
  <2>3. /\ q.pc = "count" /\ q.left = all /\ q.lost = TRUE /\ DOMAIN q = ScanFields
        /\ \A x \in ScanFields \ {"pc", "left", "lost"} : q[x] = scan[s][x]
    BY <1>0, <2>1, <2>2 DEF ScanFields
  <2>4. DOMAIN all = {}
    BY <1>0, <2>1 DEF ScanOK
  <2>5. Moves(s, q)
    <3>1. scan' = [scan EXCEPT ![s] = q] /\ UNCHANGED <<date, trackVars>> /\ CallsRest
      BY <1>3, <2>2 DEF ScanDefinitionsFails, CallsRest
    <3>. QED BY <1>0, <3>1, MovesTo
  <2>6. Follows(all, L)
    BY <2>4 DEF Follows
  <2>8. UNCHANGED row
    BY <1>3 DEF ScanDefinitionsFails
  <2>. QED BY <1>0, <1>1, <2>3, <2>4, <2>5, <2>6, <2>8, CountBegins
<1>. QED BY <1>2, <1>3

LEMMA ScanFailed ==
    ASSUME Inv, NEW s \in Scanners, ScanFails(s) \/ (s = "report" /\ EndReport)
    PROVE  Inv'
<1>1. scan' = [scan EXCEPT ![s] = NoScan] /\ UNCHANGED <<date, trackVars, row>> /\ CallsRest
  BY DEF ScanFails, EndReport, CallsRest, conversionVars
<1>. QED BY <1>1, ScanEnded

\* The next step of a funnel is counted, with c at most what there is, and with what
\* there is unless the read is lost.
LEMMA StepCounted ==
    ASSUME Inv, NEW s \in Scanners, NEW i \in Ids, Counts(s, i),
           NEW c \in Nat, c <= Cardinality(steps[scan[s].day][i][scan[s].n]),
           NEW lost \in BOOLEAN, ~lost => c = Cardinality(steps[scan[s].day][i][scan[s].n]),
           Counted(s, i, c, lost), UNCHANGED <<date, trackVars, row>>, CallsRest
    PROVE  Inv'
<1>0. /\ EventsInv /\ ScanInv /\ ReportInv
  BY EventsInside
<1>1. PICK L \in [Ids -> StepLists \cup {<<>>}] : Lists(L)
  BY EventsInside
<1>2. PICK r : r = scan[s]
  OBVIOUS
<1>3. /\ r.pc = "count" /\ i \in DOMAIN r.left /\ (r.n = 1 \/ i = r.id)
      /\ ScanOK(r) /\ (s = "report" => ReportOK(r)) /\ (s \in Flushers => FlushOK(r))
      /\ ScanFollows(s, r, L)
  BY <1>0, <1>1, <1>2 DEF Counts, ScanInv, ReportInv, Lists, ScanLists
<1>4. /\ DOMAIN r = ScanFields /\ r.day \in Dates /\ r.lost \in BOOLEAN
      /\ DOMAIN r.got \subseteq Ids
      /\ \A j \in DOMAIN r.got : r.got[j] \in Numbers /\ Within(r.got[j], r.day, j)
  BY <1>3 DEF ScanOK
<1>5. Follows(r.left, L) /\ Complete(s, r) /\ (r.n > 1 => r.n <= Len(L[r.id]))
  BY <1>3 DEF ScanFollows
<1>6. PICK n \in Levels : n = r.n
  BY <1>5 DEF Complete
<1>7. n \in Nat /\ n >= 1
  BY FieldsThere
<1>8. r.left[i] = L[i] /\ L[i] \in StepLists
  BY <1>3, <1>5 DEF Follows
<1>9. Len(L[i]) \in Nat /\ Len(L[i]) >= 2 /\ Len(L[i]) <= MaxSteps /\ MaxSteps \in Nat
  BY <1>8, ListLengths
<1>10. n <= Len(L[i])
  BY <1>3, <1>5, <1>6, <1>7, <1>9
<1>11. PICK last \in BOOLEAN : last <=> n = Len(L[i])
  OBVIOUS
<1>12. PICK left : left = IF last THEN Without(r.left, i) ELSE r.left
  OBVIOUS
<1>13. DOMAIN left = (IF last THEN DOMAIN r.left \ {i} ELSE DOMAIN r.left) /\ Follows(left, L)
  <2>1. CASE last
    BY <1>5, <1>12, <2>1, FollowsWithout DEF Without, Restrict
  <2>2. CASE ~last
    BY <1>5, <1>12, <2>2
  <2>. QED BY <2>1, <2>2
<1>14. left = r.left <=> ~last
  BY <1>3, <1>12, <1>13
<1>15. PICK next : next = IF last THEN 1 ELSE n + 1
  OBVIOUS
<1>16. PICK g : g = [Got(s, i) EXCEPT ![n] = c]
  OBVIOUS
<1>17. PICK got : got = With(r.got, i, g)
  OBVIOUS
<1>18. PICK q : q = [r EXCEPT !.id = i, !.left = left, !.lost = r.lost \/ lost, !.n = next, !.got = got]
  OBVIOUS
<1>19. /\ DOMAIN q = ScanFields /\ q.pc = "count" /\ q.id = i /\ q.left = left /\ q.lost = (r.lost \/ lost)
       /\ q.n = next /\ q.got = got /\ q.day = r.day /\ q.end = r.end /\ q.old = r.old
       /\ q.stored = r.stored /\ q.base = r.base /\ q.held = r.held
  BY <1>3, <1>4, <1>18 DEF ScanFields
<1>20. Moves(s, q)
  <2>1. Len(r.left[i]) = Len(L[i])
    BY <1>8
  <2>2. left = IF r.n = Len(r.left[i]) THEN Without(r.left, i) ELSE r.left
    BY <1>6, <1>11, <1>12, <2>1
  <2>3. next = IF left = r.left THEN r.n + 1 ELSE 1
    BY <1>6, <1>14, <1>15
  <2>4. scan' = [scan EXCEPT ![s] = [r EXCEPT !.id = i, !.left = left, !.lost = r.lost \/ lost,
                                              !.n = next, !.got = got]]
    BY <1>2, <1>6, <1>16, <1>17, <2>2, <2>3 DEF Counted
  <2>5. scan' = [scan EXCEPT ![s] = q]
    BY <1>18, <2>4
  <2>. QED BY <1>0, <2>5, MovesTo
<1>21. Got(s, i) \in Numbers /\ Within(Got(s, i), r.day, i)
  <2>1. CASE i \in DOMAIN r.got
    BY <1>2, <1>4, <2>1 DEF Got
  <2>2. CASE i \notin DOMAIN r.got
    <3>1. Got(s, i) = Zeros
      BY <1>2, <2>2 DEF Got
    <3>2. \A k \in Levels : 0 <= Cardinality(steps[r.day][i][k])
      BY <1>0, <1>4, StepSize
    <3>. QED BY <3>1, <3>2, FieldsThere DEF Within
  <2>. QED BY <2>1, <2>2
<1>22. /\ g \in Numbers /\ g[n] = c
       /\ \A k \in Levels \ {n} : g[k] = Got(s, i)[k]
  <2>1. PICK h \in Numbers : h = Got(s, i)
    BY <1>21
  <2>2. g = [h EXCEPT ![n] = c]
    BY <1>16, <2>1
  <2>. QED BY <2>1, <2>2 DEF Numbers
<1>23. Within(g, r.day, i)
  <2>1. c <= Cardinality(steps[r.day][i][n])
    BY <1>2, <1>6
  <2>. QED BY <1>21, <1>22, <2>1 DEF Within
<1>24. DOMAIN got = DOMAIN r.got \cup {i} /\ got[i] = g /\ \A j \in DOMAIN r.got \ {i} : got[j] = r.got[j]
  BY <1>17 DEF With
<1>25. next \in Levels
  <2>1. CASE last
    BY <1>15, <2>1, FieldsThere
  <2>2. CASE ~last
    <3>1. n + 1 \in 1..MaxSteps
      BY <1>7, <1>9, <1>10, <1>11, <2>2
    <3>. QED BY <1>15, <2>2, <3>1 DEF Levels
  <2>. QED BY <2>1, <2>2
<1>26. ScanOK(q)
  <2>1. ASSUME NEW j \in DOMAIN got PROVE j \in Ids /\ got[j] \in Numbers /\ Within(got[j], r.day, j)
    <3>1. CASE j = i
      BY <1>22, <1>23, <1>24, <3>1
    <3>2. CASE j # i
      BY <1>4, <1>24, <3>2
    <3>. QED BY <3>1, <3>2
  <2>2. q.lost \in BOOLEAN
    BY <1>4, <1>19
  <2>. QED BY <1>4, <1>19, <2>1, <2>2 DEF ScanOK, ScanStages
<1>27. ASSUME s = "report" PROVE ReportOK(q)
  <2>1. ReportOK(r) /\ DOMAIN r.left \subseteq {r.id} /\ DOMAIN r.got \subseteq {r.id}
    BY <1>3, <1>27 DEF ReportOK
  <2>2. i = r.id
    BY <1>3, <2>1
  <2>3. DOMAIN left \subseteq {i} /\ DOMAIN got \subseteq {i}
    BY <1>13, <1>24, <2>1, <2>2
  <2>. QED BY <1>3, <1>19, <2>1, <2>2, <2>3 DEF ReportOK
<1>28. MovesWell(s, q)
  <2>1. s \in Flushers => FlushOK(q)
    BY <1>3, <1>19 DEF FlushOK
  <2>. QED BY <1>19, <1>20, <1>26, <1>27, <2>1 DEF MovesWell, Bracketed
<1>29. Floor(s, q) = Floor(s, r)
  BY <1>19 DEF Floor
<1>30. \A k \in Levels : Floor(s, r)[i][k] \in Nat /\ Floor(s, r)[i][k] <= Cardinality(steps[r.day][i][k])
  <2>. SUFFICES ASSUME NEW k \in Levels
                PROVE  Floor(s, r)[i][k] \in Nat /\ Floor(s, r)[i][k] <= Cardinality(steps[r.day][i][k])
    OBVIOUS
  <2>1. CASE s \in Flushers
    <3>1. Floor(s, r)[i] = r.held[i]
      BY <2>1 DEF Floor
    <3>2. r.held[i] \in Numbers /\ Within(r.held[i], r.day, i)
      BY <1>3, <2>1 DEF FlushOK
    <3>. QED BY <3>1, <3>2 DEF Numbers, Within
  <2>2. CASE s \notin Flushers /\ r.day = r.end
    <3>1. Floor(s, r)[i] = r.base
      BY <2>2 DEF Floor
    <3>2. s = "report"
      BY <2>2, TwoKinds
    <3>3. r.base \in Numbers /\ Within(r.base, r.day, r.id) /\ i = r.id
      BY <1>3, <2>2, <3>2 DEF ReportOK
    <3>. QED BY <3>1, <3>3 DEF Numbers, Within
  <2>3. CASE s \notin Flushers /\ r.day # r.end
    <3>1. Floor(s, r)[i] = Zeros
      BY <2>3 DEF Floor
    <3>. QED BY <1>0, <1>4, <3>1, FieldsThere, StepSize
  <2>. QED BY <2>1, <2>2, <2>3
<1>31. ASSUME ~q.lost, NEW k \in 1..n PROVE g[k] >= Floor(s, r)[i][k]
  <2>0. k \in Levels
    BY <1>7, FieldsThere DEF Levels
  <2>1. CASE k = n
    <3>1. c = Cardinality(steps[r.day][i][n])
      BY <1>2, <1>6, <1>19, <1>31
    <3>. QED BY <1>22, <1>30, <2>1, <3>1
  <2>2. CASE k # n
    <3>1. n > 1 /\ k \in 1..n - 1
      BY <1>7, <2>2
    <3>2. i = r.id /\ i \in DOMAIN r.got /\ r.got[i][k] >= Floor(s, r)[i][k]
      <4>1. r.n > 1 /\ ~r.lost
        BY <1>4, <1>6, <1>19, <1>31, <3>1
      <4>2. i = r.id
        BY <1>3, <1>6, <3>1
      <4>3. i \in DOMAIN r.got
        BY <1>5, <4>1, <4>2 DEF Complete
      <4>4. k \in 1..r.n - 1
        BY <1>6, <3>1
      <4>. QED BY <1>3, <1>5, <4>1, <4>2, <4>3, <4>4 DEF Complete
    <3>3. g[k] = r.got[i][k]
      BY <1>2, <1>22, <2>0, <2>2, <3>2 DEF Got
    <3>. QED BY <3>2, <3>3
  <2>. QED BY <2>1, <2>2
<1>32. Complete(s, q)
  <2>1. next > 1 => i \in DOMAIN left /\ i \in DOMAIN got
    BY <1>3, <1>13, <1>15, <1>24
  <2>2. ASSUME ~q.lost, NEW j \in DOMAIN got, j \in DOMAIN left
        PROVE  j = i /\ next > 1 /\ \A k \in 1..next - 1 : got[j][k] >= Floor(s, r)[j][k]
    <3>1. CASE j # i
      <4>1. j \in DOMAIN r.got /\ j \in DOMAIN r.left
        BY <1>13, <1>24, <2>2, <3>1
      <4>2. j = r.id /\ r.n > 1
        BY <1>5, <1>19, <2>2, <4>1 DEF Complete
      <4>. QED BY <1>3, <3>1, <4>2
    <3>2. CASE j = i
      <4>1. ~last /\ next = n + 1
        BY <1>13, <1>15, <2>2, <3>2
      <4>2. next > 1 /\ next - 1 = n
        BY <1>7, <4>1
      <4>. QED BY <1>24, <1>31, <2>2, <3>2, <4>2
    <3>. QED BY <3>1, <3>2
  <2>3. ASSUME ~q.lost, NEW j \in DOMAIN got, j \notin DOMAIN left, NEW k \in Levels
        PROVE  got[j][k] >= Floor(s, r)[j][k]
    <3>1. CASE j # i
      <4>1. j \in DOMAIN r.got /\ j \notin DOMAIN r.left /\ got[j] = r.got[j]
        BY <1>13, <1>24, <2>3, <3>1
      <4>. QED BY <1>5, <1>19, <2>3, <4>1 DEF Complete
    <3>2. CASE j = i
      <4>1. last
        BY <1>3, <1>13, <2>3, <3>2
      <4>2. CASE k <= n
        <5>1. k \in 1..n
          BY <1>7, <4>2, FieldsThere
        <5>. QED BY <1>24, <1>31, <2>3, <3>2, <5>1
      <4>3. CASE ~(k <= n)
        <5>1. k > Len(L[i])
          BY <1>7, <1>11, <4>1, <4>3, FieldsThere
        <5>2. steps[r.day][i][k] = {}
          BY <1>1, <1>4, <5>1 DEF Lists, EventLists
        <5>3. Cardinality(steps[r.day][i][k]) = 0
          BY <5>2, FS_EmptySet
        <5>4. Floor(s, r)[i][k] = 0
          BY <1>30, <5>3
        <5>5. g[k] \in Nat
          BY <1>22 DEF Numbers
        <5>. QED BY <1>24, <3>2, <5>4, <5>5
      <4>. QED BY <4>2, <4>3
    <3>. QED BY <3>1, <3>2
  <2>. QED BY <1>19, <1>25, <1>29, <2>1, <2>2, <2>3 DEF Complete
<1>33. ScanFollows(s, q, L)
  <2>1. next > 1 => next <= Len(L[i])
    BY <1>7, <1>9, <1>10, <1>11, <1>15
  <2>. QED BY <1>13, <1>19, <1>32, <2>1 DEF ScanFollows
<1>. QED BY <1>1, <1>28, <1>33, ScanMoves

LEMMA CountSteps ==
    ASSUME Inv, NEW s \in Scanners, NEW i \in Ids, CountStep(s, i) \/ CountFails(s, i)
    PROVE  Inv'
<1>0. EventsInv /\ ScanInv /\ Counts(s, i) /\ scan[s].pc = "count"
  BY EventsInside DEF CountStep, CountFails, Counts
<1>1. scan[s].day \in Dates /\ scan[s].n \in Levels
  <2>1. scan[s].day \in Dates
    BY <1>0 DEF ScanInv, ScanOK
  <2>2. PICK L \in [Ids -> StepLists \cup {<<>>}] : Lists(L)
    BY EventsInside
  <2>3. Complete(s, scan[s])
    BY <1>0, <2>2 DEF Lists, ScanLists, ScanFollows
  <2>. QED BY <2>1, <2>3 DEF Complete
<1>2. PICK c : c = Cardinality(steps[scan[s].day][i][scan[s].n])
  OBVIOUS
<1>3. c \in Nat
  BY <1>0, <1>1, <1>2, StepSize
<1>4. CASE CountStep(s, i)
  <2>1. PICK lost \in BOOLEAN : lost = FALSE
    OBVIOUS
  <2>2. Counted(s, i, c, lost) /\ UNCHANGED <<date, trackVars, row>> /\ CallsRest
    BY <1>2, <1>4, <2>1 DEF CountStep, DayOf, CallsRest, conversionVars
  <2>3. c <= Cardinality(steps[scan[s].day][i][scan[s].n])
    BY <1>2, <1>3
  <2>. QED BY <1>0, <1>2, <1>3, <2>2, <2>3, StepCounted
<1>5. CASE CountFails(s, i)
  <2>1. PICK lost \in BOOLEAN : lost = TRUE
    OBVIOUS
  <2>2. Counted(s, i, 0, lost) /\ UNCHANGED <<date, trackVars, row>> /\ CallsRest
    BY <1>5, <2>1 DEF CountFails, CallsRest
  <2>3. 0 \in Nat /\ 0 <= Cardinality(steps[scan[s].day][i][scan[s].n])
    BY <1>2, <1>3
  <2>4. ~lost => 0 = Cardinality(steps[scan[s].day][i][scan[s].n])
    BY <2>1
  <2>. QED BY <1>0, <2>2, <2>3, <2>4, StepCounted
<1>. QED BY <1>4, <1>5

LEMMA Upserted ==
    ASSUME Inv, NEW w \in Flushers, UpsertSteps(w)
    PROVE  Inv'
<1>0. EventsInv /\ ScanInv /\ w \in Scanners /\ w # "report"
  BY EventsInside, TwoKinds
<1>1. PICK L \in [Ids -> StepLists \cup {<<>>}] : Lists(L)
  BY EventsInside
<1>2. PICK r : r = scan[w]
  OBVIOUS
<1>3. r.pc = "count" /\ r.day \in Dates /\ ScanOK(r)
  BY <1>0, <1>2 DEF UpsertSteps, ScanInv, ScanOK
<1>4. ASSUME NEW i \in Ids PROVE Got(w, i) \in Numbers /\ Within(Got(w, i), r.day, i)
  <2>1. CASE i \in DOMAIN r.got
    BY <1>2, <1>3, <2>1 DEF Got, ScanOK
  <2>2. CASE i \notin DOMAIN r.got
    <3>1. Got(w, i) = Zeros
      BY <1>2, <2>2 DEF Got
    <3>2. \A k \in Levels : 0 <= Cardinality(steps[r.day][i][k])
      BY <1>0, <1>3, StepSize
    <3>. QED BY <3>1, <3>2, FieldsThere DEF Within
  <2>. QED BY <2>1, <2>2
<1>5. PICK x : x = [i \in Ids |-> Got(w, i)]
  OBVIOUS
<1>6. x \in [Ids -> Numbers] /\ \A i \in Ids : Within(x[i], r.day, i)
  BY <1>4, <1>5
<1>7. row' = [row EXCEPT ![r.day] = x] /\ row \in [Dates -> [Ids -> Numbers]]
  BY <1>0, <1>2, <1>5 DEF UpsertSteps, ScanInv
<1>8. row' \in [Dates -> [Ids -> Numbers]]
  BY <1>3, <1>6, <1>7
<1>9. \A d \in Dates, i \in Ids : Within(row'[d][i], d, i)
  <2>. SUFFICES ASSUME NEW d \in Dates, NEW i \in Ids PROVE Within(row'[d][i], d, i)
    OBVIOUS
  <2>1. CASE d = r.day
    BY <1>3, <1>6, <1>7, <2>1
  <2>2. CASE d # r.day
    BY <1>0, <1>7, <2>2 DEF ScanInv
  <2>. QED BY <2>1, <2>2
<1>10. Moves(w, NoScan)
  <2>1. scan' = [scan EXCEPT ![w] = NoScan] /\ UNCHANGED <<date, trackVars>> /\ CallsRest
    BY DEF UpsertSteps, CallsRest, conversionVars
  <2>. QED BY <1>0, <2>1, MovesTo
<1>11. MovesWell(w, NoScan)
  BY <1>10, EndedWell, FieldsThere DEF MovesWell
<1>. QED BY <1>0, <1>1, <1>8, <1>9, <1>11, EndedWell, FieldsThere, ScanMoves

\* What normalizeFunnelCounts makes of the counts.
LEMMA LeastOf ==
    ASSUME NEW T \in SUBSET Nat, T # {}
    PROVE  Min(T) \in T /\ \A k \in T : Min(T) <= k
<1>1. \E m \in T : \A k \in T : m <= k
  BY LeastNumber
<1>. QED BY <1>1 DEF Min

LEMMA NormalizedCounts ==
    ASSUME NEW x \in Numbers, NEW n \in Levels
    PROVE  /\ Normalize(x) \in Numbers
           /\ Normalize(x)[n] <= x[n]
           /\ \E k \in 1..n : k \in Levels /\ Normalize(x)[n] = x[k]
           /\ n # 1 => n - 1 \in Levels /\ Normalize(x)[n] <= Normalize(x)[n - 1]
<1>1. \A m \in Levels : \A k \in 1..m : k \in Levels
  BY FieldsThere DEF Levels
<1>2. \A m \in Levels : m \in 1..m
  BY FieldsThere
<1>3. ASSUME NEW m \in Levels
      PROVE  {x[k] : k \in 1..m} \in SUBSET Nat /\ {x[k] : k \in 1..m} # {}
  BY <1>1, <1>2 DEF Numbers
<1>4. ASSUME NEW m \in Levels
      PROVE  /\ Normalize(x)[m] \in {x[k] : k \in 1..m}
             /\ \A y \in {x[k] : k \in 1..m} : Normalize(x)[m] <= y
  <2>1. Normalize(x)[m] = Min({x[k] : k \in 1..m})
    BY DEF Normalize
  <2>. QED BY <1>3, <2>1, LeastOf
<1>5. Normalize(x) \in Numbers
  <2>1. \A m \in Levels : Normalize(x)[m] \in Nat
    BY <1>3, <1>4
  <2>. QED BY <2>1 DEF Normalize, Numbers
<1>6. ASSUME n # 1 PROVE n - 1 \in Levels /\ Normalize(x)[n] <= Normalize(x)[n - 1]
  <2>1. n - 1 \in Levels /\ \A k \in 1..n - 1 : k \in 1..n
    BY <1>6, FieldsThere DEF Levels
  <2>2. Normalize(x)[n - 1] \in {x[k] : k \in 1..n}
    BY <1>4, <2>1
  <2>. QED BY <1>4, <2>1, <2>2
<1>7. \E k \in 1..n : k \in Levels /\ Normalize(x)[n] = x[k]
  BY <1>1, <1>4
<1>. QED BY <1>2, <1>4, <1>5, <1>6, <1>7

LEMMA ReportShown ==
    ASSUME Inv, Show
    PROVE  Inv'
<1>0. EventsInv /\ ScanInv /\ ReportInv /\ "report" \in Scanners /\ Dates = {1, 2}
  BY EventsInside DEF Scanners, Dates
<1>1. PICK L \in [Ids -> StepLists \cup {<<>>}] : Lists(L)
  BY EventsInside
<1>2. PICK r : r = scan["report"]
  OBVIOUS
<1>3. r.pc = "count" /\ ScanOK(r) /\ ReportOK(r) /\ ScanFollows("report", r, L) /\ DOMAIN r.left = {}
  BY <1>0, <1>1, <1>2 DEF Show, ScanInv, ReportInv, Lists, ScanLists, NoFunnels
<1>4. /\ DOMAIN r = ScanFields /\ r.day \in Dates /\ r.lost \in BOOLEAN
      /\ DOMAIN r.got \subseteq Ids
      /\ \A j \in DOMAIN r.got : r.got[j] \in Numbers /\ Within(r.got[j], r.day, j)
  BY <1>3 DEF ScanOK
<1>5. PICK i \in Ids : i = r.id
  BY <1>3 DEF ReportOK
<1>6. /\ r.end \in Dates /\ r.end <= r.day /\ r.old \in Numbers /\ r.stored \in Numbers
      /\ Within(r.stored, r.end, i)
      /\ IF r.end = 1 THEN r.old = Zeros ELSE Within(r.old, 1, i)
      /\ r.base \in Numbers /\ \A n \in Levels : \A k \in 1..n : r.base[n] <= r.base[k]
  BY <1>3, <1>5 DEF ReportOK
<1>7. Complete("report", r)
  BY <1>3 DEF ScanFollows
<1>8. PICK g : g = Got("report", i)
  OBVIOUS
<1>9. g \in Numbers /\ Within(g, r.day, i) /\ (i \in DOMAIN r.got => g = r.got[i])
  <2>1. CASE i \in DOMAIN r.got
    BY <1>2, <1>4, <1>8, <2>1 DEF Got
  <2>2. CASE i \notin DOMAIN r.got
    <3>1. g = Zeros
      BY <1>2, <1>8, <2>2 DEF Got
    <3>2. \A k \in Levels : 0 <= Cardinality(steps[r.day][i][k])
      BY <1>0, <1>4, StepSize
    <3>. QED BY <2>2, <3>1, <3>2, FieldsThere DEF Within
  <2>. QED BY <2>1, <2>2
<1>10. PICK today : today = MaxStepCounts(r.stored, g)
  OBVIOUS
<1>11. \A n \in Levels : today[n] = IF r.stored[n] > g[n] THEN r.stored[n] ELSE g[n]
  BY <1>10 DEF MaxStepCounts
<1>12. PICK x : x = [n \in Levels |-> r.old[n] + today[n]]
  OBVIOUS
<1>13. \A n \in Levels : /\ r.old[n] \in Nat /\ today[n] \in Nat /\ today[n] >= g[n] /\ g[n] \in Nat
                         /\ x[n] = r.old[n] + today[n]
  BY <1>6, <1>9, <1>11, <1>12 DEF Numbers
<1>14. x \in Numbers
  BY <1>12, <1>13 DEF Numbers
<1>15. PICK shown : shown = Normalize(x)
  OBVIOUS
<1>16. shown \in Numbers
  BY <1>14, <1>15, FieldsThere, NormalizedCounts
<1>17. PICK q : q = [r EXCEPT !.pc = "shown", !.shown = shown]
  OBVIOUS
<1>18. /\ DOMAIN q = ScanFields /\ q.pc = "shown" /\ q.shown = shown /\ q.id = r.id /\ q.end = r.end
       /\ q.day = r.day /\ q.old = r.old /\ q.stored = r.stored /\ q.left = r.left /\ q.n = r.n
       /\ q.got = r.got /\ q.lost = r.lost /\ q.base = r.base /\ q.held = r.held
  BY <1>4, <1>17 DEF ScanFields
<1>19. Moves("report", q)
  <2>1. scan' = [scan EXCEPT !["report"] = q]
    BY <1>2, <1>5, <1>8, <1>10, <1>12, <1>15, <1>17 DEF Show
  <2>2. UNCHANGED <<date, trackVars>> /\ CallsRest
    BY DEF Show, CallsRest, conversionVars
  <2>. QED BY <1>0, <2>1, <2>2, MovesTo
<1>20. ScanOK(q)
  BY <1>3, <1>4, <1>18 DEF ScanOK, ScanStages
<1>21. ReportOK(q)
  BY <1>3, <1>16, <1>18 DEF ReportOK
<1>22. ASSUME NEW n \in Levels
       PROVE  x[n] <= Cardinality(steps[1][i][n]) + Cardinality(steps[2][i][n])
  <2>1. PICK a \in Nat : a = Cardinality(steps[1][i][n])
    BY <1>0, StepSize
  <2>2. PICK b \in Nat : b = Cardinality(steps[2][i][n])
    BY <1>0, StepSize
  <2>3. r.stored[n] \in Nat /\ g[n] \in Nat /\ r.old[n] \in Nat
    BY <1>6, <1>13 DEF Numbers
  <2>4. r.stored[n] <= Cardinality(steps[r.end][i][n]) /\ g[n] <= Cardinality(steps[r.day][i][n])
    BY <1>6, <1>9 DEF Within
  <2>5. today[n] \in {r.stored[n], g[n]}
    BY <1>11
  <2>6. CASE r.end = 1
    <3>1. r.old[n] = 0
      BY <1>6, <2>6, FieldsThere
    <3>2. r.stored[n] <= a /\ (g[n] <= a \/ g[n] <= b)
      BY <1>0, <1>4, <2>1, <2>2, <2>4, <2>6
    <3>3. today[n] <= a + b
      BY <2>3, <2>5, <3>2
    <3>. QED BY <1>13, <2>1, <2>2, <3>1, <3>3
  <2>7. CASE r.end = 2
    <3>1. r.day = 2
      BY <1>0, <1>4, <1>6, <2>7
    <3>2. r.old[n] <= a
      BY <1>6, <2>1, <2>7 DEF Within
    <3>3. r.stored[n] <= b /\ g[n] <= b
      BY <2>2, <2>4, <2>7, <3>1
    <3>4. today[n] <= b
      BY <2>5, <3>3
    <3>. QED BY <1>13, <2>1, <2>2, <2>3, <3>2, <3>4
  <2>. QED BY <1>0, <1>6, <2>6, <2>7
<1>23. Bracketed(q)
  <2>1. ASSUME NEW n \in Levels \ {1} PROVE shown[n] <= shown[n - 1]
    BY <1>14, <1>15, NormalizedCounts
  <2>2. ASSUME NEW n \in Levels
        PROVE  shown[n] <= Cardinality(steps[1][i][n]) + Cardinality(steps[2][i][n])
    <3>1. shown[n] <= x[n] /\ shown[n] \in Nat /\ x[n] \in Nat
      BY <1>14, <1>15, <1>16, NormalizedCounts DEF Numbers
    <3>2. Cardinality(steps[1][i][n]) \in Nat /\ Cardinality(steps[2][i][n]) \in Nat
      BY <1>0, StepSize
    <3>. QED BY <1>22, <3>1, <3>2
  <2>3. ASSUME ~r.lost, r.day = r.end, i \in DOMAIN r.got, NEW n \in Levels
        PROVE  shown[n] >= r.base[n]
    <3>1. PICK k \in 1..n : k \in Levels /\ shown[n] = x[k]
      BY <1>14, <1>15, NormalizedCounts
    <3>2. r.got[i][k] >= Floor("report", r)[i][k]
      BY <1>3, <1>7, <2>3, <3>1 DEF Complete
    <3>3. Floor("report", r)[i] = r.base
      BY <2>3, TwoKinds DEF Floor
    <3>4. r.base[k] \in Nat /\ r.base[n] \in Nat /\ r.base[n] <= r.base[k]
      BY <1>6, <3>1 DEF Numbers
    <3>5. x[k] \in Nat /\ x[k] >= g[k] /\ g[k] \in Nat
      BY <1>13, <1>14, <3>1 DEF Numbers
    <3>. QED BY <1>9, <2>3, <3>1, <3>2, <3>3, <3>4, <3>5
  <2>. QED BY <1>5, <1>18, <2>1, <2>2, <2>3 DEF Bracketed
<1>24. MovesWell("report", q)
  BY <1>19, <1>20, <1>21, <1>23, TwoKinds DEF MovesWell
<1>25. ScanFollows("report", q, L)
  <2>1. Floor("report", q) = Floor("report", r)
    BY <1>18 DEF Floor
  <2>2. Complete("report", q)
    BY <1>7, <1>18, <2>1 DEF Complete
  <2>. QED BY <1>18, <2>2 DEF ScanFollows
<1>26. UNCHANGED row
  BY DEF Show
<1>. QED BY <1>0, <1>1, <1>24, <1>25, <1>26, ScanMoves

-----------------------------------------------------------------------------
(* The theorems. *)

LEMMA Stutter ==
    ASSUME Inv, UNCHANGED funnelVars
    PROVE  Inv'
<1>1. CallsRest /\ UNCHANGED <<date, trackVars, row, scan>>
  BY DEF funnelVars, conversionVars, scanVars, CallsRest
<1>2. PICK L \in [Ids -> StepLists \cup {<<>>}] : Lists(L)
  BY EventsInside
<1>3. PICK q : q = scan["report"]
  OBVIOUS
<1>4. "report" \in Scanners /\ ScanInv /\ ReportInv /\ ReportBracketed
  BY EventsInside DEF Scanners
<1>5. MovesWell("report", q)
  BY <1>1, <1>3, <1>4, TwoKinds DEF MovesWell, Moves, ScanInv, ReportInv, ReportBracketed, Bracketed
<1>6. ScanFollows("report", q, L)
  BY <1>2, <1>3, <1>4 DEF Lists, ScanLists
<1>. QED BY <1>1, <1>2, <1>4, <1>5, <1>6, ScanMoves

LEMMA Next ==
    Inv /\ [FunnelNext]_funnelVars => Inv'
<1>. SUFFICES ASSUME Inv, [FunnelNext]_funnelVars PROVE Inv'
  OBVIOUS
<1>1. ASSUME NEW m \in Managers, Continue(m) \/ Start(m), UNCHANGED <<date, trackVars, scanVars>>
      PROVE  Inv'
  BY <1>1, ManagerStep
<1>2. CASE (\E t \in Tasks : Track(t)) \/ Midnight \/ (\E i \in Ids, v \in Visitors : Expire(i, v))
  BY <1>2, EventStep
<1>3. CASE ScanStep
  <2>1. ASSUME NEW w \in Flushers, NEW d \in Dates, StartFlush(w, d) PROVE Inv'
    BY <2>1, FlushStarted
  <2>2. ASSUME NEW i \in Ids, StartReport(i) PROVE Inv'
    BY <2>2, ReportStarted
  <2>3. CASE ReadRows
    BY <2>3, RowsRead
  <2>4. ASSUME NEW w \in Flushers, UpsertSteps(w) PROVE Inv'
    BY <2>4, Upserted
  <2>5. CASE Show
    BY <2>5, ReportShown
  <2>6. CASE EndReport
    BY <2>6, ScanFailed DEF Scanners
  <2>7. ASSUME NEW s \in Scanners, ScanDefinitions(s) \/ ScanDefinitionsFails(s) PROVE Inv'
    BY <2>7, ScanDefinitionsStep
  <2>8. ASSUME NEW s \in Scanners, ScanFails(s) PROVE Inv'
    BY <2>8, ScanFailed
  <2>9. ASSUME NEW s \in Scanners, NEW i \in Ids, CountStep(s, i) \/ CountFails(s, i) PROVE Inv'
    BY <2>9, CountSteps
  <2>. QED BY <1>3, <2>1, <2>2, <2>3, <2>4, <2>5, <2>6, <2>7, <2>8, <2>9 DEF ScanStep
<1>4. CASE UNCHANGED funnelVars
  BY <1>4, Stutter
<1>. QED BY <1>1, <1>2, <1>3, <1>4 DEF FunnelNext

LEMMA Init ==
    FunnelInit => Inv
<1>. SUFFICES ASSUME FunnelInit PROVE Inv
  OBVIOUS
<1>. USE FieldsThere, Caps
<1>1. CallsInv /\ LimitInv /\ DefsInv
  BY CallsStart DEF FunnelInit
<1>2. PICK L \in [Ids -> StepLists \cup {<<>>}] : CallLists(L)
  BY CallsStart DEF FunnelInit
<1>3. /\ date = 1 /\ crossed = 0
      /\ names = [d \in Dates |-> {}]
      /\ events = [d \in Dates |-> [e \in AnyName |-> [count |-> 0, who |-> {}]]]
      /\ steps = [d \in Dates |-> [i \in Ids |-> [n \in Levels |-> {}]]]
      /\ members = [d \in Dates |-> [f \in {} |-> {}]]
      /\ state = [i \in Ids |-> [v \in Visitors |-> NoState]]
      /\ task = [t \in Tasks |-> NoTask]
      /\ row = [d \in Dates |-> [i \in Ids |-> Zeros]]
      /\ scan = [r \in Scanners |-> NoScan]
      /\ earned = [i \in Ids |-> [v \in Visitors |-> 0]]
  BY DEF FunnelInit, AnyName
<1>4. PICK S \in {{}, Strangers} : exact = [d \in Dates |-> S]
  BY DEF FunnelInit
<1>5. NoState \in [reached : 0..MaxSteps, seg : AnySegment, day : Dates] /\ NoState.reached = 0
  BY DEF NoState, AnySegment, Dates
<1>6. Dates = {1, 2}
  BY DEF Dates
<1>7. Cardinality({}) = 0 /\ IsFiniteSet({})
  BY FS_EmptySet
<1>8. DayInv
  BY <1>3, <1>4, <1>5, <1>6 DEF DayInv
<1>9. TaskInv /\ WriteInv
  BY <1>3, IdleFine DEF TaskInv, WriteInv
<1>10. GuardInv
  <2>1. IsFiniteSet(S) /\ Cardinality(S) <= VisitorLimit
    <3>1. IsFiniteSet(Strangers) /\ Cardinality(Strangers) <= VisitorLimit
      BY FunnelAssumption DEF FunnelAssumption
    <3>2. CASE S = {}
      BY <1>7, <3>2
    <3>3. CASE S = Strangers
      BY <3>1, <3>3
    <3>. QED BY <3>2, <3>3
  <2>2. \A d \in Dates : Unguarded(d) = {}
    BY <1>3 DEF Unguarded, AnyName
  <2>3. \A d \in Dates : DOMAIN members[d] = {} /\ names[d] = {} /\ exact[d] = S
    BY <1>3, <1>4
  <2>4. \A d \in Dates, e \in AnyName : events[d][e].who = {}
    BY <1>3
  <2>. SUFFICES ASSUME NEW d \in Dates
                PROVE  /\ IsFiniteSet(names[d]) /\ Cardinality(names[d]) <= NameLimit
                       /\ IsFiniteSet(exact[d]) /\ Cardinality(exact[d]) <= VisitorLimit
                       /\ \A e \in AnyName : events[d][e].who \subseteq exact[d]
                       /\ IsFiniteSet(Unguarded(d)) /\ Cardinality(Unguarded(d)) <= crossed
                       /\ IsFiniteSet(DOMAIN members[d]) /\ Cardinality(DOMAIN members[d]) <= SegmentLimit
    BY DEF GuardInv
  <2>5. IsFiniteSet(names[d]) /\ Cardinality(names[d]) = 0
    BY <1>7, <2>3
  <2>6. IsFiniteSet(Unguarded(d)) /\ Cardinality(Unguarded(d)) = 0
    BY <1>7, <2>2
  <2>7. IsFiniteSet(DOMAIN members[d]) /\ Cardinality(DOMAIN members[d]) = 0
    BY <1>7, <2>3
  <2>8. \A e \in AnyName : events[d][e].who \subseteq exact[d]
    BY <2>4
  <2>. QED BY <1>3, <2>1, <2>3, <2>5, <2>6, <2>7, <2>8
<1>11. StepInv /\ MemberInv
  <2>1. \A d \in Dates, i \in Ids, n \in Levels : steps[d][i][n] = {}
    BY <1>3
  <2>2. \A i \in Ids, v \in Visitors : state[i][v].reached = 0 /\ earned[i][v] = 0
    BY <1>3, <1>5
  <2>3. \A d \in Dates : DOMAIN members[d] = {}
    BY <1>3
  <2>. QED BY <2>1, <2>2, <2>3 DEF StepInv, MemberInv
<1>12. ScanInv /\ ReportInv /\ ReportBracketed
  <2>1. \A d \in Dates, i \in Ids : row[d][i] = Zeros /\ \A n \in Levels : Cardinality(steps[d][i][n]) = 0
    BY <1>3, <1>7
  <2>2. \A d \in Dates, i \in Ids : Within(row[d][i], d, i)
    BY <2>1 DEF Within
  <2>3. row \in [Dates -> [Ids -> Numbers]]
    BY <1>3
  <2>4. DOMAIN scan = Scanners /\ \A s \in Scanners : scan[s] = NoScan
    BY <1>3
  <2>5. \A s \in Scanners : ScanOK(scan[s])
    BY <2>4, EndedWell
  <2>6. scan["report"].pc = "idle" /\ \A w \in Flushers : FlushOK(scan[w])
    BY <2>4, TwoKinds, EndedWell
  <2>. QED BY <2>2, <2>3, <2>4, <2>5, <2>6 DEF ScanInv, ReportInv, ReportOK, ReportBracketed
<1>13. Lists(L)
  <2>1. \A i \in Ids : Len(L[i]) \in Nat
    BY ListLength
  <2>2. EventLists(L)
    <3>1. \A t \in Tasks : TaskFollows(task[t], L)
      BY <1>3, IdleFine
    <3>2. \A i \in Ids, v \in Visitors : state[i][v].reached <= Len(L[i])
      BY <1>3, <1>5, <2>1
    <3>3. \A i \in Ids, d \in Dates, n \in Levels : steps[d][i][n] = {}
      BY <1>3
    <3>. QED BY <3>1, <3>2, <3>3 DEF EventLists
  <2>3. ScanLists(L)
    BY <1>3, EndedWell DEF ScanLists
  <2>. QED BY <1>2, <2>2, <2>3 DEF Lists
<1>. QED BY <1>1, <1>8, <1>9, <1>10, <1>11, <1>12, <1>13 DEF Inv

LEMMA Invariance ==
    FunnelSpec => []Inv
<1>. QED BY Init, Next, PTL DEF FunnelSpec

\* FunnelTypeOK: goals and funnels have different ids that were given out; who is
\* counted at a step is a visitor of that day.
THEOREM FunnelTypes ==
    FunnelSpec => []FunnelTypeOK
<1>1. Inv => FunnelTypeOK
  <2>. SUFFICES ASSUME Inv PROVE FunnelTypeOK
    OBVIOUS
  <2>1. \A t \in Tasks : task[t].pc \in TaskStages
    BY DEF Inv, TaskInv, TaskOK
  <2>2. \A i \in Ids, v \in Visitors : state[i][v].reached \in 0..MaxSteps
    BY DEF Inv, DayInv
  <2>3. \A d \in Dates, i \in Ids, n \in Levels : steps[d][i][n] \subseteq exact[d]
    BY DEF Inv, StepInv
  <2>4. /\ goals \subseteq 1..ids /\ DOMAIN funnels \subseteq 1..ids /\ DOMAIN defs \subseteq 1..ids
        /\ goals \cap DOMAIN funnels = {}
    BY DEF Inv, CallsInv
  <2>. QED BY <2>1, <2>2, <2>3, <2>4 DEF FunnelTypeOK, TaskStages
<1>. QED BY <1>1, Invariance, PTL

\* StepsNested: the counts of a funnel never increase from one step to the next, alone or
\* under a segment, whatever events run at the same time and wherever they fail.
THEOREM Nested ==
    FunnelSpec => []StepsNested
<1>1. Inv => StepsNested
  <2>. SUFFICES ASSUME Inv, NEW d \in Dates, NEW i \in Ids, NEW n \in Levels \ {1}
                PROVE  steps[d][i][n] \subseteq steps[d][i][n - 1]
    BY DEF StepsNested, Inv, MemberInv
  <2>1. n - 1 \in 1..n
    BY FieldsThere
  <2>. QED BY <2>1 DEF Inv, StepInv
<1>. QED BY <1>1, Invariance, PTL

\* NoStepUnearned: a visitor is counted at a step only when its events name the steps up
\* to it in their order, although the state is read and written without a lock.
THEOREM Earned ==
    FunnelSpec => []NoStepUnearned
<1>1. Inv => NoStepUnearned
  BY DEF Inv, StepInv, NoStepUnearned
<1>. QED BY <1>1, Invariance, PTL

\* GuardsHold: the caps on the visitors, the event names and the segments of a day.
THEOREM Guarded ==
    FunnelSpec => []GuardsHold
<1>1. Inv => GuardsHold
  <2>. SUFFICES ASSUME Inv, NEW d \in Dates
                PROVE  /\ Cardinality(exact[d]) <= VisitorLimit
                       /\ UNION {events[d][e].who : e \in DOMAIN events[d]} \subseteq exact[d]
                       /\ Cardinality({e \in Names : events[d][e].count > 0}) <= NameLimit + crossed
                       /\ Cardinality(DOMAIN members[d]) <= SegmentLimit
    BY DEF GuardsHold
  <2>1. /\ Cardinality(exact[d]) <= VisitorLimit /\ Cardinality(DOMAIN members[d]) <= SegmentLimit
        /\ IsFiniteSet(names[d]) /\ Cardinality(names[d]) <= NameLimit
        /\ IsFiniteSet(Unguarded(d)) /\ Cardinality(Unguarded(d)) <= crossed
        /\ \A e \in AnyName : events[d][e].who \subseteq exact[d]
    BY DEF Inv, GuardInv
  <2>2. DOMAIN events[d] = AnyName /\ crossed \in Nat
    BY DEF Inv, DayInv
  <2>3. PICK a \in Nat : a = Cardinality(names[d])
    BY <2>1, FS_CardinalityType
  <2>4. PICK b \in Nat : b = Cardinality(Unguarded(d))
    BY <2>1, FS_CardinalityType
  <2>5. PICK T : T = {e \in Names : events[d][e].count > 0}
    OBVIOUS
  <2>6. T \subseteq names[d] \cup Unguarded(d)
    BY <2>5 DEF Unguarded
  <2>7. /\ IsFiniteSet(names[d] \cup Unguarded(d))
        /\ Cardinality(names[d] \cup Unguarded(d)) <= a + b
    <3>1. /\ IsFiniteSet(names[d] \cup Unguarded(d))
          /\ IsFiniteSet(names[d] \cap Unguarded(d))
          /\ Cardinality(names[d] \cup Unguarded(d)) = a + b - Cardinality(names[d] \cap Unguarded(d))
      BY <2>1, <2>3, <2>4, FS_Union, FS_Intersection
    <3>2. Cardinality(names[d] \cap Unguarded(d)) \in Nat
      BY <3>1, FS_CardinalityType
    <3>. QED BY <3>1, <3>2
  <2>8. Cardinality(T) <= a + b
    <3>1. /\ Cardinality(T) \in Nat /\ Cardinality(names[d] \cup Unguarded(d)) \in Nat
          /\ Cardinality(T) <= Cardinality(names[d] \cup Unguarded(d))
      BY <2>6, <2>7, SubsetSize
    <3>. QED BY <2>7, <3>1
  <2>9. Cardinality(T) <= NameLimit + crossed
    <3>1. Cardinality(T) \in Nat
      BY <2>6, <2>7, SubsetSize
    <3>2. a <= NameLimit /\ b <= crossed
      BY <2>1, <2>3, <2>4
    <3>. QED BY <2>2, <2>8, <3>1, <3>2, Caps
  <2>. QED BY <2>1, <2>2, <2>5, <2>9
<1>. QED BY <1>1, Invariance, PTL

\* ReportBracketed: a report is between the counts of its beginning and of now, and its
\* steps never increase.
THEOREM ReportsBetween ==
    FunnelSpec => []ReportBracketed
<1>1. Inv => ReportBracketed
  BY DEF Inv
<1>. QED BY <1>1, Invariance, PTL

\* LimitOvershoot: goals and funnels exceed their limits by less than the number of the
\* calls that run at the same time.
THEOREM Overshoot ==
    FunnelSpec => []LimitOvershoot
<1>1. Inv => LimitOvershoot
  <2>. SUFFICES ASSUME Inv PROVE LimitOvershoot
    OBVIOUS
  <2>1. IsFiniteSet(Managers) /\ At("insert goal") \subseteq Managers /\ At("insert") \subseteq Managers
    BY ConversionAssumption DEF ConversionAssumption, At
  <2>2. PICK a \in Nat : a = Cardinality(At("insert goal"))
    BY <2>1, SubsetSize
  <2>3. PICK b \in Nat : b = Cardinality(At("insert"))
    BY <2>1, SubsetSize
  <2>4. PICK k \in Nat : k = Cardinality(Managers)
    BY <2>1, FS_CardinalityType
  <2>5. CallsInv
    BY DEF Inv
  <2>6. Cardinality(goals) \in Nat /\ Cardinality(DOMAIN funnels) \in Nat
    <3>1. IsFiniteSet(1..ids)
      BY <2>5, FS_Interval DEF CallsInv, Ids
    <3>. QED BY <2>5, <3>1, SubsetSize DEF CallsInv
  <2>7. /\ Cardinality(goals) + a <= MaxGoals + k - 1
        /\ Cardinality(DOMAIN funnels) + b <= MaxFunnels + k - 1
    BY <2>2, <2>3, <2>4 DEF Inv, LimitInv
  <2>8. MaxGoals \in Nat /\ MaxFunnels \in Nat
    BY ConversionAssumption DEF ConversionAssumption
  <2>9. Cardinality(goals) <= MaxGoals + k - 1 /\ Cardinality(DOMAIN funnels) <= MaxFunnels + k - 1
    BY <2>6, <2>7, <2>8
  <2>. QED BY <2>4, <2>9 DEF LimitOvershoot
<1>. QED BY <1>1, Invariance, PTL

\* DefinitionsFollow: when no call runs Redis has the funnels of the table with their
\* steps, but for those a failure or an overlap of calls is on record for.
THEOREM DefinitionsAgree ==
    FunnelSpec => []DefinitionsFollow
<1>1. Inv => DefinitionsFollow
  <2>. SUFFICES ASSUME Inv, AtWork = {} PROVE
         /\ \A i \in DOMAIN funnels \ untold : i \in DOMAIN defs /\ defs[i] = funnels[i]
         /\ DOMAIN defs \subseteq DOMAIN funnels \cup leftover
    BY DEF DefinitionsFollow
  <2>1. \A m \in Managers : call[m].pc = "idle"
    BY DEF AtWork
  <2>2. \A m \in Managers, i \in DOMAIN funnels : ~Brings(call[m], i)
    BY <2>1 DEF Brings, Carries
  <2>3. Dropped = {}
    BY <2>1 DEF Dropped, At
  <2>4. PICK L : Lists(L)
    BY DEF Inv
  <2>5. \A i \in DOMAIN funnels \ untold : i \in DOMAIN defs
    BY <2>2 DEF Inv, DefsInv
  <2>6. DOMAIN defs \subseteq DOMAIN funnels \cup leftover
    BY <2>3 DEF Inv, DefsInv
  <2>7. \A i \in DOMAIN funnels \cap DOMAIN defs : defs[i] = funnels[i]
    BY <2>4 DEF Lists, CallLists, Follows
  <2>. QED BY <2>5, <2>6, <2>7
<1>. QED BY <1>1, Invariance, PTL

\* Only the upsert changes a row.
LEMMA RowStays ==
    ASSUME [FunnelNext]_funnelVars
    PROVE  UNCHANGED row \/ \E w \in Flushers : UpsertSteps(w)
<1>1. ASSUME NEW t \in Tasks, Track(t) PROVE UNCHANGED row
  <2>1. ASSUME NEW v \in Visitors, NEW e \in Names, NEW s \in Segments,
               TakeName(t, v, e, s) \/ NameFails(t, v, e, s)
        PROVE  UNCHANGED row
    BY <2>1 DEF TakeName, NameFails, scanVars
  <2>2. ASSUME NEW i \in Ids, Look(t, i) \/ LookFails(t, i) PROVE UNCHANGED row
    BY <2>2 DEF Look, LookFails, scanVars
  <2>3. CASE TakeVisitor(t) \/ Store(t) \/ ReadDefinitions(t)
    BY <2>3 DEF TakeVisitor, Store, ReadDefinitions, scanVars
  <2>4. CASE WriteStep(t) \/ SetState(t) \/ SetSegments(t) \/ TaskFails(t)
    BY <2>4 DEF WriteStep, SetState, SetSegments, TaskFails, scanVars
  <2>. QED BY <1>1, <2>1, <2>2, <2>3, <2>4 DEF Track
<1>2. CASE ScanStep
  <2>1. ASSUME NEW w \in Flushers, NEW d \in Dates, StartFlush(w, d) PROVE UNCHANGED row
    BY <2>1 DEF StartFlush, BeginScan
  <2>2. ASSUME NEW i \in Ids, StartReport(i) PROVE UNCHANGED row
    BY <2>2 DEF StartReport, BeginScan
  <2>3. CASE ReadRows \/ Show \/ EndReport
    BY <2>3 DEF ReadRows, Show, EndReport
  <2>4. ASSUME NEW s \in Scanners, ScanDefinitions(s) \/ ScanDefinitionsFails(s) \/ ScanFails(s)
        PROVE  UNCHANGED row
    BY <2>4 DEF ScanDefinitions, ScanDefinitionsFails, ScanFails
  <2>5. ASSUME NEW s \in Scanners, NEW i \in Ids, CountStep(s, i) \/ CountFails(s, i) PROVE UNCHANGED row
    BY <2>5 DEF CountStep, CountFails
  <2>. QED BY <1>2, <2>1, <2>2, <2>3, <2>4, <2>5 DEF ScanStep
<1>3. CASE Midnight
  BY <1>3 DEF Midnight, scanVars
<1>4. ASSUME NEW i \in Ids, NEW v \in Visitors, Expire(i, v) PROVE UNCHANGED row
  BY <1>4 DEF Expire, scanVars
<1>5. CASE UNCHANGED funnelVars
  BY <1>5 DEF funnelVars, scanVars
<1>. QED BY <1>1, <1>2, <1>3, <1>4, <1>5 DEF FunnelNext, scanVars

\* What a flush that has lost nothing writes of a funnel it found.
LEMMA UpsertedSteps ==
    ASSUME Inv, NEW w \in Flushers, UpsertSteps(w), NEW d \in Dates, NEW i \in Ids, NEW n \in Levels
    PROVE  \/ row'[d] = row[d]
           \/ /\ scan[w].pc = "count" /\ scan'[w].pc = "idle" /\ scan[w].day = d
              /\ \/ scan[w].lost
                 \/ i \notin DOMAIN scan[w].got
                 \/ row'[d][i][n] >= scan[w].held[i][n]
<1>1. ScanInv /\ row \in [Dates -> [Ids -> Numbers]] /\ w \in Scanners
  BY TwoKinds DEF Inv, ScanInv
<1>2. PICK r : r = scan[w]
  OBVIOUS
<1>3. r.pc = "count" /\ DOMAIN r.left = {} /\ r.day \in Dates
  BY <1>1, <1>2 DEF UpsertSteps, ScanInv, ScanOK, NoFunnels
<1>4. row' = [row EXCEPT ![r.day] = [j \in Ids |-> Got(w, j)]]
  BY <1>2 DEF UpsertSteps
<1>5. scan'[w].pc = "idle"
  <2>1. scan' = [scan EXCEPT ![w] = NoScan] /\ DOMAIN scan = Scanners
    BY <1>1 DEF UpsertSteps, ScanInv
  <2>. QED BY <1>1, <2>1, FieldsThere
<1>6. CASE d # r.day
  BY <1>1, <1>4, <1>6
<1>7. CASE d = r.day /\ ~r.lost /\ i \in DOMAIN r.got
  <2>1. PICK L : Lists(L)
    BY DEF Inv
  <2>2. Complete(w, r)
    BY <1>1, <1>2, <1>3, <2>1 DEF Lists, ScanLists, ScanFollows
  <2>3. r.got[i][n] >= Floor(w, r)[i][n]
    BY <1>3, <1>7, <2>2 DEF Complete
  <2>4. Floor(w, r)[i] = r.held[i]
    BY DEF Floor
  <2>5. row'[d][i] = r.got[i]
    <3>1. row'[d] = [j \in Ids |-> Got(w, j)]
      BY <1>1, <1>3, <1>4, <1>7
    <3>. QED BY <1>2, <1>7, <3>1 DEF Got
  <2>. QED BY <1>2, <1>3, <1>5, <1>7, <2>3, <2>4, <2>5
<1>. QED BY <1>2, <1>3, <1>5, <1>6, <1>7

\* StoredStepsKept: a flush overwrites the stored steps of a day, whoever wrote them
\* meanwhile, and yet they never go back but by a flush that lost a read, that found the
\* funnel missing in Redis, or that puts back no less than was stored when it began: with
\* any number of flushes at once, only the overlap of two makes the last case a loss.
THEOREM StoredSteps ==
    FunnelSpec => StoredStepsKept
<1>1. ASSUME Inv, [FunnelNext]_funnelVars, NEW d \in Dates, NEW i \in Ids, NEW n \in Levels
      PROVE  \/ row'[d][i][n] >= row[d][i][n]
             \/ \E w \in Flushers :
                  /\ scan[w].pc = "count" /\ scan'[w].pc = "idle" /\ scan[w].day = d
                  /\ \/ scan[w].lost
                     \/ i \notin DOMAIN scan[w].got
                     \/ row'[d][i][n] >= scan[w].held[i][n]
  <2>1. row[d][i][n] \in Nat
    BY <1>1 DEF Inv, ScanInv, Numbers
  <2>2. CASE row'[d] = row[d]
    BY <2>1, <2>2
  <2>3. CASE row'[d] # row[d]
    <3>1. PICK w \in Flushers : UpsertSteps(w)
      BY <1>1, <2>3, RowStays
    <3>. QED BY <1>1, <2>3, <3>1, UpsertedSteps
  <2>. QED BY <2>2, <2>3
<1>2. Inv /\ [FunnelNext]_funnelVars =>
         [\A d \in Dates, i \in Ids, n \in Levels :
             \/ row'[d][i][n] >= row[d][i][n]
             \/ \E w \in Flushers :
                  /\ scan[w].pc = "count" /\ scan'[w].pc = "idle" /\ scan[w].day = d
                  /\ \/ scan[w].lost
                     \/ i \notin DOMAIN scan[w].got
                     \/ row'[d][i][n] >= scan[w].held[i][n]]_funnelVars
  BY <1>1
<1>. QED BY <1>2, Invariance, PTL DEF FunnelSpec, StoredStepsKept

=============================================================================
