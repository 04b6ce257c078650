---------------------------- MODULE CounterProofs ----------------------------
(***************************************************************************)
(* What TLAPS proves of Counter, for any names, requests, rounds, key TTL  *)
(* and bounds:                                                             *)
(*   TypeCorrect       the types;                                          *)
(*   OvercountCorrect  nothing counts a hit twice (inductive as it stands);*)
(*   DurableCorrect    the value in PostgreSQL never goes back;            *)
(*   KeptCorrect       a number served is never lost, by the inductive     *)
(*                     invariant KeptInv;                                  *)
(*   UniqueCorrect     no number is returned twice, from KeptInv;          *)
(*   FreshCorrect      a preview is not older than what was served when it *)
(*                     began, from KeptInv and IssueInv by FreshInv;       *)
(*   RefinementCorrect the safety half of the refinement: every step of    *)
(*                     Counter is a step of HitCounter or changes nothing  *)
(*                     HitCounter knows of. The liveness half is left to   *)
(*                     TLC.                                                *)
(***************************************************************************)
EXTENDS Counter, TLAPS

LEMMA IdleRequestType == IdleRequest \in Request
BY CounterAssumption DEF CounterAssumption, IdleRequest, Request, Stages

LEMMA IdleRoundType == IdleRound \in Round /\ NoValues \in [Names -> Nat]
BY DEF IdleRound, Round, NoValues

\* Record updates that stay in the type.
LEMMA RequestUpdate ==
  ASSUME NEW q \in Request, NEW v \in Nat, NEW f \in Nat, NEW s \in Stages
  PROVE  /\ [q EXCEPT !.stage = s] \in Request
         /\ [q EXCEPT !.stage = s, !.val = v] \in Request
         /\ [q EXCEPT !.stage = s, !.val = v, !.floor = f] \in Request
         /\ [q EXCEPT !.stage = s] = [q EXCEPT !.stage = s, !.val = q.val]
BY DEF Request

LEMMA OldUpdate ==
  ASSUME NEW q \in Request, NEW o \in BOOLEAN
  PROVE  [q EXCEPT !.old = o] \in Request
BY DEF Request

LEMMA RoundUpdate ==
  ASSUME NEW k \in Round, NEW n, NEW s \in {"idle", "get", "write"},
         NEW a \in [Names -> Nat], NEW b \in BOOLEAN
  PROVE  /\ [k EXCEPT !.stage = s, !.seen = a] \in Round
         /\ [k EXCEPT !.todo = @ \ {n}] \in Round
         /\ [k EXCEPT !.todo = @ \ {n}, !.fresh = b] \in Round
         /\ [k EXCEPT !.fresh = b] \in Round
BY DEF Round

LEMMA TypeInit == Init => TypeOK
<1> SUFFICES ASSUME Init PROVE TypeOK
  OBVIOUS
<1> USE CounterAssumption DEF CounterAssumption
<1>1. cnt \in [Names -> Nat] /\ pg \in [Names -> Nat] /\ hits \in [Names -> Nat]
  BY IdleRoundType DEF Init
<1>2. ttl \in [Names -> 0..KeyTTL]
  BY DEF Init, NoValues
<1>3. req \in [Reqs -> Request]
  BY IdleRequestType DEF Init
<1>4. wk \in [Workers -> Round]
  BY IdleRoundType DEF Init
<1>5. served \in [Names -> SUBSET Nat]
  BY DEF Init
<1>6. faults \in 0..MaxFaults
  BY DEF Init
<1> QED BY <1>1, <1>2, <1>3, <1>4, <1>5, <1>6 DEF Init, TypeOK

\* Request r moved on to stage s with number v, and no other request changed.
Moved(r, s, v) ==
    /\ \A q \in Reqs \ {r} : req'[q] = req[q]
    /\ req'[r].stage = s /\ req'[r].val = v
    /\ req'[r].op = req[r].op /\ req'[r].name = req[r].name
    /\ req'[r].floor = req[r].floor /\ req'[r].old = req[r].old

LEMMA GotoWithEffect ==
  ASSUME TypeOK, NEW r \in Reqs, NEW s \in Stages, NEW v \in Nat, GotoWith(r, s, v)
  PROVE  req' \in [Reqs -> Request] /\ Moved(r, s, v)
<1>1. req \in [Reqs -> Request] /\ req[r] \in Request
  BY DEF TypeOK
<1>2. req' = [req EXCEPT ![r] = [req[r] EXCEPT !.stage = s, !.val = v]]
  BY DEF GotoWith
<1>3. req' \in [Reqs -> Request]
  BY <1>1, <1>2, RequestUpdate
<1> QED BY <1>1, <1>2, <1>3 DEF Request, Moved

LEMMA GotoEffect ==
  ASSUME TypeOK, NEW r \in Reqs, NEW s \in Stages, Goto(r, s)
  PROVE  req' \in [Reqs -> Request] /\ Moved(r, s, req[r].val)
<1>1. req \in [Reqs -> Request] /\ req[r] \in Request
  BY DEF TypeOK
<1>2. req' = [req EXCEPT ![r] = [req[r] EXCEPT !.stage = s]]
  BY DEF Goto
<1>3. req' \in [Reqs -> Request]
  BY <1>1, <1>2, RequestUpdate
<1> QED BY <1>1, <1>2, <1>3 DEF Request, Moved

LEMMA TypeNext == TypeOK /\ [Next]_vars => TypeOK'
<1> SUFFICES ASSUME TypeOK, [Next]_vars PROVE TypeOK'
  OBVIOUS
<1> USE CounterAssumption DEF CounterAssumption
<1>1. ASSUME NEW r \in Reqs, RequestStep(r) PROVE TypeOK'
  <2> DEFINE n == req[r].name
  <2>0. n \in Names /\ req[r].val \in Nat /\ pg[n] \in Nat /\ cnt[n] \in Nat
    BY DEF TypeOK, Request
  <2>1. ASSUME NEW m \in Names, NEW op \in {"Increment", "Get"}, Begin(r, m, op)
        PROVE  TypeOK'
    BY <2>1 DEF Begin, TypeOK, Request, Stages
  <2>2. ASSUME Incr(r, n)
        PROVE  /\ cnt' \in [Names -> Nat] /\ ttl' \in [Names -> 0..KeyTTL]
               /\ hits' \in [Names -> Nat] /\ req' \in [Reqs -> Request]
    <3>0. cnt[n] + 1 \in Nat /\ GotoWith(r, "sadd", cnt[n] + 1)
      BY <2>0, <2>2 DEF Incr
    <3>1. req' \in [Reqs -> Request]
      BY <3>0, GotoWithEffect DEF Stages
    <3>2. ttl' \in [Names -> 0..KeyTTL]
      BY <2>0, <2>2 DEF Incr, TypeOK
    <3> QED BY <2>0, <2>2, <3>1, <3>2 DEF Incr, TypeOK
  <2>3. CASE IncrExisting(r)
    <3>1. CASE Live(n)
      BY <2>2, <2>3, <3>1 DEF IncrExisting, TypeOK
    <3>2. CASE ~Live(n)
      BY <2>0, <2>3, <3>2, GotoEffect, GotoWithEffect DEF Stages, IncrExisting, TypeOK
    <3> QED BY <3>1, <3>2
  <2>4. CASE GetKey(r)
    BY <2>0, <2>4, GotoEffect, GotoWithEffect DEF Stages, GetKey, TypeOK
  <2>5. CASE Load(r)
    BY <2>0, <2>5, GotoEffect, GotoWithEffect DEF Stages, Load, GetCounter, TypeOK
  <2>6. CASE LoadFails(r)
    <3>1. lapsed' \subseteq Names /\ faults' \in 0..MaxFaults
      BY <2>0, <2>6 DEF LoadFails, Fault, TypeOK
    <3>2. CASE Goto(r, "incr")
      BY <2>0, <2>6, <3>1, <3>2, GotoEffect, GotoWithEffect DEF Stages, LoadFails, TypeOK
    <3>3. CASE req' = [req EXCEPT ![r] =
                         [@ EXCEPT !.stage = "reply", !.val = 0, !.floor = 0]]
      <4>1. [req[r] EXCEPT !.stage = "reply", !.val = 0, !.floor = 0] \in Request
        BY RequestUpdate DEF TypeOK, Stages
      <4> QED BY <2>6, <3>1, <3>3, <4>1 DEF LoadFails, TypeOK
    <3> QED BY <2>6, <3>2, <3>3 DEF LoadFails
  <2>7. CASE Seed(r)
    <3>1. /\ cnt' \in [Names -> Nat] /\ ttl' \in [Names -> 0..KeyTTL]
      BY <2>0, <2>7 DEF Seed, SetNX, SetNXTTL, TypeOK
    <3> QED BY <2>0, <2>7, <3>1, GotoEffect, GotoWithEffect DEF Stages, Seed, TypeOK
  <2>8. CASE IncrLoaded(r)
    BY <2>2, <2>8 DEF IncrLoaded, TypeOK
  <2>9. CASE Register(r)
    BY <2>0, <2>9, GotoEffect, GotoWithEffect DEF Stages, Register, SAdd, TypeOK
  <2>10. CASE Reply(r)
    BY <2>0, <2>10, IdleRequestType DEF Reply, TypeOK
  <2>11. CASE Abandon(r)
    BY <2>11, IdleRequestType DEF Abandon, TypeOK
  <2>12. CASE SeedFails(r) \/ RegisterFails(r)
    <3>1. req' \in [Reqs -> Request]
      BY <2>12, GotoEffect DEF SeedFails, RegisterFails, Stages
    <3>2. lapsed' \subseteq Names /\ faults' \in 0..MaxFaults
      BY <2>0, <2>12 DEF SeedFails, RegisterFails, Fault, TypeOK
    <3> QED BY <2>12, <3>1, <3>2 DEF SeedFails, RegisterFails, TypeOK
  <2> QED BY <1>1, <2>1, <2>3, <2>4, <2>5, <2>6, <2>7, <2>8, <2>9, <2>10, <2>11, <2>12
          DEF RequestStep
<1>2. ASSUME NEW w \in Workers, RoundStep(w) \/ RoundFault(w) PROVE TypeOK'
  <2>1. CASE BeginRound(w)
    BY <2>1, IdleRoundType DEF BeginRound, TypeOK, Round
  <2>2. CASE ReadValues(w)
    BY <2>2, ZenonT(30) DEF ReadValues, TypeOK, Round
  <2>3. ASSUME NEW n \in Names, PruneName(w, n) PROVE TypeOK'
    BY <2>3 DEF PruneName, Prune, Handled, TypeOK, Round
  <2>4. ASSUME NEW n \in Names, PersistName(w, n) PROVE TypeOK'
    BY <2>4 DEF PersistName, UpsertCounter, Handled, TypeOK, Round
  <2>5. ASSUME NEW n \in Names, PersistFails(w, n) PROVE TypeOK'
    <3> DEFINE k == [wk[w] EXCEPT !.todo = @ \ {n}, !.fresh = FALSE]
    <3>1. wk' \in [Workers -> Round]
      <4>1. k \in Round
        BY RoundUpdate, IdleRoundType DEF TypeOK
      <4>2. wk' = [wk EXCEPT ![w] = k]
        BY <2>5 DEF PersistFails
      <4> QED BY <4>1, <4>2 DEF TypeOK
    <3>2. lapsed' \subseteq Names /\ faults' \in 0..MaxFaults
      BY <2>5 DEF PersistFails, Fault, TypeOK
    <3> QED BY <2>5, <3>1, <3>2 DEF PersistFails, TypeOK
  <2>6. CASE EndRound(w)
    BY <2>6, IdleRoundType DEF EndRound, TypeOK, Round
  <2>7. CASE AbortRound(w)
    BY <2>7, IdleRoundType DEF AbortRound, Fault, TypeOK
  <2> QED BY <1>2, <2>1, <2>2, <2>3, <2>4, <2>5, <2>6, <2>7 DEF RoundStep, RoundFault
<1>3. CASE Tick
  <2>1. ttl' \in [Names -> 0..KeyTTL] /\ cnt' \in [Names -> Nat]
    BY <1>3 DEF Tick, Aged, Live, TypeOK
  <2>2. req' \in [Reqs -> Request]
    <3> DEFINE b(r) == ~At(r, "idle")
    <3>1. \A r \in Reqs : b(r) \in BOOLEAN
      OBVIOUS
    <3>2. req' = [r \in Reqs |-> [req[r] EXCEPT !.old = b(r)]]
      BY <1>3 DEF Tick
    <3> HIDE DEF b
    <3>3. \A r \in Reqs : [req[r] EXCEPT !.old = b(r)] \in Request
      BY <3>1, OldUpdate DEF TypeOK
    <3> QED BY <3>2, <3>3
  <2>3. wk' \in [Workers -> Round]
    BY <1>3, ZenonT(30) DEF Tick, TypeOK, Round
  <2> QED BY <1>3, <2>1, <2>2, <2>3 DEF Tick, TypeOK
<1>4. CASE LoseRedis
  BY <1>4, IdleRoundType DEF LoseRedis, Fault, NoValues, TypeOK
<1>5. CASE UNCHANGED vars
  BY <1>5 DEF vars, TypeOK
<1> QED BY <1>1, <1>2, <1>3, <1>4, <1>5 DEF Next

\* Every variable keeps its type, for any number of names, requests and
\* rounds, any key TTL and any bounds.
THEOREM TypeCorrect == Spec => []TypeOK
<1>1. Init => TypeOK
  BY TypeInit
<1>2. TypeOK /\ [Next]_vars => TypeOK'
  BY TypeNext
<1> QED BY <1>1, <1>2, PTL DEF Spec

-----------------------------------------------------------------------------
\* Beginning a request, or ending it, leaves the other requests alone.
Begun(r, n, op) ==
    /\ \A q \in Reqs \ {r} : req'[q] = req[q]
    /\ req'[r].stage = IF op = "Get" THEN "get" ELSE "script"
    /\ req'[r].op = op /\ req'[r].name = n /\ req'[r].val = 0
    /\ req'[r].old = FALSE
    /\ req'[r].floor = 0 \/ req'[r].floor \in served[n]
    /\ UNCHANGED <<cnt, ttl, reg, pg, wk, flushed, served, hits, lapsed>>

LEMMA BeginEffect ==
  ASSUME TypeOK, NEW r \in Reqs, NEW n \in Names, NEW op \in {"Increment", "Get"},
         Begin(r, n, op)
  PROVE  Begun(r, n, op)
BY DEF Begin, TypeOK, Begun

LEMMA EndEffect ==
  ASSUME TypeOK, NEW r \in Reqs, req' = [req EXCEPT ![r] = IdleRequest]
  PROVE  /\ \A q \in Reqs \ {r} : req'[q] = req[q]
         /\ req'[r].stage = "idle" /\ req'[r].op = "Get" /\ req'[r].val = 0
         /\ req'[r].name \in Names
BY IdleRequestType DEF TypeOK, IdleRequest, Request

LEMMA OvercountInit == Init => NeverOvercounts
BY DEF Init, NeverOvercounts, NoValues, IdleRequest, IdleRound

\* A request step cannot overcount if its own number and the counters do not.
LEMMA RequestOvercount ==
  ASSUME TypeOK, NeverOvercounts, TypeOK', NEW r \in Reqs,
         \A q \in Reqs \ {r} : req'[q] = req[q],
         req'[r].val <= hits'[req'[r].name],
         \A n \in Names : hits'[n] >= hits[n] /\ cnt'[n] <= hits'[n],
         UNCHANGED <<pg, wk>>
  PROVE  NeverOvercounts'
<1>1. \A n \in Names : cnt[n] \in Nat /\ hits[n] \in Nat /\ hits'[n] \in Nat /\ pg[n] \in Nat
  BY DEF TypeOK
<1>2. \A w \in Workers, n \in Names : wk[w].seen[n] \in Nat
  BY DEF TypeOK, Round
<1>3. \A q \in Reqs : req[q].val \in Nat /\ req[q].name \in Names
  BY DEF TypeOK, Request
<1> QED BY <1>1, <1>2, <1>3 DEF NeverOvercounts

LEMMA OvercountNext == TypeOK /\ NeverOvercounts /\ [Next]_vars => NeverOvercounts'
<1> SUFFICES ASSUME TypeOK, NeverOvercounts, [Next]_vars PROVE NeverOvercounts'
  OBVIOUS
<1> TypeOK'
  BY TypeNext
<1>0. /\ \A n \in Names : cnt[n] \in Nat /\ hits[n] \in Nat /\ pg[n] \in Nat
      /\ \A w \in Workers, n \in Names : wk[w].seen[n] \in Nat
  BY DEF TypeOK, Round
<1>1. ASSUME NEW r \in Reqs, RequestStep(r) PROVE NeverOvercounts'
  <2> DEFINE n == req[r].name
             v == req[r].val
  <2>0. n \in Names /\ v \in Nat /\ v <= hits[n] /\ cnt[n] <= hits[n] /\ pg[n] <= hits[n]
    BY DEF TypeOK, Request, NeverOvercounts
  <2>00. UNCHANGED <<cnt, hits>> =>
           \A m \in Names : hits'[m] >= hits[m] /\ cnt'[m] <= hits'[m]
    BY <1>0 DEF NeverOvercounts
  <2>1. ASSUME NEW m \in Names, NEW op \in {"Increment", "Get"}, Begin(r, m, op)
        PROVE  NeverOvercounts'
    <3>0. Begun(r, m, op)
      BY <2>1, BeginEffect
    <3>1. /\ \A q \in Reqs \ {r} : req'[q] = req[q]
          /\ req'[r].name = m /\ req'[r].val = 0
          /\ UNCHANGED <<cnt, hits, pg, wk>>
      BY <3>0 DEF Begun
    <3> QED BY <1>0, <2>00, <3>1, RequestOvercount
  <2>2. ASSUME Incr(r, n), UNCHANGED <<pg, wk>>
        PROVE  NeverOvercounts'
    <3>1. cnt[n] + 1 \in Nat /\ GotoWith(r, "sadd", cnt[n] + 1)
      BY <1>0, <2>0, <2>2 DEF Incr
    <3>2. Moved(r, "sadd", cnt[n] + 1)
      BY <3>1, GotoWithEffect DEF Stages
    <3>3. /\ cnt' = [cnt EXCEPT ![n] = @ + 1] /\ hits' = [hits EXCEPT ![n] = @ + 1]
      BY <2>2 DEF Incr
    <3>4. \A m \in Names : hits'[m] >= hits[m] /\ cnt'[m] <= hits'[m]
      BY <1>0, <2>0, <3>3 DEF TypeOK, NeverOvercounts
    <3>5. cnt[n] + 1 <= hits'[n]
      BY <1>0, <2>0, <3>3 DEF TypeOK
    <3> QED BY <2>2, <3>2, <3>4, <3>5, RequestOvercount DEF Moved
  <2>3. CASE IncrExisting(r)
    <3>1. CASE Live(n)
      BY <2>2, <2>3, <3>1 DEF IncrExisting
    <3>2. CASE ~Live(n)
      <4>1. Moved(r, "load", v)
        BY <2>3, <3>2, GotoEffect DEF IncrExisting, Stages
      <4> QED BY <2>0, <2>00, <2>3, <3>2, <4>1, RequestOvercount DEF IncrExisting, Moved
    <3> QED BY <3>1, <3>2
  <2>4. CASE GetKey(r)
    <3>1. Moved(r, "reply", cnt[n]) \/ Moved(r, "load", v)
      BY <1>0, <2>0, <2>4, GotoEffect, GotoWithEffect DEF GetKey, Stages
    <3> QED BY <2>0, <2>00, <2>4, <3>1, RequestOvercount DEF GetKey, Moved
  <2>5. CASE Load(r)
    <3>1. Moved(r, "setnx", pg[n]) \/ Moved(r, "incr", v) \/ Moved(r, "reply", 0)
      BY <1>0, <2>0, <2>5, GotoEffect, GotoWithEffect DEF Load, GetCounter, Stages
    <3> QED BY <1>0, <2>0, <2>00, <2>5, <3>1, RequestOvercount DEF Load, Moved
  <2>6. CASE LoadFails(r)
    <3>1. CASE Goto(r, "incr")
      <4>1. Moved(r, "incr", v)
        BY <3>1, GotoEffect DEF Stages
      <4> QED BY <2>0, <2>00, <2>6, <4>1, RequestOvercount DEF LoadFails, Moved
    <3>2. CASE req' = [req EXCEPT ![r] =
                         [@ EXCEPT !.stage = "reply", !.val = 0, !.floor = 0]]
      <4>1. /\ \A q \in Reqs \ {r} : req'[q] = req[q]
            /\ req'[r].val = 0 /\ req'[r].name = n
        BY <3>2 DEF TypeOK, Request
      <4> QED BY <1>0, <2>0, <2>00, <2>6, <4>1, RequestOvercount DEF LoadFails
    <3> QED BY <2>6, <3>1, <3>2 DEF LoadFails
  <2>7. CASE Seed(r)
    <3>1. Moved(r, "sadd", v) \/ Moved(r, "incr", v)
      BY <2>7, GotoEffect DEF Seed, Stages
    <3>2. \A m \in Names : hits'[m] >= hits[m] /\ cnt'[m] <= hits'[m]
      BY <1>0, <2>0, <2>7 DEF Seed, SetNX, NeverOvercounts, TypeOK
    <3> QED BY <2>0, <2>7, <3>1, <3>2, RequestOvercount DEF Seed, Moved
  <2>8. CASE IncrLoaded(r)
    BY <2>2, <2>8 DEF IncrLoaded
  <2>9. CASE Register(r)
    <3>1. Moved(r, "reply", v)
      BY <2>9, GotoEffect DEF Register, Stages
    <3> QED BY <2>0, <2>00, <2>9, <3>1, RequestOvercount DEF Register, Moved
  <2>10. CASE Reply(r)
    <3>1. /\ \A q \in Reqs \ {r} : req'[q] = req[q]
          /\ req'[r].name \in Names /\ req'[r].val = 0
      BY <2>10, EndEffect DEF Reply
    <3> QED BY <1>0, <2>00, <2>10, <3>1, RequestOvercount DEF Reply
  <2>11. CASE Abandon(r)
    <3>1. /\ \A q \in Reqs \ {r} : req'[q] = req[q]
          /\ req'[r].name \in Names /\ req'[r].val = 0
      BY <2>11, EndEffect DEF Abandon
    <3> QED BY <1>0, <2>00, <2>11, <3>1, RequestOvercount DEF Abandon
  <2>12. CASE SeedFails(r) \/ RegisterFails(r)
    <3>1. Moved(r, "sadd", v) \/ Moved(r, "incr", v) \/ Moved(r, "reply", v)
      BY <2>12, GotoEffect DEF SeedFails, RegisterFails, Stages
    <3> QED BY <2>0, <2>00, <2>12, <3>1, RequestOvercount DEF SeedFails, RegisterFails, Moved
  <2> QED BY <1>1, <2>1, <2>3, <2>4, <2>5, <2>6, <2>7, <2>8, <2>9, <2>10, <2>11, <2>12
          DEF RequestStep
<1>2. ASSUME NEW w \in Workers, RoundStep(w) \/ RoundFault(w) PROVE NeverOvercounts'
  <2>1. CASE BeginRound(w)
    BY <1>0, <2>1 DEF BeginRound, NoValues, NeverOvercounts, TypeOK
  <2>2. CASE ReadValues(w)
    <3>1. \A m \in Names : /\ \A k \in Workers \ {w} : wk'[k].seen[m] = wk[k].seen[m]
                             /\ wk'[w].seen[m] \in {0, cnt[m]}
      BY <2>2, ZenonT(30) DEF ReadValues, TypeOK, Round
    <3> QED BY <1>0, <2>2, <3>1 DEF ReadValues, NeverOvercounts
  <2>3. ASSUME NEW n \in Names, PruneName(w, n) PROVE NeverOvercounts'
    BY <2>3 DEF PruneName, Handled, NeverOvercounts, TypeOK, Round
  <2>4. ASSUME NEW n \in Names, PersistName(w, n) PROVE NeverOvercounts'
    BY <1>0, <2>4 DEF PersistName, UpsertCounter, Handled, NeverOvercounts,
       TypeOK, Round
  <2>5. ASSUME NEW n \in Names, PersistFails(w, n) PROVE NeverOvercounts'
    BY <2>5 DEF PersistFails, NeverOvercounts, TypeOK, Round
  <2>6. CASE EndRound(w)
    BY <1>0, <2>6 DEF EndRound, IdleRound, NoValues, NeverOvercounts, TypeOK
  <2>7. CASE AbortRound(w)
    BY <1>0, <2>7 DEF AbortRound, IdleRound, NoValues, NeverOvercounts, TypeOK
  <2> QED BY <1>2, <2>1, <2>2, <2>3, <2>4, <2>5, <2>6, <2>7 DEF RoundStep, RoundFault
<1>3. CASE Tick
  <2>1. \A n \in Names : cnt'[n] <= hits[n]
    BY <1>0, <1>3 DEF Tick, NeverOvercounts
  <2>2. \A r \in Reqs : req'[r].name = req[r].name /\ req'[r].val = req[r].val
    BY <1>3 DEF Tick, TypeOK, Request
  <2>3. \A w \in Workers : wk'[w].seen = wk[w].seen
    BY <1>3 DEF Tick, TypeOK, Round
  <2> QED BY <1>3, <2>1, <2>2, <2>3 DEF Tick, NeverOvercounts
<1>4. CASE LoseRedis
  BY <1>0, <1>4 DEF LoseRedis, NoValues, NeverOvercounts
<1>5. CASE UNCHANGED vars
  BY <1>5 DEF vars, NeverOvercounts
<1> QED BY <1>1, <1>2, <1>3, <1>4, <1>5 DEF Next

\* No hit is ever counted twice: whatever requests and rounds interleave and
\* whatever faults happen, no number exceeds the INCRs that ran.
THEOREM OvercountCorrect == Spec => []NeverOvercounts
<1>1. Init => NeverOvercounts
  BY OvercountInit
<1>2. TypeOK /\ NeverOvercounts /\ [Next]_vars => NeverOvercounts'
  BY OvercountNext
<1> QED BY <1>1, <1>2, TypeCorrect, PTL DEF Spec

\* The value in PostgreSQL never goes back, by the GREATEST of the upsert.
THEOREM DurableCorrect == Spec => DurableNeverDecreases
<1>1. TypeOK /\ [Next]_vars => [\A n \in Names : pg'[n] >= pg[n]]_vars
  <2> SUFFICES ASSUME TypeOK, Next PROVE \A n \in Names : pg'[n] >= pg[n]
    OBVIOUS
  <2>0. \A n \in Names : pg[n] \in Nat /\ \A w \in Workers : wk[w].seen[n] \in Nat
    BY DEF TypeOK, Round
  <2>1. ASSUME NEW r \in Reqs, RequestStep(r) PROVE UNCHANGED pg
    BY <2>1 DEF RequestStep, Begin, IncrExisting, GetKey, Load, LoadFails, Seed,
       SeedFails, IncrLoaded, Register, RegisterFails, Reply, Abandon
  <2>2. ASSUME NEW w \in Workers, NEW n \in Names, PersistName(w, n)
        PROVE  \A m \in Names : pg'[m] >= pg[m]
    BY <2>0, <2>2 DEF PersistName, UpsertCounter, TypeOK
  <2>3. ASSUME NEW w \in Workers, RoundStep(w) \/ RoundFault(w),
               ~\E n \in Names : PersistName(w, n)
        PROVE  UNCHANGED pg
    BY <2>3 DEF RoundStep, RoundFault, BeginRound, ReadValues, PruneName, EndRound,
       PersistFails, AbortRound
  <2> QED BY <2>0, <2>1, <2>2, <2>3 DEF Next, Tick, LoseRedis
<1> QED BY <1>1, TypeCorrect, PTL DEF Spec, DurableNeverDecreases

-----------------------------------------------------------------------------
(***************************************************************************)
(* Why nothing served is lost.  A number of a name is safe in PostgreSQL,  *)
(* or else only its key and its registry entry keep it (NameOK).  For the  *)
(* key not to expire first, a round that ended in this tick must have      *)
(* written it once its TTL is down to one tick (RoundOK); that needs what  *)
(* such a round has read.  For an increment on a missing key not to start  *)
(* below a number already served, the loaded value must cover it (the      *)
(* conjuncts of RequestOK for "setnx" and "incr"); that needs the key a    *)
(* running request saw or made to outlive the request (Slack).             *)
(***************************************************************************)

AtLeast(x, n) == \A v \in served[n] : v <= x

\* What a key written for request r, while r runs, has left of its TTL.
Slack(r) == IF req[r].old THEN KeyTTL - 1 ELSE KeyTTL

KeyOK(n) ==
    /\ Live(n) <=> cnt[n] > 0
    /\ n \notin lapsed /\ Live(n) => AtLeast(cnt[n], n)

RequestOK(r) ==
    LET n == req[r].name IN
      n \notin lapsed =>
        /\ req[r].stage \in {"load", "setnx", "incr"} /\ Live(n) => ttl[n] >= Slack(r)
        /\ At(r, "setnx") /\ ~Live(n) => AtLeast(req[r].val, n)
        /\ At(r, "incr") /\ ~Live(n) => AtLeast(0, n)
        /\ Issued(r) => /\ Live(n)
                        /\ 0 < req[r].val /\ req[r].val <= cnt[n]
                        /\ ttl[n] >= Slack(r)
        /\ Issued(r) /\ At(r, "reply") => n \in reg

SeedOK(r) ==
    /\ At(r, "setnx") => req[r].val > 0
    /\ At(r, "get") => req[r].op = "Get"

Durable(n, v) == pg[n] >= v
Kept(n, v) == Live(n) /\ cnt[n] >= v /\ n \in reg

\* Name n is about to expire with served number v not durable: no round has
\* finished in this tick, and the rounds begun in this tick have n and v.
RoundOK(n) ==
    n \notin lapsed =>
      \A v \in served[n] : ~Durable(n, v) /\ ttl[n] <= 1 =>
        /\ ~flushed
        /\ \A w \in Workers : wk[w].fresh =>
             /\ wk[w].stage # "idle" => n \in wk[w].todo
             /\ wk[w].stage = "write" => wk[w].seen[n] >= v

NameOK(n) ==
    /\ KeyOK(n)
    /\ n \notin lapsed => \A v \in served[n] : Durable(n, v) \/ Kept(n, v)
    /\ RoundOK(n)

KeptInv ==
    /\ \A n \in Names : NameOK(n)
    /\ \A r \in Reqs : RequestOK(r) /\ SeedOK(r)

LEMMA NumbersTyped ==
  ASSUME TypeOK
  PROVE  /\ \A n \in Names : /\ cnt[n] \in Nat /\ pg[n] \in Nat /\ ttl[n] \in 0..KeyTTL
                             /\ served[n] \subseteq Nat
         /\ \A w \in Workers, n \in Names : wk[w].seen[n] \in Nat
         /\ \A r \in Reqs : req[r].val \in Nat /\ req[r].name \in Names
BY DEF TypeOK, Request, Round

LEMMA KeptInit == Init => KeptInv
BY CounterAssumption DEF CounterAssumption, Init, KeptInv, NameOK, KeyOK, RoundOK, RequestOK, SeedOK,
   NoValues, IdleRequest, IdleRound, Live, At, Issued, AtLeast

\* A step that does not touch name m, its key or its rounds keeps it in order.
LEMMA QuietName ==
  ASSUME NEW m \in Names, NameOK(m), cnt'[m] = cnt[m], ttl'[m] = ttl[m],
         pg'[m] = pg[m], served'[m] = served[m], m \in reg => m \in reg',
         lapsed \subseteq lapsed', UNCHANGED <<wk, flushed>>
  PROVE  NameOK(m)'
BY DEF NameOK, KeyOK, RoundOK, Live, AtLeast, Durable, Kept

\* The same for a request q that does not move, of a name whose key is
\* untouched.
LEMMA QuietRequest ==
  ASSUME NEW q \in Reqs, RequestOK(q), SeedOK(q), req'[q] = req[q],
         cnt'[req[q].name] = cnt[req[q].name], ttl'[req[q].name] = ttl[req[q].name],
         served'[req[q].name] = served[req[q].name],
         req[q].name \in reg => req[q].name \in reg', lapsed \subseteq lapsed'
  PROVE  RequestOK(q)' /\ SeedOK(q)'
BY DEF RequestOK, SeedOK, Live, At, Issued, AtLeast, Slack

LEMMA KeptIncr ==
  ASSUME TypeOK, KeptInv, NEW r \in Reqs, Incr(r, req[r].name),
         Live(req[r].name) \/ At(r, "incr"),
         UNCHANGED <<reg, pg, wk, flushed, served, lapsed>>
  PROVE  KeptInv'
<1> PICK n \in Names : n = req[r].name
  BY NumbersTyped
<1> USE CounterAssumption DEF CounterAssumption
<1>1. n \in Names /\ cnt[n] \in Nat /\ cnt[n] + 1 \in Nat
  BY NumbersTyped
<1>2. Moved(r, "sadd", cnt[n] + 1)
  BY <1>1, GotoWithEffect DEF Incr, Stages
<1>3. /\ cnt'[n] = cnt[n] + 1 /\ ttl'[n] = KeyTTL
      /\ \A m \in Names \ {n} : cnt'[m] = cnt[m] /\ ttl'[m] = ttl[m]
  BY <1>1 DEF Incr, TypeOK
<1>4. \A m \in Names \ {n} : NameOK(m)'
  BY <1>3, QuietName DEF KeptInv
<1>5. NameOK(n)'
  <2>1. n \notin lapsed => AtLeast(cnt[n], n)
    BY <1>1, NumbersTyped DEF KeptInv, NameOK, KeyOK, RequestOK, AtLeast
  <2>2. KeyOK(n)'
    BY <1>1, <1>3, <2>1, NumbersTyped DEF KeyOK, Live, AtLeast
  <2>3. RoundOK(n)'
    BY <1>3 DEF RoundOK
  <2>4. \A v \in served[n] : Kept(n, v) => Kept(n, v)'
    BY <1>1, <1>3, NumbersTyped DEF Kept, Live
  <2> QED BY <1>1, <2>2, <2>3, <2>4 DEF KeptInv, NameOK, Durable
<1>6. ASSUME NEW q \in Reqs \ {r}
      PROVE  RequestOK(q)' /\ SeedOK(q)'
  <2>1. CASE req[q].name # n
    BY <1>2, <1>3, <2>1, QuietRequest, NumbersTyped DEF KeptInv, Moved
  <2>2. CASE req[q].name = n
    BY <1>1, <1>2, <1>3, <2>2, NumbersTyped
       DEF KeptInv, Moved, RequestOK, SeedOK, At, Issued, Live, Slack
  <2> QED BY <2>1, <2>2
<1>7. RequestOK(r)' /\ SeedOK(r)'
  BY <1>1, <1>2, <1>3 DEF Moved, RequestOK, SeedOK, At, Issued, Live, Slack
<1> QED BY <1>4, <1>5, <1>6, <1>7 DEF KeptInv

\* A request step that changes no counter: only the request itself is to be
\* looked at.
LEMMA KeptQuiet ==
  ASSUME TypeOK, KeptInv, NEW r \in Reqs, \A q \in Reqs \ {r} : req'[q] = req[q],
         UNCHANGED <<cnt, ttl, pg, wk, flushed, served>>, reg \subseteq reg',
         lapsed \subseteq lapsed', RequestOK(r)' /\ SeedOK(r)'
  PROVE  KeptInv'
<1>1. \A m \in Names : NameOK(m)'
  BY QuietName DEF KeptInv
<1>2. \A q \in Reqs \ {r} : RequestOK(q)' /\ SeedOK(q)'
  BY QuietRequest DEF KeptInv
<1> QED BY <1>1, <1>2 DEF KeptInv

LEMMA KeptBegin ==
  ASSUME TypeOK, KeptInv, NEW r \in Reqs, NEW n \in Names,
         NEW op \in {"Increment", "Get"}, Begin(r, n, op)
  PROVE  KeptInv'
<1>0. Begun(r, n, op)
  BY BeginEffect
<1>1. \A q \in Reqs \ {r} : req'[q] = req[q]
  BY <1>0 DEF Begun
<1>2. req'[r].stage = IF op = "Get" THEN "get" ELSE "script"
  BY <1>0 DEF Begun
<1>3. req'[r].op = op
  BY <1>0 DEF Begun
<1>4. UNCHANGED <<cnt, ttl, reg, pg, wk, flushed, served, lapsed>>
  BY DEF Begin
<1>5. RequestOK(r)' /\ SeedOK(r)'
  BY <1>2, <1>3 DEF RequestOK, SeedOK, At, Issued
<1> QED BY <1>1, <1>4, <1>5, KeptQuiet

LEMMA KeptRequest ==
  ASSUME TypeOK, KeptInv, NEW r \in Reqs, RequestStep(r)
  PROVE  KeptInv'
<1> PICK n \in Names, v \in Nat : n = req[r].name /\ v = req[r].val
  BY NumbersTyped
<1> USE CounterAssumption DEF CounterAssumption
<1>0. /\ n \in Names /\ v \in Nat /\ cnt[n] \in Nat /\ pg[n] \in Nat
      /\ ttl[n] \in 0..KeyTTL /\ served[n] \subseteq Nat
      /\ NameOK(n) /\ RequestOK(r) /\ SeedOK(r)
  BY NumbersTyped DEF KeptInv
<1>00. n \notin lapsed /\ ~Live(n) => AtLeast(pg[n], n)
  BY <1>0 DEF NameOK, Kept, Durable, AtLeast
<1>1. ASSUME NEW m \in Names, NEW op \in {"Increment", "Get"}, Begin(r, m, op)
      PROVE  KeptInv'
  BY <1>1, KeptBegin
<1>2. CASE IncrExisting(r)
  <2>1. CASE Live(n)
    BY <1>2, <2>1, KeptIncr DEF IncrExisting
  <2>2. CASE ~Live(n)
    <3>1. Moved(r, "load", v) /\ UNCHANGED <<cnt, ttl, reg, pg, wk, flushed, served, lapsed>>
      BY <1>2, <2>2, GotoEffect DEF IncrExisting, Stages
    <3>2. RequestOK(r)' /\ SeedOK(r)'
      BY <2>2, <3>1 DEF Moved, RequestOK, SeedOK, At, Issued, Live
    <3> QED BY <3>1, <3>2, KeptQuiet DEF Moved
  <2> QED BY <2>1, <2>2
<1>3. CASE GetKey(r)
  <2>1. /\ Moved(r, "reply", cnt[n]) \/ (Moved(r, "load", v) /\ ~Live(n))
        /\ UNCHANGED <<cnt, ttl, reg, pg, wk, flushed, served, lapsed>>
    BY <1>0, <1>3, GotoEffect, GotoWithEffect DEF GetKey, Stages
  <2>2. req[r].op = "Get"
    BY <1>0, <1>3 DEF GetKey, SeedOK
  <2>3. RequestOK(r)' /\ SeedOK(r)'
    BY <2>1, <2>2 DEF Moved, RequestOK, SeedOK, At, Issued, Live
  <2> QED BY <2>1, <2>3, KeptQuiet DEF Moved
<1>4. CASE Load(r)
  <2>1. /\ \/ Moved(r, "setnx", pg[n]) /\ pg[n] > 0
           \/ Moved(r, "incr", v) /\ pg[n] = 0
           \/ Moved(r, "reply", 0) /\ req[r].op = "Get"
        /\ UNCHANGED <<cnt, ttl, reg, pg, wk, flushed, served, lapsed>>
        /\ At(r, "load")
    BY <1>0, <1>4, GotoEffect, GotoWithEffect DEF Load, GetCounter, Stages
  <2>2. RequestOK(r)' /\ SeedOK(r)'
    BY <1>0, <1>00, <2>1 DEF Moved, RequestOK, SeedOK, At, Issued, Live, Slack, AtLeast
  <2> QED BY <2>1, <2>2, KeptQuiet DEF Moved
<1>5. CASE LoadFails(r)
  <2>1. /\ UNCHANGED <<cnt, ttl, reg, pg, wk, flushed, served>> /\ lapsed \subseteq lapsed'
        /\ At(r, "load")
    BY <1>5 DEF LoadFails, Fault
  <2>2. CASE req[r].op = "Increment"
    <3>1. Moved(r, "incr", v) /\ (pg[n] > 0 => n \in lapsed')
      BY <1>5, <2>2, GotoEffect DEF LoadFails, Fault, Stages
    <3>2. RequestOK(r)' /\ SeedOK(r)'
      BY <1>0, <1>00, <2>1, <3>1 DEF Moved, RequestOK, SeedOK, At, Issued, Live, Slack, AtLeast
    <3> QED BY <2>1, <3>1, <3>2, KeptQuiet DEF Moved
  <2>3. CASE req[r].op = "Get"
    <3>1. req' = [req EXCEPT ![r] = [@ EXCEPT !.stage = "reply", !.val = 0, !.floor = 0]]
      BY <1>5, <2>3 DEF LoadFails
    <3>2. /\ \A q \in Reqs \ {r} : req'[q] = req[q]
          /\ req'[r].stage = "reply" /\ req'[r].op = "Get"
      BY <2>3, <3>1 DEF TypeOK, Request
    <3>3. RequestOK(r)' /\ SeedOK(r)'
      BY <3>2 DEF RequestOK, SeedOK, At, Issued
    <3> QED BY <2>1, <3>2, <3>3, KeptQuiet
  <2> QED BY <1>5, <2>2, <2>3 DEF LoadFails
<1>6. CASE Seed(r)
  <2>1. /\ At(r, "setnx") /\ v > 0 /\ UNCHANGED <<reg, pg, wk, flushed, served, lapsed>>
        /\ (Moved(r, "sadd", v) /\ req[r].op = "Get") \/ Moved(r, "incr", v)
    BY <1>0, <1>6, GotoEffect DEF Seed, Stages, SeedOK
  <2>2. CASE Live(n)
    <3>1. UNCHANGED <<cnt, ttl>>
      BY <1>0, <1>6, <2>2 DEF Seed, SetNX, SetNXTTL, TypeOK
    <3>2. RequestOK(r)' /\ SeedOK(r)'
      BY <1>0, <2>1, <2>2, <3>1 DEF Moved, RequestOK, SeedOK, At, Issued, Live, Slack
    <3> QED BY <2>1, <3>1, <3>2, KeptQuiet DEF Moved
  <2>3. CASE ~Live(n)
    <3>1. /\ cnt'[n] = v /\ ttl'[n] = KeyTTL
          /\ \A m \in Names \ {n} : cnt'[m] = cnt[m] /\ ttl'[m] = ttl[m]
      BY <1>0, <1>6, <2>3 DEF Seed, SetNX, SetNXTTL, TypeOK
    <3>2. \A m \in Names \ {n} : NameOK(m)'
      BY <2>1, <3>1, QuietName DEF KeptInv
    <3>3. NameOK(n)'
      <4>1. KeyOK(n)'
        BY <1>0, <2>1, <2>3, <3>1 DEF KeyOK, RequestOK, Live, AtLeast
      <4>2. RoundOK(n)'
        BY <3>1 DEF RoundOK
      <4> QED BY <1>0, <2>1, <2>3, <4>1, <4>2 DEF NameOK, Durable, Kept
    <3>4. ASSUME NEW q \in Reqs \ {r}
          PROVE  RequestOK(q)' /\ SeedOK(q)'
      <4>1. CASE req[q].name # n
        BY <2>1, <3>1, <4>1, QuietRequest, NumbersTyped DEF KeptInv, Moved
      <4>2. CASE req[q].name = n
        BY <1>0, <2>1, <2>3, <3>1, <4>2
           DEF KeptInv, Moved, RequestOK, SeedOK, At, Issued, Live, Slack
      <4> QED BY <4>1, <4>2
    <3>5. RequestOK(r)' /\ SeedOK(r)'
      BY <1>0, <2>1, <3>1 DEF Moved, RequestOK, SeedOK, At, Issued, Live, Slack
    <3> QED BY <3>2, <3>3, <3>4, <3>5 DEF KeptInv
  <2> QED BY <2>2, <2>3
<1>7. CASE IncrLoaded(r)
  BY <1>7, KeptIncr DEF IncrLoaded
<1>8. CASE Register(r)
  <2>1. /\ Moved(r, "reply", v) /\ reg' = reg \union {n} /\ At(r, "sadd")
        /\ UNCHANGED <<cnt, ttl, pg, wk, flushed, served, lapsed>>
    BY <1>8, GotoEffect DEF Register, SAdd, Stages
  <2>2. RequestOK(r)' /\ SeedOK(r)'
    BY <1>0, <2>1 DEF Moved, RequestOK, SeedOK, At, Issued, Live, Slack
  <2> QED BY <2>1, <2>2, KeptQuiet DEF Moved
<1>9. CASE Reply(r)
  <2>1. /\ \A q \in Reqs \ {r} : req'[q] = req[q]
        /\ req'[r].stage = "idle"
        /\ UNCHANGED <<cnt, ttl, reg, pg, wk, flushed, lapsed>>
    BY <1>9, EndEffect DEF Reply
  <2>2. RequestOK(r)' /\ SeedOK(r)'
    BY <2>1 DEF RequestOK, SeedOK, At, Issued
  <2>3. CASE req[r].op = "Get"
    BY <1>9, <2>1, <2>2, <2>3, KeptQuiet DEF Reply
  <2>4. CASE req[r].op # "Get"
    <3>1. /\ served'[n] = served[n] \union {v}
          /\ \A m \in Names \ {n} : served'[m] = served[m]
      BY <1>0, <1>9, <2>4 DEF Reply, TypeOK
    <3>2. At(r, "reply") /\ Issued(r)
      BY <1>9, <2>4 DEF Reply, Issued, At, TypeOK, Request
    <3>3. \A m \in Names \ {n} : NameOK(m)'
      BY <2>1, <3>1, QuietName DEF KeptInv
    <3>4. n \notin lapsed => Live(n) /\ v <= cnt[n] /\ ttl[n] >= 2 /\ n \in reg
      BY <1>0, <3>2 DEF RequestOK, Slack
    <3>5. NameOK(n)'
      <4>1. KeyOK(n)'
        BY <1>0, <2>1, <3>1, <3>4 DEF NameOK, KeyOK, Live, AtLeast
      <4>2. RoundOK(n)'
        BY <1>0, <2>1, <3>4 DEF RoundOK
      <4> QED BY <1>0, <2>1, <3>1, <3>4, <4>1, <4>2 DEF NameOK, Durable, Kept, Live
    <3>6. ASSUME NEW q \in Reqs \ {r}
          PROVE  RequestOK(q)' /\ SeedOK(q)'
      <4>1. CASE req[q].name # n
        BY <2>1, <3>1, <4>1, QuietRequest, NumbersTyped DEF KeptInv
      <4>2. CASE req[q].name = n
        BY <2>1, <3>4, <4>2 DEF KeptInv, RequestOK, SeedOK, At, Issued, Live, Slack
      <4> QED BY <4>1, <4>2
    <3> QED BY <2>2, <3>3, <3>5, <3>6 DEF KeptInv
  <2> QED BY <2>3, <2>4
<1>10. CASE Abandon(r)
  <2>1. /\ \A q \in Reqs \ {r} : req'[q] = req[q]
        /\ req'[r].stage = "idle"
        /\ UNCHANGED <<cnt, ttl, reg, pg, wk, flushed, served, lapsed>>
    BY <1>10, EndEffect DEF Abandon
  <2>2. RequestOK(r)' /\ SeedOK(r)'
    BY <2>1 DEF RequestOK, SeedOK, At, Issued
  <2> QED BY <2>1, <2>2, KeptQuiet
<1>11. CASE SeedFails(r)
  <2>1. /\ At(r, "setnx") /\ UNCHANGED <<cnt, ttl, reg, pg, wk, flushed, served>>
        /\ lapsed \subseteq lapsed'
        /\ \/ Moved(r, "sadd", v) /\ req[r].op = "Get"
           \/ Moved(r, "incr", v) /\ (n \in lapsed' \/ Live(n))
    BY <1>0, <1>11, GotoEffect DEF SeedFails, Fault, Stages, TypeOK, Request
  <2>2. RequestOK(r)' /\ SeedOK(r)'
    BY <1>0, <2>1 DEF Moved, RequestOK, SeedOK, At, Issued, Live, Slack
  <2> QED BY <2>1, <2>2, KeptQuiet DEF Moved
<1>12. CASE RegisterFails(r)
  <2>1. /\ Moved(r, "reply", v) /\ req[r].op = "Get" /\ lapsed \subseteq lapsed'
        /\ UNCHANGED <<cnt, ttl, reg, pg, wk, flushed, served>>
    BY <1>12, GotoEffect DEF RegisterFails, Fault, Stages
  <2>2. RequestOK(r)' /\ SeedOK(r)'
    BY <2>1 DEF Moved, RequestOK, SeedOK, At, Issued
  <2> QED BY <2>1, <2>2, KeptQuiet DEF Moved
<1> QED BY <1>1, <1>2, <1>3, <1>4, <1>5, <1>6, <1>7, <1>8, <1>9, <1>10, <1>11, <1>12
        DEF RequestStep

\* The steps of a round: no request is disturbed if the registry loses only
\* names without a key.
LEMMA RoundKeepsRequests ==
  ASSUME TypeOK, KeptInv, UNCHANGED <<cnt, ttl, req, served>>, lapsed \subseteq lapsed',
         \A n \in Names : Live(n) /\ n \in reg => n \in reg'
  PROVE  \A q \in Reqs : RequestOK(q)' /\ SeedOK(q)'
<1> TAKE q \in Reqs
<1>1. req[q].name \in Names /\ RequestOK(q) /\ SeedOK(q)
  BY NumbersTyped DEF KeptInv
<1> QED BY <1>1 DEF RequestOK, SeedOK, Live, At, Issued, AtLeast, Slack

LEMMA KeptRound ==
  ASSUME TypeOK, KeptInv, NEW w \in Workers, RoundStep(w) \/ RoundFault(w)
  PROVE  KeptInv'
<1>0. /\ \A k \in Workers : /\ wk[k].todo \subseteq Names
                            /\ \A n \in Names : wk[k].seen[n] \in Nat
      /\ wk[w].fresh \in BOOLEAN /\ flushed \in BOOLEAN
  BY DEF TypeOK, Round
<1>1. ASSUME \A n \in Names : Live(n) /\ n \in reg => n \in reg',
             UNCHANGED <<cnt, ttl, req, served>>, lapsed \subseteq lapsed',
             \A n \in Names : pg[n] \in Nat /\ pg'[n] >= pg[n] /\ pg'[n] \in Nat,
             \A n \in Names : RoundOK(n)'
      PROVE  KeptInv'
  <2>1. ASSUME NEW n \in Names PROVE NameOK(n)'
    <3>1. KeyOK(n)'
      BY <1>1 DEF KeptInv, NameOK, KeyOK, Live, AtLeast
    <3>2. n \notin lapsed => \A v \in served[n] : (Durable(n, v) \/ Kept(n, v))'
      BY <1>1, NumbersTyped DEF KeptInv, NameOK, Durable, Kept, Live
    <3> QED BY <1>1, <3>1, <3>2 DEF NameOK
  <2> QED BY <1>1, <2>1, RoundKeepsRequests DEF KeptInv
<1>2. CASE BeginRound(w)
  <2>1. /\ \A k \in Workers \ {w} : wk'[k] = wk[k]
        /\ wk'[w].stage = "get" /\ wk'[w].todo = reg
        /\ UNCHANGED <<cnt, ttl, reg, pg, req, flushed, served, lapsed>>
    BY <1>2 DEF BeginRound, TypeOK
  <2>2. \A n \in Names : RoundOK(n)'
    BY <2>1 DEF KeptInv, NameOK, RoundOK, Durable, Kept
  <2> QED BY <1>1, <2>1, <2>2, NumbersTyped
<1>3. CASE ReadValues(w)
  <2>1. /\ \A k \in Workers \ {w} : wk'[k] = wk[k]
        /\ wk[w].stage = "get" /\ wk'[w].todo = wk[w].todo /\ wk'[w].fresh = wk[w].fresh
        /\ \A n \in Names : n \in wk[w].todo => wk'[w].seen[n] = cnt[n]
        /\ UNCHANGED <<cnt, ttl, reg, pg, req, flushed, served, lapsed>>
    BY <1>3 DEF ReadValues, TypeOK, Round
  <2>2. \A n \in Names : RoundOK(n)'
    BY <2>1 DEF KeptInv, NameOK, RoundOK, Durable, Kept
  <2> QED BY <1>1, <2>1, <2>2, NumbersTyped
<1>4. ASSUME NEW m \in Names, PruneName(w, m) PROVE KeptInv'
  <2>1. /\ \A k \in Workers \ {w} : wk'[k] = wk[k]
        /\ wk[w].stage = "write" /\ wk'[w].stage = "write"
        /\ wk'[w].todo = wk[w].todo \ {m} /\ wk'[w].fresh = wk[w].fresh
        /\ wk'[w].seen = wk[w].seen /\ wk[w].seen[m] = 0
        /\ \A n \in Names : Live(n) /\ n \in reg => n \in reg'
        /\ UNCHANGED <<cnt, ttl, pg, req, flushed, served, lapsed>>
    BY <1>4 DEF PruneName, Prune, Handled, TypeOK, Round
  <2>2. ASSUME NEW n \in Names PROVE RoundOK(n)'
    <3>1. CASE n # m
      BY <2>1, <3>1 DEF KeptInv, NameOK, RoundOK, Durable
    <3>2. CASE n = m
      <4>1. ASSUME n \notin lapsed, NEW v \in served[n], ~Durable(n, v), ttl[n] <= 1
            PROVE  ~wk[w].fresh
        BY <1>0, <2>1, <3>2, <4>1, NumbersTyped DEF KeptInv, NameOK, RoundOK, Durable
      <4> QED BY <2>1, <3>2, <4>1 DEF KeptInv, NameOK, RoundOK, Durable
    <3> QED BY <3>1, <3>2
  <2> QED BY <1>1, <2>1, <2>2, NumbersTyped
<1>5. ASSUME NEW m \in Names, PersistName(w, m) PROVE KeptInv'
  <2>1. /\ \A k \in Workers \ {w} : wk'[k] = wk[k]
        /\ wk[w].stage = "write" /\ wk'[w].stage = "write"
        /\ wk'[w].todo = wk[w].todo \ {m} /\ wk'[w].fresh = wk[w].fresh
        /\ wk'[w].seen = wk[w].seen
        /\ UNCHANGED <<cnt, ttl, reg, req, flushed, served, lapsed>>
    BY <1>5 DEF PersistName, Handled, TypeOK, Round
  <2>2. /\ \A n \in Names : pg[n] \in Nat /\ pg'[n] >= pg[n] /\ pg'[n] \in Nat
        /\ pg'[m] >= wk[w].seen[m]
    BY <1>0, <1>5 DEF PersistName, UpsertCounter, TypeOK
  <2>3. ASSUME NEW n \in Names PROVE RoundOK(n)'
    <3>0. \A v \in served[n] : ~Durable(n, v)' => ~Durable(n, v)
      BY <2>2, NumbersTyped DEF Durable
    <3>1. CASE n # m
      BY <2>1, <3>0, <3>1 DEF KeptInv, NameOK, RoundOK
    <3>2. CASE n = m
      <4>1. ASSUME n \notin lapsed, NEW v \in served[n], ~Durable(n, v)', ttl[n] <= 1
            PROVE  ~wk[w].fresh
        <5>1. wk[w].fresh => wk[w].seen[n] >= v
          BY <2>1, <3>0, <4>1 DEF KeptInv, NameOK, RoundOK
        <5> QED BY <1>0, <2>2, <3>2, <4>1, <5>1, NumbersTyped DEF Durable
      <4> QED BY <2>1, <3>0, <3>2, <4>1 DEF KeptInv, NameOK, RoundOK
    <3> QED BY <3>1, <3>2
  <2> QED BY <1>1, <2>1, <2>2, <2>3
<1>6. ASSUME NEW m \in Names, PersistFails(w, m) PROVE KeptInv'
  <2>1. /\ \A k \in Workers \ {w} : wk'[k] = wk[k]
        /\ wk'[w].fresh = FALSE /\ lapsed \subseteq lapsed'
        /\ UNCHANGED <<cnt, ttl, reg, pg, req, flushed, served>>
    BY <1>6 DEF PersistFails, Fault, TypeOK, Round
  <2>2. \A n \in Names : RoundOK(n)'
    BY <2>1 DEF KeptInv, NameOK, RoundOK, Durable
  <2> QED BY <1>1, <2>1, <2>2, NumbersTyped
<1>7. CASE EndRound(w)
  <2>1. /\ \A k \in Workers \ {w} : wk'[k] = wk[k]
        /\ wk[w].stage = "write" /\ wk[w].todo = {} /\ wk'[w].fresh = FALSE
        /\ flushed' = (flushed \/ wk[w].fresh)
        /\ UNCHANGED <<cnt, ttl, reg, pg, req, served, lapsed>>
    BY <1>7 DEF EndRound, IdleRound, TypeOK
  <2>2. \A n \in Names : RoundOK(n)'
    BY <2>1 DEF KeptInv, NameOK, RoundOK, Durable
  <2> QED BY <1>1, <2>1, <2>2, NumbersTyped
<1>8. CASE AbortRound(w)
  <2>1. /\ \A k \in Workers \ {w} : wk'[k] = wk[k]
        /\ wk'[w].fresh = FALSE /\ lapsed \subseteq lapsed'
        /\ UNCHANGED <<cnt, ttl, reg, pg, req, flushed, served>>
    BY <1>8 DEF AbortRound, Fault, IdleRound, TypeOK
  <2>2. \A n \in Names : RoundOK(n)'
    BY <2>1 DEF KeptInv, NameOK, RoundOK, Durable
  <2> QED BY <1>1, <2>1, <2>2, NumbersTyped
<1> QED BY <1>2, <1>3, <1>4, <1>5, <1>6, <1>7, <1>8 DEF RoundStep, RoundFault

\* Time: a whole round ended since the last tick, so no key that is about to
\* expire holds a number that is not durable.
LEMMA KeptTick ==
  ASSUME TypeOK, KeptInv, Tick
  PROVE  KeptInv'
<1> USE CounterAssumption DEF CounterAssumption
<1>1. /\ \A n \in Names : /\ ttl'[n] = IF Live(n) THEN ttl[n] - 1 ELSE 0
                          /\ cnt'[n] = IF ttl'[n] > 0 THEN cnt[n] ELSE 0
      /\ flushed /\ ~flushed'
      /\ UNCHANGED <<reg, pg, served, lapsed>>
  BY DEF Tick, Aged
<1>2. \A w \in Workers : wk'[w].fresh = FALSE
  BY DEF Tick, TypeOK, Round
<1>3. ASSUME NEW r \in Reqs
      PROVE  /\ req'[r].stage = req[r].stage /\ req'[r].op = req[r].op
             /\ req'[r].name = req[r].name /\ req'[r].val = req[r].val
             /\ ~At(r, "idle") => req[r].old = FALSE /\ req'[r].old = TRUE
  BY DEF Tick, TypeOK, Request
<1>4. ASSUME NEW n \in Names PROVE NameOK(n)'
  <2>1. KeyOK(n)'
    BY <1>1, NumbersTyped DEF KeptInv, NameOK, KeyOK, Live, AtLeast
  <2>2. n \notin lapsed => \A v \in served[n] : (Durable(n, v) \/ Kept(n, v))'
    BY <1>1, NumbersTyped DEF KeptInv, NameOK, RoundOK, Durable, Kept, Live
  <2>3. RoundOK(n)'
    BY <1>1, <1>2 DEF RoundOK
  <2> QED BY <1>1, <2>1, <2>2, <2>3 DEF NameOK
<1>5. ASSUME NEW r \in Reqs PROVE RequestOK(r)' /\ SeedOK(r)'
  <2> PICK n \in Names : n = req[r].name
    BY NumbersTyped
  <2>1. ttl[n] \in 0..KeyTTL /\ RequestOK(r) /\ SeedOK(r)
    BY NumbersTyped DEF KeptInv
  <2>2. ~At(r, "idle") => Slack(r) = KeyTTL /\ Slack(r)' = KeyTTL - 1
    BY <1>3 DEF Slack
  <2>3. ~At(r, "idle") /\ ttl[n] >= KeyTTL => Live(n)' /\ ttl'[n] >= KeyTTL - 1 /\ cnt'[n] = cnt[n]
    BY <1>1, <2>1 DEF Live
  <2>4. Live(n)' => Live(n)
    BY <1>1, <2>1 DEF Live
  <2> QED BY <1>1, <1>3, <2>1, <2>2, <2>3, <2>4 DEF RequestOK, SeedOK, At, Issued, AtLeast
<1> QED BY <1>4, <1>5 DEF KeptInv

\* A name that does not lapse had everything in PostgreSQL and no request.
LEMMA KeptLoss ==
  ASSUME TypeOK, KeptInv, LoseRedis
  PROVE  KeptInv'
<1>1. /\ \A n \in Names : cnt'[n] = 0 /\ ttl'[n] = 0
      /\ lapsed \subseteq lapsed'
      /\ UNCHANGED <<pg, req, wk, flushed, served>>
  BY DEF LoseRedis, Fault, NoValues
<1>2. ASSUME NEW n \in Names, n \notin lapsed'
      PROVE  /\ cnt[n] <= pg[n] /\ \A r \in Reqs : req[r].name = n => At(r, "idle")
             /\ \A v \in served[n] : Durable(n, v)
  <2>1. n \notin lapsed /\ cnt[n] <= pg[n] /\ InFlight(n) = {}
    BY <1>2, NumbersTyped DEF LoseRedis, Fault
  <2>2. \A r \in Reqs : req[r].name = n => At(r, "idle")
    BY <2>1 DEF InFlight, At
  <2> QED BY <2>1, <2>2, NumbersTyped DEF KeptInv, NameOK, Durable, Kept
<1>3. \A n \in Names : NameOK(n)'
  BY <1>1, <1>2 DEF NameOK, KeyOK, RoundOK, Live, Durable
<1>4. ASSUME NEW r \in Reqs PROVE RequestOK(r)' /\ SeedOK(r)'
  BY <1>1, <1>2, NumbersTyped DEF KeptInv, RequestOK, SeedOK, At, Issued
<1> QED BY <1>3, <1>4 DEF KeptInv

LEMMA KeptNext == TypeOK /\ KeptInv /\ [Next]_vars => KeptInv'
<1> SUFFICES ASSUME TypeOK, KeptInv, [Next]_vars PROVE KeptInv'
  OBVIOUS
<1>1. ASSUME NEW r \in Reqs, RequestStep(r) PROVE KeptInv'
  BY <1>1, KeptRequest
<1>2. ASSUME NEW w \in Workers, RoundStep(w) \/ RoundFault(w) PROVE KeptInv'
  BY <1>2, KeptRound
<1>3. CASE UNCHANGED vars
  BY <1>3 DEF vars, KeptInv, NameOK, KeyOK, RoundOK, RequestOK, SeedOK, Live, At, Issued,
     AtLeast, Slack, Durable, Kept
<1> QED BY <1>1, <1>2, <1>3, KeptTick, KeptLoss DEF Next

\* A number shown to a visitor is in PostgreSQL, or in a live key that the
\* registry names.
THEOREM KeptCorrect == Spec => []ServedIsKept
<1>1. KeptInv => ServedIsKept
  BY DEF KeptInv, NameOK, ServedIsKept, Durable, Kept
<1> QED BY <1>1, KeptInit, KeptNext, TypeCorrect, PTL DEF Spec

-----------------------------------------------------------------------------
(* Why numbers are unique: INCR issues one above everything issued or      *)
(* served, because by KeptInv the key it runs on covers all of that.       *)

\* Steps that issue no number and serve none.
LEMMA UniqueQuiet ==
  ASSUME NumbersAreUnique, UNCHANGED served, lapsed \subseteq lapsed',
         \A q \in Reqs : Issued(q)' => /\ Issued(q) /\ req'[q].val = req[q].val
                                      /\ req'[q].name = req[q].name
  PROVE  NumbersAreUnique'
BY DEF NumbersAreUnique

\* The same when only request r moves.
LEMMA UniqueMoved ==
  ASSUME NumbersAreUnique, UNCHANGED served, lapsed \subseteq lapsed', NEW r \in Reqs,
         \A q \in Reqs \ {r} : req'[q] = req[q],
         Issued(r)' => /\ Issued(r) /\ req'[r].val = req[r].val
                       /\ req'[r].name = req[r].name
  PROVE  NumbersAreUnique'
<1>1. \A q \in Reqs \ {r} : Issued(q)' => /\ Issued(q) /\ req'[q].val = req[q].val
                                          /\ req'[q].name = req[q].name
  BY DEF Issued
<1> QED BY <1>1, UniqueQuiet

LEMMA UniqueIncr ==
  ASSUME TypeOK, KeptInv, NumbersAreUnique, NEW r \in Reqs, Incr(r, req[r].name),
         Live(req[r].name) \/ At(r, "incr"), UNCHANGED <<served, lapsed>>
  PROVE  NumbersAreUnique'
<1> PICK n \in Names : n = req[r].name
  BY NumbersTyped
<1>1. cnt[n] \in Nat /\ cnt[n] + 1 \in Nat
  BY NumbersTyped
<1>2. Moved(r, "sadd", cnt[n] + 1)
  BY <1>1, GotoWithEffect DEF Incr, Stages
<1>3. n \notin lapsed => AtLeast(cnt[n], n)
  BY <1>1, NumbersTyped DEF KeptInv, NameOK, KeyOK, RequestOK, AtLeast
<1>4. \A q \in Reqs : Issued(q) /\ req[q].name = n /\ n \notin lapsed => req[q].val <= cnt[n]
  BY DEF KeptInv, RequestOK
<1>5. n \notin lapsed => cnt[n] + 1 \notin served[n]
  BY <1>1, <1>3 DEF AtLeast
<1>6. \A q \in Reqs \ {r} : Issued(q)' <=> Issued(q)
  BY <1>2 DEF Moved, Issued
<1>7. \A q \in Reqs : req[q].val \in Nat
  BY NumbersTyped
<1> QED BY <1>1, <1>2, <1>4, <1>5, <1>6, <1>7 DEF Moved, NumbersAreUnique

LEMMA UniqueRequest ==
  ASSUME TypeOK, KeptInv, NumbersAreUnique, NEW r \in Reqs, RequestStep(r)
  PROVE  NumbersAreUnique'
<1> PICK n \in Names, v \in Nat : n = req[r].name /\ v = req[r].val
  BY NumbersTyped
<1>0. cnt[n] \in Nat /\ pg[n] \in Nat /\ SeedOK(r)
  BY NumbersTyped DEF KeptInv
<1>1. ASSUME NEW m \in Names, NEW op \in {"Increment", "Get"}, Begin(r, m, op)
      PROVE  NumbersAreUnique'
  <2>0. Begun(r, m, op)
    BY <1>1, BeginEffect
  <2>1. /\ \A q \in Reqs \ {r} : req'[q] = req[q]
        /\ req'[r].stage = IF op = "Get" THEN "get" ELSE "script"
    BY <2>0 DEF Begun
  <2>2. UNCHANGED <<served, lapsed>>
    BY <1>1 DEF Begin
  <2>3. ~Issued(r)'
    BY <2>1 DEF Issued
  <2> QED BY <2>1, <2>2, <2>3, UniqueMoved
<1>2. CASE IncrExisting(r)
  <2>1. CASE Live(n)
    BY <1>2, <2>1, UniqueIncr DEF IncrExisting
  <2>2. CASE ~Live(n)
    <3>1. Moved(r, "load", v) /\ UNCHANGED <<served, lapsed>>
      BY <1>2, <2>2, GotoEffect DEF IncrExisting, Stages
    <3> QED BY <3>1, UniqueMoved DEF Moved, Issued
  <2> QED BY <2>1, <2>2
<1>3. CASE GetKey(r)
  <2>1. Moved(r, "reply", cnt[n]) \/ Moved(r, "load", v)
    BY <1>0, <1>3, GotoEffect, GotoWithEffect DEF GetKey, Stages
  <2>2. req[r].op = "Get" /\ UNCHANGED <<served, lapsed>>
    BY <1>0, <1>3 DEF GetKey, SeedOK
  <2> QED BY <2>1, <2>2, UniqueMoved DEF Moved, Issued
<1>4. CASE Load(r)
  <2>1. /\ \/ Moved(r, "setnx", pg[n])
           \/ Moved(r, "incr", v)
           \/ Moved(r, "reply", 0) /\ req[r].op = "Get"
        /\ UNCHANGED <<served, lapsed>>
    BY <1>0, <1>4, GotoEffect, GotoWithEffect DEF Load, GetCounter, Stages
  <2> QED BY <2>1, UniqueMoved DEF Moved, Issued
<1>5. CASE LoadFails(r)
  <2>1. UNCHANGED served /\ lapsed \subseteq lapsed'
    BY <1>5 DEF LoadFails, Fault
  <2>2. CASE req[r].op = "Increment"
    <3>1. Moved(r, "incr", v)
      BY <1>5, <2>2, GotoEffect DEF LoadFails, Stages
    <3> QED BY <2>1, <3>1, UniqueMoved DEF Moved, Issued
  <2>3. CASE req[r].op = "Get"
    <3>1. /\ \A q \in Reqs \ {r} : req'[q] = req[q]
          /\ req'[r].op = "Get"
      BY <1>5, <2>3, ZenonT(30) DEF LoadFails, TypeOK, Request
    <3> QED BY <2>1, <3>1, UniqueMoved DEF Issued
  <2> QED BY <1>5, <2>2, <2>3 DEF LoadFails
<1>6. CASE Seed(r) \/ SeedFails(r)
  <2>1. /\ (Moved(r, "sadd", v) /\ req[r].op = "Get") \/ Moved(r, "incr", v)
        /\ UNCHANGED served /\ lapsed \subseteq lapsed'
    BY <1>0, <1>6, GotoEffect DEF Seed, SeedFails, Fault, Stages
  <2> QED BY <2>1, UniqueMoved DEF Moved, Issued
<1>7. CASE IncrLoaded(r)
  BY <1>7, UniqueIncr DEF IncrLoaded
<1>8. CASE Register(r) \/ RegisterFails(r)
  <2>1. /\ Moved(r, "reply", v) /\ At(r, "sadd")
        /\ UNCHANGED served /\ lapsed \subseteq lapsed'
    BY <1>8, GotoEffect DEF Register, RegisterFails, Fault, Stages
  <2> QED BY <2>1, UniqueMoved DEF Moved, Issued, At
<1>9. CASE Reply(r)
  <2>1. /\ \A q \in Reqs \ {r} : req'[q] = req[q]
        /\ req'[r].stage = "idle"
        /\ UNCHANGED lapsed
    BY <1>9, EndEffect DEF Reply
  <2>2. ~Issued(r)'
    BY <2>1 DEF Issued
  <2>3. CASE req[r].op = "Get"
    BY <1>9, <2>1, <2>2, <2>3, UniqueMoved DEF Reply
  <2>4. CASE req[r].op # "Get"
    <3>1. /\ served'[n] = served[n] \union {v}
          /\ \A m \in Names \ {n} : served'[m] = served[m]
      BY <1>9, <2>4 DEF Reply, TypeOK
    <3>2. Issued(r)
      BY <1>9, <2>4 DEF Reply, Issued, At, TypeOK, Request
    <3>3. \A q \in Reqs \ {r} : Issued(q)' <=> Issued(q)
      BY <2>1 DEF Issued
    <3>4. \A q \in Reqs : req[q].name \in Names
      BY NumbersTyped
    <3> QED BY <2>1, <2>2, <3>1, <3>2, <3>3, <3>4 DEF NumbersAreUnique
  <2> QED BY <2>3, <2>4
<1>10. CASE Abandon(r)
  <2>1. /\ \A q \in Reqs \ {r} : req'[q] = req[q]
        /\ req'[r].stage = "idle" /\ UNCHANGED <<served, lapsed>>
    BY <1>10, EndEffect DEF Abandon
  <2> QED BY <2>1, UniqueMoved DEF Issued
<1> QED BY <1>1, <1>2, <1>3, <1>4, <1>5, <1>6, <1>7, <1>8, <1>9, <1>10 DEF RequestStep

LEMMA UniqueNext == TypeOK /\ KeptInv /\ NumbersAreUnique /\ [Next]_vars => NumbersAreUnique'
<1> SUFFICES ASSUME TypeOK, KeptInv, NumbersAreUnique, [Next]_vars PROVE NumbersAreUnique'
  OBVIOUS
<1>1. ASSUME NEW r \in Reqs, RequestStep(r) PROVE NumbersAreUnique'
  BY <1>1, UniqueRequest
<1>2. ASSUME NEW w \in Workers, RoundStep(w) \/ RoundFault(w) PROVE NumbersAreUnique'
  <2>1. UNCHANGED <<req, served>> /\ lapsed \subseteq lapsed'
    BY <1>2 DEF RoundStep, RoundFault, BeginRound, ReadValues, PruneName, PersistName,
       PersistFails, EndRound, AbortRound, Fault
  <2> QED BY <2>1, UniqueQuiet DEF Issued
<1>3. CASE Tick
  <2>1. \A r \in Reqs : /\ req'[r].stage = req[r].stage /\ req'[r].op = req[r].op
                        /\ req'[r].name = req[r].name /\ req'[r].val = req[r].val
    BY <1>3 DEF Tick, TypeOK, Request
  <2> QED BY <1>3, <2>1, UniqueQuiet DEF Tick, Issued
<1>4. CASE LoseRedis
  BY <1>4, UniqueQuiet DEF LoseRedis, Fault, Issued
<1>5. CASE UNCHANGED vars
  BY <1>5, UniqueQuiet DEF vars, Issued
<1> QED BY <1>1, <1>2, <1>3, <1>4, <1>5 DEF Next

\* No number is returned twice.
THEOREM UniqueCorrect == Spec => []NumbersAreUnique
<1>1. Init => NumbersAreUnique
  BY DEF Init, NumbersAreUnique, Issued, IdleRequest
<1> QED BY <1>1, KeptInit, KeptNext, UniqueNext, TypeCorrect, PTL DEF Spec

-----------------------------------------------------------------------------
\* A number about to be returned is at least 1, also after faults, and only
\* increments come to an INCR.
IssueInv ==
    \A r \in Reqs :
        /\ Issued(r) => req[r].val > 0
        /\ req[r].stage \in {"script", "incr"} => req[r].op = "Increment"

LEMMA IssueInit == Init => IssueInv
BY DEF Init, IssueInv, Issued, IdleRequest

LEMMA IssueNext == TypeOK /\ KeptInv /\ IssueInv /\ [Next]_vars => IssueInv'
<1> SUFFICES ASSUME TypeOK, KeptInv, IssueInv, [Next]_vars PROVE IssueInv'
  OBVIOUS
<1>1. ASSUME NEW r \in Reqs, \A q \in Reqs \ {r} : req'[q] = req[q],
             Issued(r)' => req'[r].val > 0,
             req'[r].stage \in {"script", "incr"} => req'[r].op = "Increment"
      PROVE  IssueInv'
  BY <1>1 DEF IssueInv, Issued
<1>2. ASSUME NEW r \in Reqs, RequestStep(r) PROVE IssueInv'
  <2> PICK n \in Names, v \in Nat : n = req[r].name /\ v = req[r].val
    BY NumbersTyped
  <2>0. cnt[n] \in Nat /\ pg[n] \in Nat /\ SeedOK(r)
    BY NumbersTyped DEF KeptInv
  <2>1. ASSUME NEW m \in Names, NEW op \in {"Increment", "Get"}, Begin(r, m, op)
        PROVE  IssueInv'
    <3>0. Begun(r, m, op)
      BY <2>1, BeginEffect
    <3>1. /\ ~Issued(r)' /\ \A q \in Reqs \ {r} : req'[q] = req[q]
          /\ req'[r].stage \in {"script", "incr"} => req'[r].op = "Increment"
      BY <3>0 DEF Begun, Issued
    <3> QED BY <1>1, <3>1
  <2>2. CASE IncrExisting(r) \/ IncrLoaded(r)
    <3>1. Moved(r, "sadd", cnt[n] + 1) \/ Moved(r, "load", v)
      BY <2>0, <2>2, GotoEffect, GotoWithEffect DEF IncrExisting, IncrLoaded, Incr, Stages
    <3> QED BY <1>1, <2>0, <3>1 DEF Moved, Issued
  <2>3. CASE GetKey(r)
    <3>1. Moved(r, "reply", cnt[n]) \/ Moved(r, "load", v)
      BY <2>0, <2>3, GotoEffect, GotoWithEffect DEF GetKey, Stages
    <3>2. req[r].op = "Get"
      BY <2>0, <2>3 DEF GetKey, SeedOK
    <3> QED BY <1>1, <3>1, <3>2 DEF Moved, Issued
  <2>4. CASE Load(r)
    <3>1. \/ Moved(r, "setnx", pg[n])
          \/ req[r].op = "Increment" /\ Moved(r, "incr", v)
          \/ req[r].op = "Get" /\ Moved(r, "reply", 0)
      BY <2>0, <2>4, GotoEffect, GotoWithEffect DEF Load, GetCounter, Stages
    <3> QED BY <1>1, <3>1 DEF Moved, Issued
  <2>5. CASE LoadFails(r)
    <3>1. CASE req[r].op = "Increment" /\ Goto(r, "incr")
      BY <1>1, <3>1, GotoEffect DEF Moved, Issued, Stages
    <3>2. CASE req[r].op = "Get" /\ req' = [req EXCEPT ![r] = [@ EXCEPT !.stage = "reply", !.val = 0, !.floor = 0]]
      BY <1>1, <3>2 DEF Issued, TypeOK, Request
    <3> QED BY <2>5, <3>1, <3>2 DEF LoadFails
  <2>6. CASE Seed(r) \/ SeedFails(r)
    <3>1. \/ req[r].op # "Get" /\ Moved(r, "incr", v)
          \/ req[r].op = "Get" /\ Moved(r, "sadd", v)
      BY <2>6, GotoEffect DEF Seed, SeedFails, Stages
    <3>2. req[r].op \in {"Increment", "Get"}
      BY DEF TypeOK, Request
    <3> QED BY <1>1, <3>1, <3>2 DEF Moved, Issued
  <2>7. CASE Register(r) \/ RegisterFails(r)
    <3>1. Moved(r, "reply", v) /\ At(r, "sadd")
      BY <2>7, GotoEffect DEF Register, RegisterFails, Stages
    <3> QED BY <1>1, <3>1 DEF Moved, Issued, IssueInv, At
  <2>8. CASE Reply(r) \/ Abandon(r)
    <3>1. /\ ~Issued(r)' /\ \A q \in Reqs \ {r} : req'[q] = req[q]
          /\ req'[r].stage = "idle"
      BY <2>8, EndEffect DEF Reply, Abandon, Issued
    <3> QED BY <1>1, <3>1
  <2> QED BY <1>2, <2>1, <2>2, <2>3, <2>4, <2>5, <2>6, <2>7, <2>8 DEF RequestStep
<1>3. CASE UNCHANGED req
  BY <1>3 DEF IssueInv, Issued
<1>4. ASSUME NEW w \in Workers, RoundStep(w) \/ RoundFault(w) PROVE IssueInv'
  BY <1>3, <1>4 DEF RoundStep, RoundFault, BeginRound, ReadValues, PruneName, PersistName,
     PersistFails, EndRound, AbortRound
<1>5. CASE Tick
  <2>1. \A r \in Reqs : /\ req'[r].stage = req[r].stage /\ req'[r].op = req[r].op
                        /\ req'[r].val = req[r].val
    BY <1>5 DEF Tick, TypeOK, Request
  <2> QED BY <2>1 DEF IssueInv, Issued
<1>6. CASE LoseRedis
  BY <1>3, <1>6 DEF LoseRedis
<1>7. CASE UNCHANGED vars
  BY <1>3, <1>7 DEF vars
<1> QED BY <1>2, <1>4, <1>5, <1>6, <1>7 DEF Next

-----------------------------------------------------------------------------
(* Why previews are fresh: a Get that finds no key finds every number      *)
(* served so far in PostgreSQL, where it stays while the Get runs.         *)

FreshOK(r) ==
    /\ req[r].floor = 0 \/ req[r].floor \in served[req[r].name]
    /\ At(r, "get") => req[r].op = "Get"
    /\ At(r, "load") => pg[req[r].name] >= req[r].floor
    /\ req[r].stage \in {"setnx", "sadd", "reply"} => req[r].val >= req[r].floor

FreshInv ==
    \A r \in Reqs : req[r].op = "Get" /\ req[r].name \notin lapsed => FreshOK(r)

LEMMA FreshQuiet ==
  ASSUME TypeOK, TypeOK', FreshInv, NEW r \in Reqs, lapsed \subseteq lapsed',
         \A n \in Names : pg'[n] >= pg[n] /\ served[n] \subseteq served'[n],
         req'[r].stage = req[r].stage, req'[r].op = req[r].op, req'[r].name = req[r].name,
         req'[r].val = req[r].val, req'[r].floor = req[r].floor
  PROVE  req'[r].op = "Get" /\ req'[r].name \notin lapsed' => FreshOK(r)'
<1>1. req[r].name \in Names /\ req[r].floor \in Nat
  BY DEF TypeOK, Request
<1>2. pg[req[r].name] \in Nat /\ pg'[req[r].name] \in Nat
  BY <1>1 DEF TypeOK
<1>3. pg[req[r].name] >= req[r].floor => pg'[req[r].name] >= req[r].floor
  BY <1>1, <1>2
<1>4. req[r].floor \in served[req[r].name] => req[r].floor \in served'[req[r].name]
  BY <1>1
<1>5. req[r].op = "Get" /\ req[r].name \notin lapsed => FreshOK(r)
  BY DEF FreshInv
<1> QED BY <1>3, <1>4, <1>5 DEF FreshOK, At

LEMMA FreshNext == TypeOK /\ KeptInv /\ IssueInv /\ FreshInv /\ [Next]_vars => FreshInv'
<1> SUFFICES ASSUME TypeOK, KeptInv, IssueInv, FreshInv, [Next]_vars PROVE FreshInv'
  OBVIOUS
<1> TypeOK'
  BY TypeNext
<1>0. ASSUME NEW n \in Names PROVE pg[n] \in Nat /\ cnt[n] \in Nat /\ served[n] \subseteq Nat
  BY NumbersTyped
<1>1. ASSUME NEW r \in Reqs, \A q \in Reqs \ {r} : req'[q] = req[q], lapsed \subseteq lapsed',
             UNCHANGED pg, \A n \in Names : served[n] \subseteq served'[n],
             req'[r].op = "Get" /\ req'[r].name \notin lapsed' => FreshOK(r)'
      PROVE  FreshInv'
  <2>1. ASSUME NEW q \in Reqs \ {r}
        PROVE  req'[q].op = "Get" /\ req'[q].name \notin lapsed' => FreshOK(q)'
    <3>1. \A n \in Names : pg'[n] >= pg[n]
      BY <1>0, <1>1
    <3> QED BY <1>1, <3>1, FreshQuiet
  <2> QED BY <1>1, <2>1 DEF FreshInv
<1>2. ASSUME NEW r \in Reqs, RequestStep(r) PROVE FreshInv'
  <2> PICK n \in Names, v \in Nat, f \in Nat : n = req[r].name /\ v = req[r].val /\ f = req[r].floor
    BY DEF TypeOK, Request
  <2>0. req[r].op = "Get" /\ n \notin lapsed => FreshOK(r)
    BY DEF FreshInv
  <2>1. ASSUME NEW m \in Names, NEW op \in {"Increment", "Get"}, Begin(r, m, op)
        PROVE  FreshInv'
    <3>0. Begun(r, m, op)
      BY <2>1, BeginEffect
    <3>1. /\ \A q \in Reqs \ {r} : req'[q] = req[q]
          /\ req'[r].stage = (IF op = "Get" THEN "get" ELSE "script")
          /\ req'[r].op = op /\ req'[r].name = m
          /\ req'[r].floor = 0 \/ req'[r].floor \in served[m]
          /\ UNCHANGED <<pg, served, lapsed>>
      BY <3>0 DEF Begun
    <3>2. req'[r].op = "Get" => FreshOK(r)'
      BY <3>1 DEF FreshOK, At
    <3> QED BY <1>1, <3>1, <3>2
  <2>2. ASSUME NEW s \in Stages, NEW x \in Nat, Moved(r, s, x), UNCHANGED <<pg, served>>,
               lapsed \subseteq lapsed',
               req[r].op = "Get" /\ n \notin lapsed =>
                   /\ s # "get"
                   /\ s = "load" => pg[n] >= f
                   /\ s \in {"setnx", "sadd", "reply"} => x >= f
        PROVE  FreshInv'
    <3>1. req[r].op = "Get" /\ n \notin lapsed' => FreshOK(r)'
      BY <2>0, <2>2 DEF FreshOK, Moved, At
    <3> QED BY <1>1, <2>2, <3>1 DEF Moved
  <2>3. CASE IncrExisting(r) \/ IncrLoaded(r)
    <3>1. cnt[n] + 1 \in Nat
      BY <1>0
    <3>2. Moved(r, "sadd", cnt[n] + 1) \/ Moved(r, "load", v)
      BY <2>3, <3>1, GotoEffect, GotoWithEffect DEF IncrExisting, IncrLoaded, Incr, Stages
    <3>3. req[r].op = "Increment" /\ UNCHANGED <<pg, served, lapsed>>
      BY <2>3 DEF IncrExisting, IncrLoaded, IssueInv, At
    <3> QED BY <2>2, <3>1, <3>2, <3>3 DEF Stages
  <2>4. CASE GetKey(r)
    <3>1. UNCHANGED <<pg, served, lapsed>> /\ At(r, "get")
      BY <2>4 DEF GetKey
    <3>2. CASE Live(n)
      <4>1. Moved(r, "reply", cnt[n])
        BY <1>0, <2>4, <3>2, GotoWithEffect DEF GetKey, Stages
      <4>2. n \notin lapsed => AtLeast(cnt[n], n)
        BY <3>2 DEF KeptInv, NameOK, KeyOK
      <4>3. req[r].op = "Get" /\ n \notin lapsed => cnt[n] >= f
        BY <1>0, <2>0, <4>2 DEF FreshOK, AtLeast
      <4> QED BY <1>0, <2>2, <3>1, <4>1, <4>3 DEF Stages
    <3>3. CASE ~Live(n)
      <4>1. Moved(r, "load", v)
        BY <2>4, <3>3, GotoEffect DEF GetKey, Stages
      <4>2. n \notin lapsed => \A x \in served[n] : pg[n] >= x
        BY <3>3 DEF KeptInv, NameOK, Kept, Durable
      <4>3. req[r].op = "Get" /\ n \notin lapsed => pg[n] >= f
        BY <1>0, <2>0, <4>2 DEF FreshOK
      <4> QED BY <2>2, <3>1, <4>1, <4>3 DEF Stages
    <3> QED BY <3>2, <3>3
  <2>5. CASE Load(r)
    <3>1. UNCHANGED <<pg, served, lapsed>> /\ At(r, "load")
      BY <2>5 DEF Load
    <3>2. req[r].op = "Get" /\ n \notin lapsed => pg[n] >= f
      BY <2>0, <3>1 DEF FreshOK
    <3>3. \/ Moved(r, "setnx", pg[n])
          \/ req[r].op = "Increment" /\ Moved(r, "incr", v)
          \/ pg[n] = 0 /\ Moved(r, "reply", 0)
      BY <1>0, <2>5, GotoEffect, GotoWithEffect DEF Load, GetCounter, Stages
    <3> QED BY <1>0, <2>2, <3>1, <3>2, <3>3 DEF Stages
  <2>6. CASE LoadFails(r)
    <3>1. UNCHANGED <<pg, served>> /\ lapsed \subseteq lapsed'
      BY <2>6 DEF LoadFails, Fault
    <3>2. CASE req[r].op = "Increment" /\ Goto(r, "incr")
      <4>1. Moved(r, "incr", v)
        BY <3>2, GotoEffect DEF Stages
      <4> QED BY <2>2, <3>1, <3>2, <4>1 DEF Stages
    <3>3. CASE req' = [req EXCEPT ![r] = [@ EXCEPT !.stage = "reply", !.val = 0, !.floor = 0]]
      <4>1. /\ req'[r].stage = "reply" /\ req'[r].val = 0 /\ req'[r].floor = 0
            /\ \A q \in Reqs \ {r} : req'[q] = req[q]
        BY <3>3 DEF TypeOK, Request
      <4>2. FreshOK(r)'
        BY <4>1 DEF FreshOK, At
      <4> QED BY <1>1, <3>1, <4>1, <4>2
    <3> QED BY <2>6, <3>2, <3>3 DEF LoadFails
  <2>7. CASE Seed(r) \/ SeedFails(r)
    <3>1. Moved(r, "incr", v) \/ Moved(r, "sadd", v)
      BY <2>7, GotoEffect DEF Seed, SeedFails, Stages
    <3>2. At(r, "setnx") /\ UNCHANGED <<pg, served>> /\ lapsed \subseteq lapsed'
      BY <2>7 DEF Seed, SeedFails, Fault
    <3>3. req[r].op = "Get" /\ n \notin lapsed => v >= f
      BY <2>0, <3>2 DEF FreshOK, At
    <3> QED BY <2>2, <3>1, <3>2, <3>3 DEF Stages
  <2>8. CASE Register(r) \/ RegisterFails(r)
    <3>1. Moved(r, "reply", v)
      BY <2>8, GotoEffect DEF Register, RegisterFails, Stages
    <3>2. At(r, "sadd") /\ UNCHANGED <<pg, served>> /\ lapsed \subseteq lapsed'
      BY <2>8 DEF Register, RegisterFails, Fault
    <3>3. req[r].op = "Get" /\ n \notin lapsed => v >= f
      BY <2>0, <3>2 DEF FreshOK, At
    <3> QED BY <2>2, <3>1, <3>2, <3>3 DEF Stages
  <2>9. CASE Reply(r) \/ Abandon(r)
    <3>1. req' = [req EXCEPT ![r] = IdleRequest] /\ UNCHANGED <<pg, lapsed>>
      BY <2>9 DEF Reply, Abandon
    <3>2. \A m \in Names : served[m] \subseteq served'[m]
      BY <2>9 DEF Reply, Abandon, TypeOK
    <3>3. /\ \A q \in Reqs \ {r} : req'[q] = req[q]
          /\ req'[r].stage = "idle" /\ req'[r].floor = 0
      BY <3>1, IdleRequestType DEF TypeOK, IdleRequest, Request
    <3>4. FreshOK(r)'
      BY <3>3 DEF FreshOK, At
    <3> QED BY <1>1, <3>1, <3>2, <3>3, <3>4
  <2> QED BY <1>2, <2>1, <2>3, <2>4, <2>5, <2>6, <2>7, <2>8, <2>9 DEF RequestStep
<1>3. ASSUME UNCHANGED served, lapsed \subseteq lapsed', \A n \in Names : pg'[n] >= pg[n],
             \A r \in Reqs : /\ req'[r].stage = req[r].stage /\ req'[r].op = req[r].op
                             /\ req'[r].name = req[r].name /\ req'[r].val = req[r].val
                             /\ req'[r].floor = req[r].floor
      PROVE  FreshInv'
  BY <1>3, FreshQuiet DEF FreshInv
<1>4. ASSUME NEW w \in Workers, RoundStep(w) \/ RoundFault(w) PROVE FreshInv'
  <2>1. UNCHANGED <<req, served>> /\ lapsed \subseteq lapsed'
    BY <1>4 DEF RoundStep, RoundFault, BeginRound, ReadValues, PruneName, PersistName,
       PersistFails, EndRound, AbortRound, Fault
  <2>2. \A n \in Names : pg'[n] >= pg[n]
    <3>1. ASSUME NEW m \in Names, PersistName(w, m)
          PROVE  \A n \in Names : pg'[n] >= pg[n]
      <4> PICK v \in Nat : v = wk[w].seen[m]
        BY NumbersTyped
      <4>1. pg' = [pg EXCEPT ![m] = IF v > pg[m] THEN v ELSE pg[m]] /\ pg \in [Names -> Nat]
        BY <3>1 DEF PersistName, UpsertCounter, TypeOK
      <4> QED BY <4>1
    <3>2. CASE UNCHANGED pg
      BY <1>0, <3>2
    <3> QED BY <1>4, <3>1, <3>2 DEF RoundStep, RoundFault, BeginRound, ReadValues, PruneName,
          PersistFails, EndRound, AbortRound
  <2> QED BY <1>3, <2>1, <2>2
<1>5. CASE Tick
  <2>1. \A r \in Reqs : /\ req'[r].stage = req[r].stage /\ req'[r].op = req[r].op
                        /\ req'[r].name = req[r].name /\ req'[r].val = req[r].val
                        /\ req'[r].floor = req[r].floor
    BY <1>5 DEF Tick, TypeOK, Request
  <2>2. \A n \in Names : pg'[n] >= pg[n]
    BY <1>0, <1>5 DEF Tick
  <2> QED BY <1>3, <1>5, <2>1, <2>2 DEF Tick
<1>6. CASE LoseRedis \/ UNCHANGED vars
  <2>1. UNCHANGED <<req, served, pg>> /\ lapsed \subseteq lapsed'
    BY <1>6 DEF LoseRedis, Fault, vars
  <2> QED BY <1>0, <1>3, <2>1
<1> QED BY <1>2, <1>4, <1>5, <1>6 DEF Next

\* A preview shows at least every number served before it began.
THEOREM FreshCorrect == Spec => []ReadsAreFresh
<1>1. Init => FreshInv
  BY DEF Init, FreshInv, FreshOK, At, IdleRequest
<1>2. FreshInv => ReadsAreFresh
  BY DEF FreshInv, FreshOK, ReadsAreFresh, At
<1>3. Spec => []KeptInv
  BY KeptInit, KeptNext, TypeCorrect, PTL DEF Spec
<1>4. Spec => []IssueInv
  BY <1>3, IssueInit, IssueNext, TypeCorrect, PTL DEF Spec
<1> QED BY <1>1, <1>2, <1>3, <1>4, FreshNext, TypeCorrect, PTL DEF Spec

-----------------------------------------------------------------------------
(* Counter implements HitCounter. *)

LEMMA GivenIs ==
  ASSUME NEW r \in Reqs
  PROVE  /\ Given[r] = IF Issued(r) THEN <<req[r].name, req[r].val>> ELSE <<>>
         /\ Given'[r] = IF Issued(r)' THEN <<req'[r].name, req'[r].val>> ELSE <<>>
BY DEF Given

\* Pairs are equal only if their parts are.
LEMMA Pairs ==
  ASSUME NEW a, NEW b, NEW c, NEW d
  PROVE  /\ <<a, b>> = <<c, d>> => a = c /\ b = d
         /\ <<>> # <<c, d>>
OBVIOUS

LEMMA GivenType == Given = [r \in Reqs |-> Given[r]] /\ Given' = [r \in Reqs |-> Given'[r]]
BY DEF Given

\* A step that gives nobody a number and takes none away.
LEMMA Quiet ==
  ASSUME TypeOK', UNCHANGED <<served, pg, hits>>, lapsed \subseteq lapsed',
         \A q \in Reqs : Given'[q] = Given[q]
  PROVE  Promise!Lapse
<1>1. Given' = Given
  BY GivenType
<1>2. lapsed' \in SUBSET Names /\ lapsed' = lapsed \union lapsed'
  BY DEF TypeOK
<1> QED BY <1>1, <1>2 DEF Promise!Lapse

\* The same for a step of request r that leaves its number alone.
LEMMA QuietMove ==
  ASSUME TypeOK', NEW r \in Reqs, \A q \in Reqs \ {r} : req'[q] = req[q],
         UNCHANGED <<served, pg, hits>>, lapsed \subseteq lapsed',
         Issued(r)' <=> Issued(r),
         Issued(r) => req'[r].name = req[r].name /\ req'[r].val = req[r].val
  PROVE  Promise!Lapse
<1>1. \A q \in Reqs \ {r} : Issued(q)' <=> Issued(q)
  BY DEF Issued
<1>2. \A q \in Reqs : Given'[q] = Given[q]
  BY <1>1, GivenIs
<1> QED BY <1>2, Quiet

\* INCR gives the request a new number.
LEMMA Hits ==
  ASSUME TypeOK, NeverOvercounts, NumbersAreUnique', NEW r \in Reqs,
         req[r].op = "Increment", ~Issued(r), Incr(r, req[r].name),
         UNCHANGED <<served, pg, lapsed>>
  PROVE  \E n \in Names : Promise!Hit(r, n)
<1> PICK n \in Names : n = req[r].name
  BY NumbersTyped
<1> PICK v \in Nat : v = cnt[n] + 1
  BY NumbersTyped
<1>1. cnt[n] \in Nat /\ hits[n] \in Nat /\ cnt[n] <= hits[n]
  BY DEF TypeOK, NeverOvercounts
<1>2. v \in 1..hits[n] + 1
  BY <1>1
<1>3. Moved(r, "sadd", v) /\ hits' = [hits EXCEPT ![n] = @ + 1]
  BY <1>1, GotoWithEffect DEF Incr, Stages
<1>4. Issued(r)' /\ \A q \in Reqs \ {r} : Issued(q)' <=> Issued(q)
  BY <1>3 DEF Moved, Issued
<1>5. Given[r] = <<>> /\ Given'[r] = <<n, v>> /\ \A q \in Reqs \ {r} : Given'[q] = Given[q]
  BY <1>3, <1>4, GivenIs DEF Moved
<1>6. Given' = [Given EXCEPT ![r] = <<n, v>>]
  BY <1>5, GivenType
<1>7. ASSUME n \notin lapsed PROVE Promise!New(n, v)
  <2>1. v \notin served[n] /\ \A q \in Reqs \ {r} : Issued(q)' /\ req'[q].name = n => req'[q].val # v
    BY <1>3, <1>4, <1>7 DEF NumbersAreUnique, Moved
  <2>2. ASSUME NEW q \in Reqs \ {r} PROVE Given[q] # <<n, v>>
    <3>1. CASE Issued(q)
      <4>1. req[q].name # n \/ req[q].val # v
        BY <1>3, <1>4, <2>1, <3>1 DEF Moved
      <4>2. Given[q] = <<req[q].name, req[q].val>>
        BY <3>1, GivenIs
      <4> QED BY <4>1, <4>2, Pairs
    <3>2. CASE ~Issued(q)
      <4>1. Given[q] = <<>>
        BY <3>2, GivenIs
      <4> QED BY <4>1, Pairs
    <3> QED BY <3>1, <3>2
  <2>3. Given[r] # <<n, v>>
    BY <1>5, Pairs
  <2> QED BY <2>1, <2>2, <2>3 DEF Promise!New
<1> QED BY <1>2, <1>3, <1>5, <1>6, <1>7 DEF Promise!Hit

\* The number of request r is shown.
LEMMA Shows ==
  ASSUME TypeOK, NeverOvercounts, IssueInv, NEW r \in Reqs, Reply(r), Issued(r)
  PROVE  \E n \in Names : Promise!Show(r, n)
<1> PICK n \in Names, v \in Nat : n = req[r].name /\ v = req[r].val
  BY NumbersTyped
<1>1. hits[n] \in Nat /\ v \in 1..hits[n]
  BY DEF TypeOK, NeverOvercounts, IssueInv
<1>2. served' = [served EXCEPT ![n] = @ \union {v}] /\ UNCHANGED <<hits, pg, lapsed>>
  BY DEF Reply, Issued
<1>3. ~Issued(r)' /\ \A q \in Reqs \ {r} : req'[q] = req[q]
  BY EndEffect DEF Reply, Issued
<1>4. \A q \in Reqs \ {r} : Issued(q)' <=> Issued(q)
  BY <1>3 DEF Issued
<1>5. Given[r] = <<n, v>> /\ Given'[r] = <<>> /\ \A q \in Reqs \ {r} : Given'[q] = Given[q]
  BY <1>3, <1>4, GivenIs
<1>6. Given' = [Given EXCEPT ![r] = <<>>]
  BY <1>5, GivenType
<1> QED BY <1>1, <1>2, <1>5, <1>6 DEF Promise!Show

\* A request that ends without an answer drops its number, if it has one.
LEMMA Leaves ==
  ASSUME TypeOK, NEW r \in Reqs, req' = [req EXCEPT ![r] = IdleRequest],
         UNCHANGED <<served, pg, hits, lapsed>>
  PROVE  Promise!Leave(r)
<1>1. ~Issued(r)' /\ \A q \in Reqs \ {r} : req'[q] = req[q]
  BY EndEffect DEF Issued
<1>2. \A q \in Reqs \ {r} : Issued(q)' <=> Issued(q)
  BY <1>1 DEF Issued
<1>3. Given'[r] = <<>> /\ \A q \in Reqs \ {r} : Given'[q] = Given[q]
  BY <1>1, <1>2, GivenIs
<1>4. Given' = [Given EXCEPT ![r] = <<>>]
  BY <1>3, GivenType
<1> QED BY <1>4 DEF Promise!Leave

-----------------------------------------------------------------------------
\* A step of a request.
LEMMA RequestSimulates ==
  ASSUME TypeOK, TypeOK', NeverOvercounts, KeptInv, IssueInv, NumbersAreUnique',
         NEW r \in Reqs, RequestStep(r)
  PROVE  Promise!HitNext
<1> PICK n \in Names, v \in Nat : n = req[r].name /\ v = req[r].val
  BY NumbersTyped
<1>0. cnt[n] \in Nat /\ pg[n] \in Nat /\ SeedOK(r) /\ req[r].op \in {"Increment", "Get"}
  BY NumbersTyped DEF KeptInv, TypeOK, Request
<1>a. Promise!Lapse \/ Promise!Leave(r) => Promise!HitNext
  BY DEF Promise!HitNext
<1>b. (\E m \in Names : Promise!Hit(r, m) \/ Promise!Show(r, m)) => Promise!HitNext
  BY DEF Promise!HitNext
<1>1. ASSUME NEW m \in Names, NEW op \in {"Increment", "Get"}, Begin(r, m, op)
      PROVE  Promise!HitNext
  <2>0. Begun(r, m, op)
    BY <1>1, BeginEffect
  <2>1. /\ ~Issued(r)' /\ \A q \in Reqs \ {r} : req'[q] = req[q]
        /\ UNCHANGED <<served, pg, hits, lapsed>>
    BY <2>0 DEF Begun, Issued
  <2>2. ~Issued(r)
    BY <1>1 DEF Begin, Issued, At
  <2> QED BY <1>a, <2>1, <2>2, QuietMove
<1>2. CASE IncrExisting(r)
  <2>1. CASE Live(n)
    <3>1. Incr(r, n) /\ UNCHANGED <<served, pg, lapsed>> /\ ~Issued(r)
      BY <1>2, <2>1 DEF IncrExisting, Issued, At
    <3>2. req[r].op = "Increment"
      BY <1>2 DEF IncrExisting, At, IssueInv
    <3> QED BY <1>b, <3>1, <3>2, Hits
  <2>2. CASE ~Live(n)
    <3>1. Moved(r, "load", v) /\ UNCHANGED <<served, pg, hits, lapsed>> /\ ~Issued(r)
      BY <1>2, <2>2, GotoEffect DEF IncrExisting, Stages, Issued, At
    <3> QED BY <1>a, <3>1, QuietMove DEF Moved, Issued
  <2> QED BY <2>1, <2>2
<1>3. CASE GetKey(r)
  <2>1. Moved(r, "reply", cnt[n]) \/ Moved(r, "load", v)
    BY <1>0, <1>3, GotoEffect, GotoWithEffect DEF GetKey, Stages
  <2>2. req[r].op = "Get" /\ UNCHANGED <<served, pg, hits, lapsed>>
    BY <1>0, <1>3 DEF GetKey, SeedOK
  <2> QED BY <1>a, <2>1, <2>2, QuietMove DEF Moved, Issued
<1>4. CASE Load(r)
  <2>1. Moved(r, "setnx", pg[n]) \/ Moved(r, "incr", v) \/ (req[r].op = "Get" /\ Moved(r, "reply", 0))
    BY <1>0, <1>4, GotoEffect, GotoWithEffect DEF Load, GetCounter, Stages
  <2>2. ~Issued(r) /\ UNCHANGED <<served, pg, hits, lapsed>>
    BY <1>4 DEF Load, Issued, At
  <2> QED BY <1>a, <2>1, <2>2, QuietMove DEF Moved, Issued
<1>5. CASE LoadFails(r)
  <2>1. ~Issued(r) /\ UNCHANGED <<served, pg, hits>> /\ lapsed \subseteq lapsed'
    BY <1>5 DEF LoadFails, Fault, Issued, At
  <2>2. ~Issued(r)' /\ \A q \in Reqs \ {r} : req'[q] = req[q]
    <3>1. CASE req[r].op = "Increment" /\ Goto(r, "incr")
      BY <3>1, GotoEffect DEF Moved, Issued, Stages
    <3>2. CASE req[r].op = "Get" /\ req' = [req EXCEPT ![r] = [@ EXCEPT !.stage = "reply", !.val = 0, !.floor = 0]]
      BY <3>2 DEF Issued, TypeOK, Request
    <3> QED BY <1>5, <3>1, <3>2 DEF LoadFails
  <2> QED BY <1>a, <2>1, <2>2, QuietMove
<1>6. CASE Seed(r) \/ SeedFails(r)
  <2>1. Moved(r, "incr", v) \/ (req[r].op = "Get" /\ Moved(r, "sadd", v))
    BY <1>6, GotoEffect DEF Seed, SeedFails, Stages
  <2>2. ~Issued(r) /\ UNCHANGED <<served, pg, hits>> /\ lapsed \subseteq lapsed'
    BY <1>6 DEF Seed, SeedFails, Fault, Issued, At
  <2> QED BY <1>a, <2>1, <2>2, QuietMove DEF Moved, Issued
<1>7. CASE IncrLoaded(r)
  <2>1. Incr(r, n) /\ UNCHANGED <<served, pg, lapsed>> /\ ~Issued(r)
    BY <1>7 DEF IncrLoaded, Issued, At
  <2>2. req[r].op = "Increment"
    BY <1>7 DEF IncrLoaded, At, IssueInv
  <2> QED BY <1>b, <2>1, <2>2, Hits
<1>8. CASE Register(r) \/ RegisterFails(r)
  <2>1. Moved(r, "reply", v) /\ At(r, "sadd")
    BY <1>8, GotoEffect DEF Register, RegisterFails, Stages
  <2>2. UNCHANGED <<served, pg, hits>> /\ lapsed \subseteq lapsed'
    BY <1>8 DEF Register, RegisterFails, Fault
  <2> QED BY <1>a, <2>1, <2>2, QuietMove DEF Moved, Issued, At
<1>9. CASE Reply(r)
  <2>1. CASE Issued(r)
    BY <1>b, <1>9, <2>1, Shows
  <2>2. CASE ~Issued(r)
    <3>1. req[r].op = "Get" /\ UNCHANGED <<served, pg, hits, lapsed>>
      BY <1>0, <1>9, <2>2 DEF Reply, Issued, At
    <3> QED BY <1>a, <1>9, <3>1, Leaves DEF Reply
  <2> QED BY <2>1, <2>2
<1>10. CASE Abandon(r)
  BY <1>a, <1>10, Leaves DEF Abandon
<1> QED BY <1>1, <1>2, <1>3, <1>4, <1>5, <1>6, <1>7, <1>8, <1>9, <1>10 DEF RequestStep

LEMMA NextSimulates ==
  ASSUME TypeOK, TypeOK', NeverOvercounts, KeptInv, IssueInv, NumbersAreUnique', [Next]_vars
  PROVE  [Promise!HitNext]_(Promise!hitVars)
<1>a. Promise!Lapse => Promise!HitNext
  BY DEF Promise!HitNext
<1>1. ASSUME NEW r \in Reqs, RequestStep(r) PROVE Promise!HitNext
  BY <1>1, RequestSimulates
<1>2. ASSUME NEW w \in Workers, NEW n \in Names, PersistName(w, n)
      PROVE  [Promise!HitNext]_(Promise!hitVars)
  <2>1. Given' = Given /\ UNCHANGED <<served, hits, lapsed>>
    BY <1>2 DEF PersistName, Given, Issued
  <2> PICK v \in Nat : v = wk[w].seen[n]
    BY NumbersTyped
  <2>2. /\ pg[n] \in Nat /\ hits[n] \in Nat /\ v <= hits[n]
        /\ pg' = [pg EXCEPT ![n] = IF v > pg[n] THEN v ELSE pg[n]]
    BY <1>2 DEF TypeOK, NeverOvercounts, PersistName, UpsertCounter
  <2>3. CASE v > pg[n]
    <3>1. v \in 1..hits[n] /\ pg' = [pg EXCEPT ![n] = v]
      BY <2>2, <2>3
    <3>2. Promise!Persist(n)
      BY <2>1, <2>3, <3>1 DEF Promise!Persist
    <3> QED BY <3>2 DEF Promise!HitNext
  <2>4. CASE ~(v > pg[n])
    <3>1. pg' = pg
      BY <2>2, <2>4 DEF TypeOK
    <3> QED BY <2>1, <3>1 DEF Promise!hitVars
  <2> QED BY <2>3, <2>4
<1>3. ASSUME UNCHANGED <<served, pg, hits>>, lapsed \subseteq lapsed',
             \A q \in Reqs : /\ req'[q].stage = req[q].stage /\ req'[q].op = req[q].op
                             /\ req'[q].name = req[q].name /\ req'[q].val = req[q].val
      PROVE  Promise!HitNext
  <2>1. \A q \in Reqs : Given'[q] = Given[q]
    BY <1>3, GivenIs DEF Issued
  <2> QED BY <1>a, <1>3, <2>1, Quiet
<1>4. ASSUME NEW w \in Workers, NEW n \in Names,
             BeginRound(w) \/ ReadValues(w) \/ PruneName(w, n) \/ EndRound(w)
               \/ PersistFails(w, n) \/ AbortRound(w)
      PROVE  Promise!HitNext
  BY <1>3, <1>4 DEF BeginRound, ReadValues, PruneName, PersistFails, EndRound, AbortRound, Fault
<1>5. ASSUME NEW w \in Workers, RoundStep(w) \/ RoundFault(w)
      PROVE  [Promise!HitNext]_(Promise!hitVars)
  <2> PICK n0 \in Names : TRUE
    BY CounterAssumption DEF CounterAssumption
  <2> QED BY <1>2, <1>4, <1>5 DEF RoundStep, RoundFault
<1>6. CASE Tick
  <2>1. \A q \in Reqs : /\ req'[q].stage = req[q].stage /\ req'[q].op = req[q].op
                        /\ req'[q].name = req[q].name /\ req'[q].val = req[q].val
    BY <1>6 DEF Tick, TypeOK, Request
  <2> QED BY <1>3, <1>6, <2>1 DEF Tick
<1>7. CASE LoseRedis
  BY <1>3, <1>7 DEF LoseRedis, Fault
<1>8. CASE UNCHANGED vars
  BY <1>3, <1>8 DEF vars
<1> QED BY <1>1, <1>5, <1>6, <1>7, <1>8 DEF Next

\* Counter implements the safety half of HitCounter: the numbers it gives to
\* visitors are new until a fault costs the name its promise, what it shows
\* was given, and the durable number only grows, up to the number of visits.
THEOREM RefinementCorrect == Spec => Promise!HitSafety
<1>1. Init => Promise!HitInit
  BY DEF Init, Promise!HitInit, NoValues, Given, Issued, IdleRequest
<1>2. TypeOK /\ TypeOK' /\ NeverOvercounts /\ KeptInv /\ IssueInv /\ NumbersAreUnique' /\ [Next]_vars
        => [Promise!HitNext]_(Promise!hitVars)
  BY NextSimulates
<1>3. Spec => []KeptInv
  BY KeptInit, KeptNext, TypeCorrect, PTL DEF Spec
<1>4. Spec => []IssueInv
  BY <1>3, IssueInit, IssueNext, TypeCorrect, PTL DEF Spec
<1> QED BY <1>1, <1>2, <1>3, <1>4, TypeCorrect, OvercountCorrect, UniqueCorrect, PTL
        DEF Spec, Promise!HitSafety
=============================================================================
