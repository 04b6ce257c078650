------------------------------ MODULE HitCounter ------------------------------
(***************************************************************************)
(* What a cumulative counter promises to the visitors who see it, whatever *)
(* Redis, PostgreSQL and the flush worker do with it: every number shown   *)
(* is new, and it becomes durable.  Counter implements this specification. *)
(***************************************************************************)
EXTENDS Integers

CONSTANTS
    Names,      \* counter names of the project
    Visitors    \* visitors served at the same time

VARIABLES
    hits,       \* how often each counter was incremented
    given,      \* the counter and number each visitor is about to see, or <<>>
    shown,      \* the numbers visitors have seen
    durable,    \* the number that survives
    lapsed      \* names about which nothing is promised any more

hitVars == <<hits, given, shown, durable, lapsed>>

HitInit ==
    /\ hits = [n \in Names |-> 0]
    /\ given = [r \in Visitors |-> <<>>]
    /\ shown = [n \in Names |-> {}]
    /\ durable = [n \in Names |-> 0]
    /\ lapsed = {}

\* Nobody has seen number v of counter n, or is about to.
New(n, v) ==
    /\ v \notin shown[n]
    /\ \A r \in Visitors : given[r] # <<n, v>>

\* A visit increments the counter and is given a number, which is new and not
\* larger than the number of visits.
Hit(r, n) ==
    /\ given[r] = <<>>
    /\ hits' = [hits EXCEPT ![n] = @ + 1]
    /\ \E v \in 1..hits[n] + 1 :
         /\ n \in lapsed \/ New(n, v)
         /\ given' = [given EXCEPT ![r] = <<n, v>>]
    /\ UNCHANGED <<shown, durable, lapsed>>

\* The visitor sees the number.  Numbers may be shown in another order than
\* they were given.
Show(r, n) ==
    /\ \E v \in 1..hits[n] :
         /\ given[r] = <<n, v>>
         /\ shown' = [shown EXCEPT ![n] = @ \union {v}]
    /\ given' = [given EXCEPT ![r] = <<>>]
    /\ UNCHANGED <<hits, durable, lapsed>>

\* The visitor leaves without having seen the number: it is never shown, or
\* given to a later visitor.
Leave(r) ==
    /\ given' = [given EXCEPT ![r] = <<>>]
    /\ UNCHANGED <<hits, shown, durable, lapsed>>

\* The durable number grows.
Persist(n) ==
    /\ \E v \in 1..hits[n] :
         v > durable[n] /\ durable' = [durable EXCEPT ![n] = v]
    /\ UNCHANGED <<hits, given, shown, lapsed>>

\* A fault costs some names the promise.
Lapse ==
    /\ \E ns \in SUBSET Names : lapsed' = lapsed \union ns
    /\ UNCHANGED <<hits, given, shown, durable>>

HitNext ==
    \/ \E r \in Visitors, n \in Names : Hit(r, n) \/ Show(r, n)
    \/ \E r \in Visitors : Leave(r)
    \/ \E n \in Names : Persist(n)
    \/ Lapse

\* Every number shown is durable.
Kept(n) == n \in lapsed \/ \A v \in shown[n] : durable[n] >= v

\* The durable number grows as long as a number shown is not durable.  This
\* is weak fairness of Persist(n) while ~Kept(n), with its ENABLED written out.
KeepsUp(n) == []<>Kept(n) \/ []<><<Persist(n)>>_hitVars

HitSafety == HitInit /\ [][HitNext]_hitVars
HitSpec == HitSafety /\ \A n \in Names : KeepsUp(n)
=============================================================================
