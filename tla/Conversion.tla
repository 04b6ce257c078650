----------------------------- MODULE Conversion -----------------------------
(***************************************************************************)
(* Goals and funnels of one project: conversion.go and the handlers of     *)
(* conversion_handlers.go. Goals are rows of PostgreSQL. A funnel is a row *)
(* and a field of the hash funnel_definitions in Redis, which is what the  *)
(* collection of events reads. A call writes the row first and the field   *)
(* after it; a starting API process rebuilds the hash (Warm).              *)
(*                                                                         *)
(* This module has the calls; Funnel.tla puts the events and the reports   *)
(* next to them.                                                           *)
(***************************************************************************)
EXTENDS Integers, FiniteSets, Functions

CONSTANTS
    Managers,       \* management calls and starting processes
    StepLists,      \* the lists of steps a funnel may have, sequences of event names
    MaxSteps,       \* steps of a funnel, 8 in the code
    MaxFunnels,     \* funnels of a project, 10 in the code
    MaxGoals,       \* goals of a project, 20 in the code
    MaxIds,         \* bound: goals and funnels ever created
    MaxCalls,       \* bound: calls begun
    MaxFaults,      \* bound: commands and statements that fail
    MaxBusy         \* bound: processes at work at the same time

\* ValidateFunnel: at least 2 steps.
ASSUME ConversionAssumption ==
    /\ IsFiniteSet(Managers) /\ Managers # {}
    /\ \A s \in StepLists : \E n \in 2..MaxSteps : DOMAIN s = 1..n
    /\ {MaxSteps, MaxFunnels, MaxGoals, MaxIds, MaxBusy} \subseteq Nat \ {0}
    /\ {MaxCalls, MaxFaults} \subseteq Nat

VARIABLES
    goals,      \* conversion_goals: ids
    funnels,    \* funnels: the steps of each id
    defs,       \* funnel_definitions in Redis: the steps of each id
    call,       \* what each manager is doing
    ids,        \* ids given out (newID never repeats one)
    calls, faults,
    \* history: funnels whose field may be missing because a command failed, and
    \* fields that may outlive their row because calls overlapped or failed
    untold, leftover

conversionVars == <<goals, funnels, defs, call, ids, calls, faults, untold, leftover>>

Ids == 1..MaxIds
NoFunnels == [i \in {} |-> <<>>]

\* A field of a hash, or a row of a table, is set and removed.
With(f, k, v) == [x \in DOMAIN f \cup {k} |-> IF x = k THEN v ELSE f[x]]
Without(f, k) == Restrict(f, DOMAIN f \ {k})

Free == [pc |-> "idle", id |-> 0, steps |-> <<>>, list |-> NoFunnels]

AtWork == {m \in Managers : call[m].pc # "idle"}

\* A project without funnels, or with one that was created before.
ConversionInit ==
    /\ goals = {}
    /\ funnels \in {NoFunnels} \cup {With(NoFunnels, 1, s) : s \in StepLists}
    /\ ids = Cardinality(DOMAIN funnels) /\ defs = funnels
    /\ call = [m \in Managers |-> Free]
    /\ calls = 0 /\ faults = 0 /\ untold = {} /\ leftover = {}

Begins(m) == /\ call[m].pc = "idle" /\ calls < MaxCalls
             /\ calls' = calls + 1

Goes(m, pc) == call' = [call EXCEPT ![m].pc = pc]
Ends(m) == call' = [call EXCEPT ![m] = Free]

-----------------------------------------------------------------------------
(* Goals. *)

\* CreateGoal counts the rows in a statement of its own.
GoalsLeft == Cardinality(goals) < MaxGoals

CountGoals(m) ==
    /\ Begins(m)
    /\ IF GoalsLeft THEN Goes(m, "insert goal") ELSE UNCHANGED call
    /\ UNCHANGED <<goals, funnels, defs, ids, faults, untold, leftover>>

\* Mutant: the id is given out again.
InsertGoalSameId(m) ==
    /\ call[m].pc = "insert goal" /\ ids < MaxIds
    /\ goals' = goals \cup {ids}
    /\ Ends(m)
    /\ UNCHANGED <<funnels, defs, ids, calls, faults, untold, leftover>>

InsertGoal(m) ==
    /\ call[m].pc = "insert goal" /\ ids < MaxIds
    /\ ids' = ids + 1 /\ goals' = goals \cup {ids + 1}
    /\ Ends(m)
    /\ UNCHANGED <<funnels, defs, calls, faults, untold, leftover>>

\* DeleteGoal; a goal that is updated keeps its id.
DeleteGoal(m) ==
    /\ Begins(m)
    /\ \E g \in goals : goals' = goals \ {g}
    /\ UNCHANGED <<funnels, defs, call, ids, faults, untold, leftover>>

-----------------------------------------------------------------------------
(* Funnels. *)

\* Mutant: the limit is off by one.
FunnelsLeftLoose == Cardinality(DOMAIN funnels) <= MaxFunnels

\* CreateFunnel does the same.
FunnelsLeft == Cardinality(DOMAIN funnels) < MaxFunnels

CountFunnels(m) ==
    /\ Begins(m)
    /\ IF FunnelsLeft THEN Goes(m, "insert") ELSE UNCHANGED call
    /\ UNCHANGED <<goals, funnels, defs, ids, faults, untold, leftover>>

InsertFunnel(m) ==
    /\ call[m].pc = "insert" /\ ids < MaxIds
    /\ ids' = ids + 1
    /\ \E s \in StepLists :
          /\ funnels' = With(funnels, ids + 1, s)
          /\ call' = [call EXCEPT ![m] = [Free EXCEPT !.pc = "cache", !.id = ids + 1, !.steps = s]]
    /\ UNCHANGED <<goals, defs, calls, faults, untold, leftover>>

\* UpdateFunnel reads the row, which must have the same steps.
Updatable(i, s) == i \in DOMAIN funnels /\ funnels[i] = s

CheckUpdate(m) ==
    /\ Begins(m)
    /\ \E i \in DOMAIN funnels, s \in StepLists :
          IF Updatable(i, s)
          THEN call' = [call EXCEPT ![m] = [Free EXCEPT !.pc = "update", !.id = i, !.steps = s]]
          ELSE UNCHANGED call
    /\ UNCHANGED <<goals, funnels, defs, ids, faults, untold, leftover>>

\* Mutant: no row is no error.
UpdateMissing(m) ==
    /\ call[m].pc = "update"
    /\ Goes(m, "cache")
    /\ UNCHANGED <<goals, funnels, defs, ids, calls, faults, untold, leftover>>

\* UPDATE ... RETURNING; a row that is gone is an error.
UpdateRow(m) ==
    /\ call[m].pc = "update"
    /\ IF call[m].id \in DOMAIN funnels
       THEN funnels' = [funnels EXCEPT ![call[m].id] = call[m].steps] /\ Goes(m, "cache")
       ELSE Ends(m) /\ UNCHANGED funnels
    /\ UNCHANGED <<goals, defs, ids, calls, faults, untold, leftover>>

\* cacheFunnel, the last command of a create and of an update.
CacheFunnel(m) ==
    /\ call[m].pc = "cache"
    /\ defs' = With(defs, call[m].id, call[m].steps)
    /\ untold' = untold \ {call[m].id}
    /\ Ends(m)
    /\ UNCHANGED <<goals, funnels, ids, calls, faults, leftover>>

\* Somebody is about to write the field of this funnel.
Carried(i) == \E m \in Managers : \/ call[m].pc = "cache" /\ call[m].id = i
                                  \/ call[m].pc = "fill" /\ i \in DOMAIN call[m].list

\* A funnel that has been deleted may be deleted again.
DeleteRow(m) ==
    /\ Begins(m)
    /\ \E i \in 1..ids \ goals :
          /\ funnels' = Without(funnels, i)
          /\ call' = [call EXCEPT ![m] = [Free EXCEPT !.pc = "drop", !.id = i]]
          /\ leftover' = IF Carried(i) THEN leftover \cup {i} ELSE leftover
    /\ UNCHANGED <<goals, defs, ids, faults, untold>>

DropField(m) ==
    /\ call[m].pc = "drop"
    /\ defs' = Without(defs, call[m].id)
    /\ Ends(m)
    /\ UNCHANGED <<goals, funnels, ids, calls, faults, untold, leftover>>

-----------------------------------------------------------------------------
(* Warm, in a starting process. *)

\* SCAN and DEL: a hash written meanwhile may come up again.
WarmDrop(m) ==
    /\ \/ call[m].pc = "scan" /\ UNCHANGED calls
       \/ Begins(m)
    /\ defs' = NoFunnels
    /\ leftover' = {i \in leftover : Carried(i)}
    /\ \E pc \in {"scan", "query"} : Goes(m, pc)
    /\ UNCHANGED <<goals, funnels, ids, faults, untold>>

WarmQuery(m) ==
    /\ call[m].pc = "query"
    /\ call' = [call EXCEPT ![m] = [Free EXCEPT !.pc = "fill", !.list = funnels]]
    /\ UNCHANGED <<goals, funnels, defs, ids, calls, faults, untold, leftover>>

\* One HSET per row, then the end.
WarmFill(m) ==
    /\ call[m].pc = "fill"
    /\ \/ \E i \in DOMAIN call[m].list :
             /\ defs' = With(defs, i, call[m].list[i])
             /\ untold' = untold \ {i}
             /\ call' = [call EXCEPT ![m].list = Without(@, i)]
       \/ call[m].list = NoFunnels /\ Ends(m) /\ UNCHANGED <<defs, untold>>
    /\ UNCHANGED <<goals, funnels, ids, calls, faults, leftover>>

-----------------------------------------------------------------------------
\* An error of PostgreSQL or Redis, or the end of the process: the call stops.
\* What it had still to tell Redis is not told.
CallFails(m) ==
    /\ call[m].pc # "idle" /\ faults < MaxFaults
    /\ faults' = faults + 1
    /\ Ends(m)
    /\ untold' = untold \cup CASE call[m].pc = "cache" -> {call[m].id}
                               [] call[m].pc \in {"scan", "query", "fill"} -> DOMAIN funnels
                               [] OTHER -> {}
    /\ leftover' = leftover \cup IF call[m].pc = "drop" THEN {call[m].id} ELSE {}
    /\ UNCHANGED <<goals, funnels, defs, ids, calls>>

Continue(m) ==
    \/ InsertGoal(m) \/ InsertFunnel(m) \/ UpdateRow(m) \/ CacheFunnel(m)
    \/ DropField(m) \/ WarmQuery(m) \/ WarmFill(m) \/ CallFails(m)
    \/ call[m].pc = "scan" /\ WarmDrop(m)

Start(m) ==
    \/ CountGoals(m) \/ DeleteGoal(m) \/ CountFunnels(m) \/ CheckUpdate(m) \/ DeleteRow(m)
    \/ call[m].pc = "idle" /\ WarmDrop(m)

-----------------------------------------------------------------------------
(* Properties. *)

\* CreateGoal and CreateFunnel count before they insert: the limits are exceeded by
\* less than the number of calls that run at the same time, however many come.
LimitOvershoot ==
    /\ Cardinality(goals) <= MaxGoals + Cardinality(Managers) - 1
    /\ Cardinality(DOMAIN funnels) <= MaxFunnels + Cardinality(Managers) - 1

\* At rest Redis has every funnel of the table, with its steps, unless the command that
\* would have told it failed; and no other funnel, unless a delete failed half-way or
\* ran while a create, an update or Warm was about to write the same funnel.
DefinitionsFollow ==
    AtWork = {} =>
        /\ \A i \in DOMAIN funnels \ untold : i \in DOMAIN defs /\ defs[i] = funnels[i]
        /\ DOMAIN defs \subseteq DOMAIN funnels \cup leftover
=============================================================================
