------------------------------ MODULE MCFunnel ------------------------------
(* Events, funnels that come and go, flushes and reports. *)
EXTENDS Funnel, TLC

CONSTANTS
    MaxSent,        \* bound: events
    MaxBeside       \* bound: calls, reports and flushes beside them

Few == /\ sent <= MaxSent /\ calls + scans <= MaxBeside
       /\ calls + sent + scans + faults <= MaxWork

Steps2 == {<<"a", "b">>}

Symmetric == Permutations(Visitors) \cup Permutations(Segments) \cup Permutations(Tasks)
                \cup Permutations(Managers)
=============================================================================
