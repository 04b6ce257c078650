---------------------------- MODULE MCDailyFlush ----------------------------
(* A worker and a sync that flush while views arrive around midnight. *)
EXTENDS DailyFlush

CONSTANT MaxBusy        \* bound: rounds and views in progress at a time

FewBusy == Cardinality({k \in Trackers : hit[k].stage # "idle"})
             + Cardinality({w \in Flushers : Busy(w)})
        <= IF faults = 0 THEN MaxBusy ELSE 1
=============================================================================
