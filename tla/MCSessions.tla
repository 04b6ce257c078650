----------------------------- MODULE MCSessions -----------------------------
(* Page views that race each other, the timeout and midnight. *)
EXTENDS Sessions

\* Visitors, pages and trackers are interchangeable: no definition picks one but
\* as a placeholder that is never read.
Symmetry == Permutations(Trackers)
=============================================================================
