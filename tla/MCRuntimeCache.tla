--------------------------- MODULE MCRuntimeCache ---------------------------
(* Model-checking instance of RuntimeCache. *)
EXTENDS RuntimeCache, TLC

CONSTANTS i1, i2, s1, s2, c1, c2

\* Instances, slugs and calls are alike.  An idle call and the row that does
\* not exist hold some CHOSEn instance and slug, but nothing reads these
\* fields before BeginCall and Insert have set them, so that permuting the
\* values changes no behaviour.
Symmetric == Permutations(Instances) \union Permutations(Slugs) \union Permutations(Calls)
=============================================================================
