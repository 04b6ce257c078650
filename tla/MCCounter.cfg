CONSTANTS
    r1 = r1
    r2 = r2
    w1 = w1
    w2 = w2
    Names = {a}
    Reqs = {r1, r2}
    Workers = {w1}
    KeyTTL = 3
    MaxHits = 3
    Faults = {"load", "upsert", "redis"}
    MaxFaults = 1
SPECIFICATION Spec
INVARIANT TypeOK
INVARIANT ServedIsKept
INVARIANT NumbersAreUnique
INVARIANT NeverOvercounts
INVARIANT ReadsAreFresh
SYMMETRY Symmetric
