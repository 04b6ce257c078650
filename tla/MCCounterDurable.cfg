CONSTANTS
    r1 = r1
    r2 = r2
    w1 = w1
    w2 = w2
    Names = {a}
    Reqs = {r1}
    Workers = {w1, w2}
    KeyTTL = 3
    MaxHits = 2
    Faults = {"load", "upsert", "redis"}
    MaxFaults = 1
SPECIFICATION Spec
PROPERTY DurableNeverDecreases
PROPERTY ServedBecomesDurable
PROPERTY ImplementsHitCounter
