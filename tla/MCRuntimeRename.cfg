CONSTANTS
    i1 = i1
    i2 = i2
    s1 = s1
    s2 = s2
    c1 = c1
    c2 = c2
    Instances = {i1, i2}
    Slugs = {s1, s2}
    Calls = {c1}
    Statuses = {"active"}
    MemTTL = 1
    RedisTTL = 1
    MaxLoads = 1
    MaxCommits = 2
    Faults = {}
    MaxFaults = 0
SPECIFICATION Spec
INVARIANT CoherentWhenQuiet
SYMMETRY Symmetric
