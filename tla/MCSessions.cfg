SPECIFICATION Spec
CONSTANTS
    Visitors = {v1}
    Paths = {p1, p2}
    Campaigns = {c1}
    NoCampaign = none
    Trackers = {t1, t2}
    Timeout = 3
    Midnight = 5
    PageLimit = 2
    FlowLimit = 1
    SegmentLimit = 3
    MaxVisitors = 1
    MaxTime = 7
    MaxViews = 3
    MaxFaults = 1
SYMMETRY Symmetry
INVARIANTS TypeOK QualityConsistent FlowConserved SegmentsConsistent SessionsMatchViews
CHECK_DEADLOCK FALSE
