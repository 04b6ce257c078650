SPECIFICATION DailySpec
CONSTANTS
    Visitors = {v1, v2}
    Paths = {p1}
    Campaigns = {}
    NoCampaign = none
    Trackers = {t1, t2}
    Timeout = 3
    Midnight = 1
    PageLimit = 1
    FlowLimit = 1
    SegmentLimit = 1
    MaxVisitors = 1
    MaxTime = 1
    MaxViews = 2
    MaxFaults = 1
    Workers = {w1}
    Syncs = {s1}
    Nobody = nobody
    Cuts = {1, 3}
    MaxBusy = 2
CONSTRAINT FewBusy
INVARIANTS VisitorsBounded RowsMakeSense
PROPERTIES HistoryCatchesUp
CHECK_DEADLOCK FALSE
