SPECIFICATION ReportsSpec
CONSTANTS
    Visitors = {v1}
    Paths = {p1}
    Campaigns = {}
    NoCampaign = none
    Trackers = {t1}
    Timeout = 3
    Midnight = 1
    PageLimit = 1
    FlowLimit = 1
    SegmentLimit = 1
    MaxVisitors = 1
    MaxTime = 1
    MaxViews = 2
    MaxFaults = 1
    Workers = {w1, w2}
    Syncs = {}
    Nobody = nobody
    Cuts = {1, 3}
    Readers = {r1}
    Ranges = {1, 2}
    MaxBusy = 2
    LastHour = 3
    MaxShown = 2
    Events = {"lcp", "inp", "cls", "js_error", "resource_error", "signup"}
SYMMETRY Symmetric
CONSTRAINT FewBusy
INVARIANTS DailyTypeOK ReportsBracketed AnalysisCountsOnce QualityReportMakesSense
PROPERTIES VisitsNeverGoBack CountsNeverGoBack
CHECK_DEADLOCK FALSE
