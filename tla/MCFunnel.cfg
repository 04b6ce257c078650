SPECIFICATION FunnelSpec
CONSTANTS
    Managers = {m1, m2}
    StepLists <- Steps2
    MaxSteps = 2
    MaxFunnels = 1
    MaxGoals = 1
    MaxIds = 3
    MaxCalls = 2
    MaxFaults = 1
    MaxBusy = 2
    Visitors = {v1}
    Strangers = {v2}
    Names = {"a", "b"}
    Other = "_other"
    Segments = {x}
    NoSegment = none
    Tasks = {t1, t2}
    Flushers = {f1, f2}
    NameLimit = 2
    SegmentLimit = 2
    VisitorLimit = 1
    MaxWork = 4
    MaxSent = 3
    MaxBeside = 2
INVARIANTS FunnelTypeOK StepsNested NoStepUnearned GuardsHold ReportBracketed LimitOvershoot DefinitionsFollow
PROPERTIES StoredStepsKept
CONSTRAINT Few
SYMMETRY Symmetric
CHECK_DEADLOCK FALSE
