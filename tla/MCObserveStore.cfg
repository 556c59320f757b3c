SPECIFICATION Spec
CONSTANTS
    Projects = {p1}
    AnyProject = AnyProject
    NotGiven = NotGiven
    Subject = {f1, f2}
    Fingerprints = {f1, f2}
    KindArgs = {"new-issue", "error-rate"}
    ThresholdArgs = {0, 2}
    WindowArgs = {2}
    CooldownArgs = {4}
    TicksPerSecond = 2
    DefaultWindow = 2
    DefaultNonRateCooldown = 2
    MaxAlerts = 1
    MaxTime = 3
    MaxLag = 1
    EventIds = {e1, e2, e3}
    Levels = {error}
    Timestamps = {0, 2, 3}
    Zones = {0}
    Retentions = {1}
    MaxIssues = 3
    MaxCount = 3
SYMMETRY Symmetry
CHECK_DEADLOCK FALSE
INVARIANTS TypeOK AlertIntegrity CooldownSpacing StoreIntegrity LastSeenIsStored CountCoversEvents
PROPERTIES NewIssueIsAnnounced ErrorRateIsAnnounced IssueHistoryGrows
