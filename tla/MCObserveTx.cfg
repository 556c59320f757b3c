SPECIFICATION Spec
CONSTANTS
    Projects = {p1}
    AnyProject = AnyProject
    NotGiven = NotGiven
    Subject = {f1}
    Fingerprints = {f1}
    KindArgs = {"new-issue", "error-rate"}
    ThresholdArgs = {2}
    WindowArgs = {2}
    CooldownArgs = {}
    TicksPerSecond = 2
    DefaultWindow = 2
    DefaultNonRateCooldown = 2
    MaxAlerts = 1
    MaxTime = 2
    MaxLag = 2
    EventIds = {e1, e2}
    Levels = {error}
    Timestamps = {0, 2}
    Zones = {0}
    Retentions = {1}
    MaxIssues = 3
    MaxCount = 3
    Handlers = {h1, h2, h3}
    Cleaners = {c1}
    Nobody = Nobody
SYMMETRY Symmetry
CHECK_DEADLOCK FALSE
PROPERTIES RefinesStore
