SPECIFICATION WatchSpec
CONSTANTS
    Projects = {p1}
    AnyProject = AnyProject
    NotGiven = NotGiven
    Subject = {a, b}
    Containers = {a, b}
    ProjectOf <- OneProject
    Snapshotters = {poller, handler}
    KindArgs = {"container-exit", "container-restart"}
    ThresholdArgs = {1}
    WindowArgs = {1}
    CooldownArgs = {0, 4}
    TicksPerSecond = 2
    DefaultWindow = 1
    DefaultNonRateCooldown = 2
    MaxAlerts = 1
    MaxTime = 2
    MaxLag = 0
    Retentions = {1}
    MaxChanges = 2
    MaxStores = 4
CHECK_DEADLOCK FALSE
SYMMETRY Symmetry
INVARIANTS CooldownSpacing TimelineAgrees
PROPERTIES ExitIsAnnounced
