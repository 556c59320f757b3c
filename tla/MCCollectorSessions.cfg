SPECIFICATION Spec
CONSTANTS
    Collectors = {c1, c2}
    Window = 5
    MinGap = 2
    MaxSessions = 3
    MaxLost = 1
    MaxTime = 7
SYMMETRY Symmetry
CHECK_DEADLOCK FALSE
INVARIANTS TypeOK SessionsAreTrue OutagesAreReported GapsAreDeaf GapsAreDisjoint LiveIsRunning
