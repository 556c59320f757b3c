SPECIFICATION Spec
CONSTANTS
    Collectors = {k1}
    Requests = {q1, q2}
    Offsets <- Skewed
    Half = 1
    MaxAge = 4
    Batch = 1
    LineLimit = 1
    MaxRound = 1
    MaxLines = 2
    MaxFaults = 1
    MaxStops = 1
    MaxTime = 5
CHECK_DEADLOCK FALSE
SYMMETRY Symmetry
INVARIANTS TypeOK NoDuplicateLines DoneMeansCaptured HealthyMeansFilled
PROPERTIES VerdictIsFinal
