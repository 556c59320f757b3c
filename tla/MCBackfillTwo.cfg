SPECIFICATION FairSpec
CONSTANTS
    Collectors = {k1, k2}
    Requests = {q1, q2}
    Offsets <- Sharp
    Half = 1
    MaxAge = 1
    Batch = 1
    LineLimit = 1
    MaxRound = 0
    MaxLines = 1
    MaxFaults = 1
    MaxStops = 1
    MaxTime = 3
CHECK_DEADLOCK FALSE
PROPERTIES EventuallySettled
