SPECIFICATION Spec
CONSTANTS
    Callers = {c1}
    Requests = {r1}
    MaxRuns = 2
    MaxSessions = 2
    MaxAttempts = 2
    MaxReloads = 1
INVARIANTS
    TypeOK
    DrainSparesRequests
    DrainedClosedOnce
    TwinsSlowDown
PROPERTIES
    NoReloadIsLost
CHECK_DEADLOCK FALSE
