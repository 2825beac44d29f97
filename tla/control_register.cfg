SPECIFICATION FairSpec
CONSTANTS
    Callers = {c1}
    Requests = {r1}
    MaxRuns = 1
    MaxSessions = 1
    MaxAttempts = 2
    MaxReloads = 0
PROPERTIES
    RegisterIsGivenUp
CHECK_DEADLOCK FALSE
