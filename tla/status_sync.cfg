SPECIFICATION Spec
CONSTANTS
    Workers = {w1, w2}
    Capacities = {1, 2}
    MaxReloads = 1
    MaxSessions = 2
    MaxUnread = 1
SYMMETRY Symmetry
VIEW LiveView
INVARIANTS
    TypeOK
    GatewayKnowsTheLoad
    NothingFollowsDraining
PROPERTIES
    StateFollowsTheSession
CHECK_DEADLOCK FALSE
