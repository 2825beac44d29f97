\* One request and one /reload, over two sessions.
SPECIFICATION Spec
CONSTANTS
    Workers = {w1}
    Capacities = {1, 2}
    MaxReloads = 1
    MaxSessions = 2
    MaxUnread = 1
INVARIANTS
    SaidOrRegistered
VIEW LiveView
CHECK_DEADLOCK FALSE
