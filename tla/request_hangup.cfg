SPECIFICATION Spec
CONSTANTS
    None = None
    Requests = {r1, r2}
    Conns = {c1, c2}
    FeatureSets <- MCFeatureSets
INVARIANTS
    HangUpKeepsTheRow
CHECK_DEADLOCK FALSE
