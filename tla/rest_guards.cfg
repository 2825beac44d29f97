\* Two calls for each guard: two creates with one key, two updates with one tag.
SPECIFICATION PkgSpec
CONSTANTS
    Calls = {c1, c2, c3, c4}
    PkgCalls = {}
    u1 = u1
    u2 = u2
    k1 = k1
    k2 = k2
    r1 = r1
    Rows <- MCRows
    Users <- MCUsers
    Keys <- MCKeys
    Menu <- MCGuarded
    PkgMenu <- MCPkgMenu
    None = None
    MaxStored = 0
    MaxTogether = 2
INVARIANT
    AGuardHolds
SYMMETRY MCSymmetry
CHECK_DEADLOCK FALSE
