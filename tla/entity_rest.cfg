\* Three calls of EntityRest over one row, two users, two keys, Store dropping
\* expired answers as soon as it holds one; or two calls of PackageRest, or
\* one of each.
SPECIFICATION PkgSpec
CONSTANTS
    Calls = {c1, c2, c3}
    PkgCalls = {p1, p2}
    u1 = u1
    u2 = u2
    k1 = k1
    k2 = k2
    r1 = r1
    Rows <- MCRows
    Users <- MCUsers
    Keys <- MCKeys
    Menu <- MCMenu
    PkgMenu <- MCPkgMenu
    None = None
    MaxStored = 0
    MaxTogether = 2
INVARIANTS
    TypeOK
    AnswerIsItsEffect
    ConditionsWereTrue
    ReplayIsOwn
    AnsweredKeyIsNotRunAgain
    IptablesAreWhole
    NoCircleOfWaits
    ToldIsDone
    ListsAddUp
SYMMETRY MCSymmetry
CHECK_DEADLOCK FALSE
