\* Two requests over a pool of two, so that each may hold a connection and
\* wait for the other's; the liveness property rules out symmetry.
SPECIFICATION FairSpec
CONSTANTS
    None = None
    Requests = {r1, r2}
    Conns = {c1, c2}
    FeatureSets <- MCFeatureSets
INVARIANTS
    AnswerIsTheTruth
    JournalMatchesWork
    OneRowPerRequest
    LogIdIsConfirmed
    RefusalIsJournalled
    SessionsStayApart
    ConnectionsAccounted
PROPERTIES
    KeepsContract
    EveryRequestAnswered
CHECK_DEADLOCK FALSE
