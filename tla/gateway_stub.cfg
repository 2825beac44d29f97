SPECIFICATION Spec
CONSTANTS
    MaxConns = 2
    None = None
    Binary = Binary
    Absent = Absent
    Null = Null
    Ids = {"id"}
    Actions <- MCActions
    Objects = {"info", "long", "empty"}
    Empty = "empty"
    Codes = {400}
    Messages <- MCMessages
    OverLimit <- MCOverLimit
    KickCodes = {1001}
    PeerCodes = {4001}
    MaxKicks = 1
INVARIANTS
    CloseCodesHaveCauses
PROPERTIES
    QuietConnectionsAreLetGo
CHECK_DEADLOCK FALSE
