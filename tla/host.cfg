SPECIFICATION OpenSpec
CONSTANTS
    Calls = {c1, c2}
    None = None
    Wild = Wild
    p1 = p1
    p2 = p2
    client = client
    forged = forged
    MaxTime = 1
    Menu <- MCMenu
    Setups <- MCSetups
    Table <- MCTable
    Entities <- MCEntities
    Always <- MCAlways
    Keyring <- MCKeyring
    Issuers <- MCIssuers
    Addresses <- MCAddresses
SYMMETRY MCSymmetry
INVARIANTS
    TypeOK
    AnnouncedIsTakenAndWhole
    UnsignedLearnNothing
    RoutesSeeVerifiedCallers
    AddressIsOnTheWay
    NothingOfNetHTTP
    DocumentIsTheService
CHECK_DEADLOCK FALSE
