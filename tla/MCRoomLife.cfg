SPECIFICATION Spec
CONSTANTS
    RoomId = {r1}
    Name = {n1, n2}
    Fingerprint = {p1, p2}
    NoName = NoName
    NoFingerprint = NoFingerprint
    Window = 3
    GrantLife = 2
    HeartbeatLimit = 3
    InviteLife = 4
    RoomLife = 6
    Capacity = 1
    GuestLimit = 1
    JoinLimit = 2
    AuthLimit = 1
    RoomLog = 5
    ServerLog = 2
    AllowGuestHosts = TRUE
    MaxTime = 9
SYMMETRY Symmetry
VIEW Futures
INVARIANTS RoomsConsistent EventsTellTheStory AuthorityBounded
PROPERTIES GrantsNeedLivePeers ImplementsLifecycle
CHECK_DEADLOCK FALSE
