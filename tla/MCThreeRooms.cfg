SPECIFICATION Spec
CONSTANTS
    RoomId = {r1, r2, r3}
    Name = {n1}
    Fingerprint = {p1}
    NoName = NoName
    NoFingerprint = NoFingerprint
    Window = 1
    GrantLife = 1
    HeartbeatLimit = 1
    InviteLife = 2
    RoomLife = 3
    Capacity = 2
    GuestLimit = 1
    JoinLimit = 1
    AuthLimit = 1
    RoomLog = 5
    ServerLog = 2
    AllowGuestHosts = FALSE
    MaxTime = 3
SYMMETRY Symmetry
VIEW Futures
INVARIANT CapacityRespected
PROPERTIES ServedStateIsFresh HoldersAreServed OnlyOwnRoomMoves
CHECK_DEADLOCK FALSE
