SPECIFICATION FairSpec
CONSTANTS
    RoomId = {r1}
    Name = {n1}
    Fingerprint = {p1}
    NoName = NoName
    NoFingerprint = NoFingerprint
    Window = 1
    GrantLife = 1
    HeartbeatLimit = 1
    InviteLife = 1
    RoomLife = 2
    Capacity = 1
    GuestLimit = 1
    JoinLimit = 1
    AuthLimit = 1
    RoomLog = 5
    ServerLog = 1
    AllowGuestHosts = FALSE
    MaxTime = 3
PROPERTY EveryRoomIsReleased
CHECK_DEADLOCK FALSE
