SPECIFICATION FairSpec
CONSTANTS
    Session = {s1}
    NoSession = NoSession
    PolicyScopes = 5
    RequiredScopes = 5
    TicksPerSecond = 2
    GrantLife = 4
    LeaseCap = 2
    Patience = 3
    AnswerDelay = 2
INVARIANTS LeaseBoundedByGrant RunningTaskIsReachable
PROPERTIES StopIsFinal EndedRoomGoesDark NothingHangs
