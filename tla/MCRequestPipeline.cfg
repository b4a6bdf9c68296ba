SPECIFICATION FairSpec
CONSTANTS
    Request = {r1, r2, r3, r4}
    Post = {r1, r2, r3}
    Slots = 2
    Limit = 2
    Window = 2
    MaxTime = 5
    Nobody = Nobody
INVARIANT SlotsOnlyWhileReading BurstsAreBounded
PROPERTY RequestsAreAnswered
