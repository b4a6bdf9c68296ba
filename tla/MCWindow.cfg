SPECIFICATION FairSpec
CONSTANTS
    Session = {s1, s2}
    Offer = {o1, o2}
    MaxStops = 1
    PolicyScopes = 5
    RequiredScopes = 5
    None = None
INVARIANTS StoppedMeansClosed HeldSessionsHaveAButton
PROPERTIES PollsRestoreNothing StopsReachTheEntry EndedSessionsGoDark
