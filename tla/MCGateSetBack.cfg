SPECIFICATION Spec
CONSTANTS
    Jti = {g1, g2}
    Capability = {view, input}
    ControlInput = input
    Epoch = {1, 2}
    Signable <- MCViewing
    PolicyScopes <- MCCounted
    RequiredScopes = 2
    MaxLease = 2
    CacheLimit = 1
    TicksPerSecond = 1
    MaxSequence = 1
    MaxTime = 3
    SetBack = TRUE
SYMMETRY Symmetry
VIEW Memory
INVARIANT GrantAcceptedOnce
CHECK_DEADLOCK FALSE
