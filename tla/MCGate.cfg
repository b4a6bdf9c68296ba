SPECIFICATION Spec
CONSTANTS
    Jti = {g1, g2}
    Capability = {view, input}
    ControlInput = input
    Epoch = {1, 2}
    Signable <- MCMixed
    PolicyScopes <- MCPolicy
    RequiredScopes = 2
    MaxLease = 2
    CacheLimit = 1
    TicksPerSecond = 2
    MaxSequence = 2
    MaxTime = 4
    SetBack = FALSE
SYMMETRY Symmetry
VIEW Memory
INVARIANTS GrantAcceptedOnce LeaseIsTheGrants
PROPERTIES ClosedStaysClosed InputsEnterOnce ReplayRefusalsAreDeserved
CHECK_DEADLOCK FALSE
