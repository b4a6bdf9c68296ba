SPECIFICATION KernelSpec
CONSTANTS
    Token = {t1, t2, t3}
    Tenant = {a, b}
    Caller = {c1, c2}
    Capacity = 2
    MaxTtl = 2
    MaxClock = 3
    ConsentTime = 2
    SetupTime = 1
    LeaseTime = 2
SYMMETRY KernelSymmetry
INVARIANTS GoodTokensAreKept SessionAuthorityBounded
PROPERTIES OneTaker StepsFollowTheTable
CHECK_DEADLOCK FALSE
