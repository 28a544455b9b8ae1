SPECIFICATION FairSpec
CONSTANTS
    s1 = s1
    r1 = r1
    r2 = r2
    r3 = r3
    Free = Free
    Row <- OneRow
    Request <- ThreeRequests
    Seed <- Seeds
    Amount = {2}
    Threshold = {0, 2}
    MaxInt = 5
    MayFail = TRUE
INVARIANTS
    TypeOK
    ChecksNeverFire
    LedgerBalances
    LowPeriodAnnounced
PROPERTIES
    ImplementsAccount
    EveryRequestAnswered
CHECK_DEADLOCK FALSE
