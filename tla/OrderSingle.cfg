SPECIFICATION SingleSpec
CONSTANTS
    o1 = o1
    o2 = o2
    r1 = r1
    r2 = r2
    r3 = r3
    r4 = r4
    Order <- OneOrder
    Request <- FourRequests
    Batch <- OneOrderBatches
    Target <- AllTargets
    MayFail = TRUE
SYMMETRY RequestSymmetry
INVARIANTS
    TableRespected
    CancelledOnce
    EventsAreMoves
    CancelledForAReason
PROPERTY ImplementsLifecycle
CHECK_DEADLOCK FALSE
