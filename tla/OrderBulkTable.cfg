SPECIFICATION Spec
CONSTANTS
    o1 = o1
    o2 = o2
    r1 = r1
    r2 = r2
    r3 = r3
    r4 = r4
    Order <- OneOrder
    Request <- ThreeRequests
    Batch <- OneOrderBatches
    Target <- RaceTargets
    MayFail = FALSE
SYMMETRY RequestSymmetry
INVARIANT TableRespected
CHECK_DEADLOCK FALSE
