SPECIFICATION SingleFulfilmentSpec
CONSTANTS
    o1 = o1
    r1 = r1
    r2 = r2
    r3 = r3
    r4 = r4
    k1 = k1
    k2 = k2
    Order <- OneOrder
    Request <- ThreeRequests
    Target <- CancelTargets
    Batch <- OneOrderBatch
    MayFail = FALSE
    Replica <- OneReplica
    ManualLimit = 0
    Stocked <- OneOrder
    ConsumerFails = FALSE
PROPERTY CancelReleasesStock
CHECK_DEADLOCK FALSE
