SPECIFICATION FairFulfilmentSpec
CONSTANTS
    o1 = o1
    r1 = r1
    r2 = r2
    r3 = r3
    r4 = r4
    k1 = k1
    k2 = k2
    Order <- OneOrder
    Request <- FourRequests
    Target <- ConfirmTargets
    Batch <- OneOrderBatch
    MayFail = FALSE
    Replica <- OneReplica
    ManualLimit = 0
    Stocked <- NoOrder
    ConsumerFails = FALSE
INVARIANTS
    AutoShipmentOnce
    EveryMoveAccountedFor
PROPERTY ConfirmedEventuallyShipped
CHECK_DEADLOCK FALSE
