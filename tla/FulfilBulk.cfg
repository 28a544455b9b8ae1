SPECIFICATION FulfilmentSpec
CONSTANTS
    o1 = o1
    r1 = r1
    r2 = r2
    r3 = r3
    r4 = r4
    k1 = k1
    k2 = k2
    Order <- OneOrder
    Request <- ThreeRequests
    Target <- RaceTargets
    Batch <- OneOrderBatch
    MayFail = TRUE
    Replica <- TwoReplicas
    ManualLimit = 1
    Stocked <- OneOrder
    ConsumerFails = TRUE
SYMMETRY RequestSymmetry
INVARIANTS
    TypeOK
    NoSkippedStage
    ConflictIsReal
    ShipmentNeedsConfirmation
CHECK_DEADLOCK FALSE
