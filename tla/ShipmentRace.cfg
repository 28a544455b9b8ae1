SPECIFICATION Spec
CONSTANTS
    s1 = s1
    r1 = r1
    r2 = r2
    r3 = r3
    p1 = p1
    p2 = p2
    Sender = Sender
    Shipment <- OneShipment
    Request <- TwoRequests
    Past <- PastRequests
    Call <- EveryEndpoint
    Target <- Targets
    Batch <- Batches
    Patch <- PhonePatch
    Field <- Fields
    Place <- PlaceFields
    Seed <- Seeds
SYMMETRY RequestSymmetry
INVARIANTS
    TypeOK
    PickedUpFirst
    TimelineComplete
    DeliveriesAnnounced
    AttemptsShow
PROPERTY ImplementsRecord
CHECK_DEADLOCK FALSE
