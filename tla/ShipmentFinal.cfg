SPECIFICATION Spec
CONSTANTS
    s1 = s1
    r1 = r1
    r2 = r2
    r3 = r3
    p1 = p1
    p2 = p2
    Sender = Sender
    Shipment <- OneShipment
    Request <- TwoRequests
    Past <- PastRequests
    Call <- EveryEndpoint
    Target <- Targets
    Batch <- Batches
    Patch <- PhonePatch
    Field <- Fields
    Place <- PlaceFields
    Seed <- LastMileSeed
SYMMETRY RequestSymmetry
PROPERTY FinalLeftAlone
CHECK_DEADLOCK FALSE
