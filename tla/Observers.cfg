SPECIFICATION ObserversSpec
CONSTANTS
    Shipment = {"s1", "s2", "s3", "s4"}
    Carrier  = {"v1", "v2", "v3"}
    Stored <- ThreeStored
    Target   = {"in_transit", "at_hub", "delivered", "redirected"}
    Moving   = {"s1", "s2"}
    Tried    = {"s1"}
    MaxTries = 2
    PageSize = 1
    MaxLimit = 1
    HardCap  = 5
    MaxGroups = 2
    Person   = {"p1", "system"}
    NoteType = {"order_created", "system"}
    NoteId   = {"n1", "n2"}
    Listened = {"events.notifications.send", "order.created"}
    HttpRequest = {"h1", "h2"}
    Socket   = {"c1", "c2"}
    SocketUser <- SocketOf
    PrefRequest <- Preferences
    BulkUsers <- SameTwice
    Scenario = {"idle", "steady"}
    Order  = {"o1"}
    Parcel = {"g1"}
    MinActions = 1
    MaxTally = 2
    MaxAttempts = 3
    Replica = {"k1", "k2"}
    Amounts = {100, 250}
    RateCap = 20000
    MaxDay  = 2
    MaxCreated = 1
    Revenues = {0, 1, 9}
    MaxDays  = 7
    MaxLong  = 11
    Demands  = {1, 5}
    MaxHistory = 10
    MaxHorizon = 14
    Quantities = {0, 10, 30, 70, 200}
    Minimums   = {0, 10, 20}
    Warehouse  = {"w1", "w2", "w3"}
    Prices      = {20000, 150000}
    Multipliers = {1, 3}
    MaxOutbound = 60
INVARIANTS
    ReadTypesOK
    TimelineConsistent
    ListsMissNothing
    SummaryAddsUp
    NotifiedAsAsked
    SimulatorInStep
    DailyRowsAddUp
    AlarmsNeedDays
    AdviceHolds
CHECK_DEADLOCK FALSE
