SPECIFICATION EdgeSpec
CONSTANTS
    Address  = {"a1", "a2"}
    Limit429 = 2
    Window   = 2
    MaxTime  = 5
    Stream   = {"s1", "s2"}
    StreamRole <- RoleOf
    Subject  = {"order.created", "logistics.shipment_created"}
    Buffer   = 1
    MaxEvents = 2
    u1 = u1
    u2 = u2
    t1 = t1
    t2 = t2
    User  <- TwoUsers
    Email = {"e1", "e2"}
    AccountRole = {"admin", "analyst"}
    Password = {"pass"}
    Weak     = {}
    AdminEmail = "e1"
    AdminPassword = "pass"
    Task <- TwoTasks
    MaxTokens = 2
    Owner  = {"w1"}
    Secret = {"x", "y"}
    Old    = "x"
    ResetToken = {"k1", "k2"}
    Confirm = {"r1", "r2"}
    Chat <- TwoTasks
    Read   = {"orders_get", "stock_list"}
    Hinted = {"orders_cancel"}
    Quiet  = {"shipments_redirect"}
    Attempts = 2
    Calls   = 2
    Changes = 2
    Faults  = 1
    Talk <- TwoTasks
    Called = {"orders_get", "orders_cancel"}
    SessionCap = 2
    HourCap    = 2
    RoundTokens = 2
    Rounds  = 2
    Recent  = 3
    LoopAt  = 2
    Turns   = 1
    Outages = 1
SYMMETRY EdgeSymmetry
INVARIANTS
    EdgeTypesOK
    AdmitsAtMostTwice
    GapsOnlyWhenFull
    RoleAsGiven
    ResetIsTold
    BudgetBound
    StaleForAReason
CHECK_DEADLOCK FALSE
