SPECIFICATION AnalyticsSpec
CONSTANTS
    Replica = {"k1"}
    Amounts = {100}
    RateCap = 20000
    MaxDay  = 4
    MaxCreated = 1
INVARIANTS
    QuietDaysReported
CHECK_DEADLOCK FALSE
