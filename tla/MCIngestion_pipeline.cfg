SPECIFICATION Spec
CONSTANTS
    acme = acme
    starter = starter
    e1 = e1
    e2 = e2
    Requests = {r1, r2}
    Events = {e1, e2}
    TenantOf <- MCTenantOf
    Triggering = {e2}
    Batches <- MCBatches
    MaxBatch = 2
    MaxRequests = 2
    Tenants = {acme}
    Tiers = {starter}
    Starter = starter
    DailyLimit <- MCDailyLimit
    MonthlyLimit <- MCMonthlyLimit
    LastDay = 1
    MonthStart <- MCMonthStart
    MaxCalls = 4
    NoRow = NoRow
INVARIANTS
    TypeOK
    AcceptedIsComplete
    StoredIsPaidFor
PROPERTIES
    ImplementsEventLog
    EveryRequestIsAnswered
CHECK_DEADLOCK FALSE
