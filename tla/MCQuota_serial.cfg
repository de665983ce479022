SPECIFICATION Spec
CONSTANTS
    c1 = c1
    c2 = c2
    starter = starter
    professional = professional
    Clients = {c1}
    Tenants = {acme}
    Operations <- AllOperations
    Tiers = {starter, professional}
    Starter = starter
    DailyLimit <- MCDailyLimit
    MonthlyLimit <- MCMonthlyLimit
    LastDay = 2
    MonthStart <- MCMonthStart
    MaxCalls = 7
    NoRow = NoRow
INVARIANTS
    CountsAreExact
    DayWithinMonth
PROPERTY
    ImplementsMeter
CHECK_DEADLOCK FALSE
