SPECIFICATION Spec
CONSTANTS
    c1 = c1
    c2 = c2
    starter = starter
    professional = professional
    Clients = {c1, c2}
    Tenants = {acme}
    Operations <- Checks
    Tiers = {starter, professional}
    Starter = starter
    DailyLimit <- MCDailyLimit
    MonthlyLimit <- MCMonthlyLimit
    LastDay = 0
    MonthStart <- MCMonthStart
    MaxCalls = 3
    NoRow = NoRow
INVARIANT
    NoOverAdmission
CHECK_DEADLOCK FALSE
