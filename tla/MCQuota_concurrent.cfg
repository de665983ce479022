SPECIFICATION Spec
CONSTANTS
    c1 = c1
    c2 = c2
    starter = starter
    professional = professional
    Clients = {c1, c2}
    Tenants = {acme}
    Operations <- AllOperations
    Tiers = {starter, professional}
    Starter = starter
    DailyLimit <- MCDailyLimit
    MonthlyLimit <- MCMonthlyLimit
    LastDay = 1
    MonthStart <- MCMonthStart
    MaxCalls = 5
    NoRow = NoRow
SYMMETRY Symmetry
INVARIANTS
    TypeOK
    LimitsMatchTier
    CounterWithinGrant
CHECK_DEADLOCK FALSE
