SPECIFICATION Spec
CONSTANTS
    h1 = h1
    h2 = h2
    acme = acme
    globex = globex
    Clients = {c1, c2}
    Hooks = {h1, h2}
    NoHook = NoHook
    TenantOf <- MCTenantOf
    Subscribed <- MCSubscribed
    Tenants = {acme, globex}
    SentinelTypes = {"drift", "memory"}
    HasClient = TRUE
    MaxDispatches = 2
INVARIANTS
    TypeOK
    FailureCountIsExact
    FailuresAreReal
    ResultIsTrue
PROPERTIES
    ImplementsFanOut
    EveryDispatchEnds
CHECK_DEADLOCK FALSE
