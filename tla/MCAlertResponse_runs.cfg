SPECIFICATION Spec
CONSTANTS
    a1 = a1
    Workers = {w1, w2}
    AlertIds = {a1}
    SentinelTypes = {"drift", "memory"}
    TypeOf <- MCTypeOf
    PolicyActions = {"pause_agent", "isolate_agent"}
    OperatorActions = {"allow"}
    MaxPolicies = 1
    MaxRuns = 2
    None = None
INVARIANTS
    TypeOK
    TrailIsTrue
    ResponseFollowsPolicy
    DecisionsWereRequested
PROPERTY
    EveryRunEnds
CHECK_DEADLOCK FALSE
