SPECIFICATION Spec
CONSTANTS
    a1 = a1
    Workers = {w1, w2}
    AlertIds = {a1}
    SentinelTypes = {"drift", "memory"}
    TypeOf <- MCTypeOf
    PolicyActions = {"pause_agent"}
    OperatorActions = {"allow"}
    MaxPolicies = 1
    MaxRuns = 1
    None = None
INVARIANT
    ResponseIsAudited
CHECK_DEADLOCK FALSE
