SPECIFICATION Spec
CONSTANTS
    EventTypes = {"agent_started", "agent_completed"}
    Times <- MCTimes
    Hashes = {"absent", "wrong"}
    MaxRows = 3
    PageLimit = 1
    ReplayLimit = 2
    VerifyLimit = 1
    DailyLimits = {1, 3}
    MaxChecks = 2
    Severities = {"low", "high"}
    PolicyActions = {"warn", "block_tool_call"}
    NoReport = NoReport
CONSTRAINT MCOneAtATime
INVARIANTS
    TypeOK
    ScanMissesNothing
    ReplayFollowsSession
    DirtStaysVisible
    ReportOwesNothing
    EvaluationIsMonotone
CHECK_DEADLOCK FALSE
