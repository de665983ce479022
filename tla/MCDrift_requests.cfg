SPECIFICATION Spec
CONSTANTS
    Clients = {c1, c2}
    Agents = {g1, g2}
    Types = {t1, t2}
    Lookback = 1
    LastHour = 1
    MaxEvents = 5
    MaxCalls = 2
    None = None
CONSTRAINT MCManyOfOneAgent
SYMMETRY MCSymmetry
INVARIANTS
    TypeOK
    OneActiveWithoutOverlap
    FindingsWereAlerted
    SeverityIsOfVariation
CHECK_DEADLOCK FALSE
