SPECIFICATION Spec
CONSTANTS
    Tasks = {t1, t2}
    Requests = {r1, r2}
    MaxConnections = 3
    MaxStarts = 3
SYMMETRY Symmetric
INVARIANTS
    TypeOK
    ConnectionsAreOwned
    RequestsAreServed
    StopReleasesAll
CHECK_DEADLOCK FALSE
