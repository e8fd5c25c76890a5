SPECIFICATION ServingSpec
CONSTANTS
    N = 3
    Staged = {1, 2}
    Dirs = {1, 2}
    Reverse = FALSE
    Marker = TRUE
    Conns = {c1, c2, c3}
    NoConn = NoConn
    Lengths = {0, 2, 3}
    MaxConns = 2
    MaxBody = 2
    MaxInflight = 3
    Ids = {"a"}
    MaxReloads = 1
    Calls = {r1, r2}
    Service = Service
    MaxLines = 1
    PipeRoom = 1
    MaxDeaths = 0
CHECK_DEADLOCK FALSE
INVARIANTS OldIsKept AllOrNothing SubmittedOnce
PROPERTIES AdmissionIsExact NothingHangs
