SPECIFICATION FairSpec
CONSTANTS
    t1 = t1
    t2 = t2
    t3 = t3
    r1 = r1
    r2 = r2
    r3 = r3
    a = a
    b = b
    None = None
    Tasks <- ThreeTasks
    Requests <- TwoRequests
    Concurrent = 1
    Rows <- TwoRows
    MaxResults = 2
CHECK_DEADLOCK FALSE
INVARIANTS
    TypeOK
    OneMonitor
    SettingsApplied
    NoRowForgotten
    ShownIsStored
    OnMeansRunning
PROPERTIES
    RequestsReturn
