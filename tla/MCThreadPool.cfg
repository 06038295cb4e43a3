SPECIFICATION FairSpec
CONSTANTS
    j1 = j1  j2 = j2
    c1 = c1  c2 = c2
    w1 = w1  w2 = w2  w3 = w3 
    Jobs = {j1, j2}
    Callers = {c1, c2}
    Workers = {w1, w2, w3}
    Main = Main
    NoThread = NoThread
    NoJob = NoJob
    BaseCount = 1
    MaxCount = 2
    MaxQueued = 1
    SpawnMayFail = TRUE
INVARIANTS
    TypeOK
    IdleCountExact
    ThreadsBounded
    NoStrandedJob
    ShutdownDrains
    NoThreadOutlivesPool
PROPERTIES
    ImplementsTaskQueue
    AcceptedJobRuns
    ThreadsEnd
