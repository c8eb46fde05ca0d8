CONSTANTS
    Sockets = 2
    Uid = {u1}
    HostNetwork = {}
    CallerTimeout = 6
    WorkerTimeout = 5
    MaxScan = 0
    MaxJob = 2
SPECIFICATION FairSpec
INVARIANTS
    AnswerIsCurrent
    ClientsMatchSelection
    EmptyMeansListed
    WorkerReportsFirst
PROPERTY
    RefreshReturns
