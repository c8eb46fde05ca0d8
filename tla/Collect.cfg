SPECIFICATION Spec
CONSTANTS
    PageSize = 4
    MaxPages = 3
    NetCpu = {n1, n2}
    MaxBytes = 2
    Cpu = {c1, c2}
    Task = {t1}
    Idle = Idle
    MaxTicks = 2
    MaxTaskTime = 2
    Mount <- MCMount
    FsType = {ext4, xfs}
    Absent = Absent
    BlockCount = {1, 3}
    FragmentSize = {2}
    MaxU64 = 4
    Args <- MCArgs
    NoLimit = NoLimit
    Slowest = 1
INVARIANTS
    SwapConserved
    CpuTimeChargedWhereSpent
    NetworkReportedOnce
    StorageSamplesTrue
    StopsOnTime
    EverySampleHasInstrument
PROPERTY Terminates
