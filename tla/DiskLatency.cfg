CONSTANTS
    Cpu = {c1, c2}
    Request = {r1, r2}
    Extent <- SingleSectors
    SectorSize = 2
    MaxSectors = 1
    Capacity = 2
    MaxTime = 1
    MaxIo = 2
    MaxCollections = 1
SPECIFICATION Spec
INVARIANT
    AverageWithinLatencies
CHECK_DEADLOCK FALSE
