CONSTANTS
    Cpu = {c1, c2}
    Request = {r1}
    Extent <- Extents
    SectorSize = 2
    MaxSectors = 2
    Capacity = 1
    MaxTime = 1
    MaxIo = 2
    MaxCollections = 2
SPECIFICATION Spec
INVARIANTS
    CountedOnce
    ReportedConserved
    GaugeAccounted
SYMMETRY CpuSymmetry
CHECK_DEADLOCK FALSE
