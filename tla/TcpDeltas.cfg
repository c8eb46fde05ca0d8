CONSTANTS
    Uid = {u1}
    Pid = {p1, p2}
    Word = 16
    MaxTraffic = 3
    NoPid = NoPid
SPECIFICATION Spec
INVARIANT
    NoPhantomTraffic
SYMMETRY PidSymmetry
