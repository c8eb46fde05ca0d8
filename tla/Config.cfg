SPECIFICATION Spec
CONSTANTS
    AbsolutePath = {"/", "/data"}
    BlankSocket = {"", " "}
    Host = {h1, h2}
    Blocked = {"", h1}
    Table <- MCTable
    Broken = Broken
    Nothing = Nothing
    Provider <- MCProvider
    Assignment <- MCAssignment
    MaxSet = 2
    Authority <- MCAuthority
    Hash = {0, 1, 2, 3, 4, 180, 181, 1799}
INVARIANTS
    AcceptedFileServesItsHosts
    PollSpreadBounded
    LocalMatchesRemote
    SetStaysInSection
    PlaintextStaysLocal
