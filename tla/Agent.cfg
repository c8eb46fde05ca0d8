CONSTANTS
    MaxVersion = 2
    MaxConn = 3
    MaxFaults = 2
SPECIFICATION FairSpec
INVARIANTS
    OnlyGoodConfig
    SessionOfThisConnection
    StableAgentId
PROPERTY
    Converges
