CONSTANTS
    a1 = a1
    a2 = a2
    h1 = h1
    h2 = h2
    t1 = t1
    t2 = t2
    NoConn = NoConn
    NoAgent = NoAgent
    NoHost = NoHost
    NoToken = NoToken
    NoVersion = NoVersion
    EnrolledHost <- MCEnrolledHost
    EnrolledToken <- MCEnrolledToken
    Agent = {a1, a2}
    Host = {h2}
    Token = {t1}
    Conn = {c1, c2}
    Reload = {r1}
    Request = {}
    MaxVersion = 2
    Capacity = 1
    Valid = {0, 2}
SPECIFICATION Spec
INVARIANTS
    TypeOK
    RegistryMatchesTasks
    ActiveConfigValid
    NotifiedAfterSwap
    NewestNeverLost
PROPERTY
    LeaseSpec
