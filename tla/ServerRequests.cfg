CONSTANTS
    a1 = a1
    a2 = a2
    h1 = h1
    h2 = h2
    t1 = t1
    t2 = t2
    NoConn = NoConn
    NoAgent = NoAgent
    NoHost = NoHost
    NoToken = NoToken
    NoVersion = NoVersion
    EnrolledHost <- MCEnrolledHost
    EnrolledToken <- MCEnrolledToken
    Agent = {a1}
    Host = {h1, h2}
    Token = {t1}
    Conn = {c1, c2}
    Reload = {r1}
    Request = {q1}
    MaxVersion = 1
    Capacity = 1
    Valid = {0, 1}
SPECIFICATION Spec
INVARIANTS
    ServedToProvenSession
    ServedForEnrolledHost
SYMMETRY ConnSymmetry
