CONSTANTS
    MaxVersion = 1
    MaxConn = 3
    MaxFaults = 1
SPECIFICATION Spec
INVARIANT
    LastKnownGoodSurvives
