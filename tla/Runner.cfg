CONSTANTS
    MaxVersion = 3
    Interval = {1, 2}
SPECIFICATION FairSpec
INVARIANTS
    AtMostOneStaleBatch
    WindowIsTheSleep
PROPERTIES
    LabelIsTheConfigUsed
    DisabledReleasesProvider
    Recovers
