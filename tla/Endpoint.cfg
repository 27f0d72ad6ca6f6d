CONSTANTS
    Tokens <- MCTokens
    NoFile = NoFile
    NoToken = NoToken
    TTLs = {0, 3}
    Cap = 2
    RotationEnabled = FALSE
    MaxFaults = 3
    MaxEscapes = 1
    MaxCrashes = 1
    MaxReboots = 1
SPECIFICATION FairSpec
INVARIANTS TypeOK ContainmentOwned ReportHonest ReferencesAccounted
PROPERTIES ContainmentEnds
