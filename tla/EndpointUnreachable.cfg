CONSTANTS
    Tokens <- MCTokens
    NoFile = NoFile
    NoToken = NoToken
    TTLs = {0, 3}
    Cap = 2
    RotationEnabled = TRUE
    MaxFaults = 0
    MaxEscapes = 0
    MaxCrashes = 0
    MaxReboots = 0
SPECIFICATION FairSpec
PROPERTIES ContainmentEnds
