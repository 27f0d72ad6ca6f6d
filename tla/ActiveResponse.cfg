CONSTANTS
    a1 = a1
    a2 = a2
    u1 = u1
    u2 = u2
    c1 = c1
    None = None
    Device = Device
    NoFile = NoFile
    NoToken = NoToken
    Actions = {a1, a2}
    Users = {u1, u2}
    Cases = {c1}
    TTLs = {1}
    MaxDispatch = 2
    Tokens = {1, 2}
    Cap = 2
    RotationEnabled = TRUE
    MaxFaults = 0
    MaxEscapes = 0
    MaxCrashes = 1
    MaxReboots = 0
SYMMETRY MCSymmetry
SPECIFICATION Spec
INVARIANTS ContainmentAuthorized ContainmentWithinAction RecordedReleaseHolds
