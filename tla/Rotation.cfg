CONSTANTS
    MaxRotations = 2
    MaxDeliveries = 2
    Window = 1
    Lifetimes = {2}
    Skew = 1
    MaxTime = 3
    MaxFailures = 2
    MaxLate = 1
    MaxRetired = 1
    MaxGrants = 1
    GrantLife = 1
    MaxInterrupts = 1
SPECIFICATION FairSpec
INVARIANTS TypeOK OneActiveCredential SwapIsRecorded KeychainNotBehind
PROPERTIES EnrollmentHonest RotationSettles
CHECK_DEADLOCK FALSE
