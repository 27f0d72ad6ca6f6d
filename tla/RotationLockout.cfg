CONSTANTS
    MaxRotations = 2
    MaxDeliveries = 2
    Window = 1
    Lifetimes = {2}
    Skew = 1
    MaxTime = 3
    MaxFailures = 2
    MaxLate = 0
    MaxRetired = 1
SPECIFICATION Spec
INVARIANTS NoLockout
