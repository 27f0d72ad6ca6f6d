CONSTANTS
    MaxMoves = 3
    Kinds = {"event", "wide", "junk", "huge", "long"}
    Postures = {"good", "bad"}
    MaxEventsPerRun = 1
    MaxReadUnits = 2
    MaxBatchEvents = 2
    FlushLimit = 2
    Interval = 1
    InitialDelay = 1
    MaxDelay = 1
    MaxStreak = 2
    MaxFaults = 1
SPECIFICATION FairSpec
INVARIANTS TypeOK CursorBehindSpool DeliveredMeansKnown  ReleaseReported
PROPERTIES EventArrives
