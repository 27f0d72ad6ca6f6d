CONSTANTS
    e1 = e1
    e2 = e2
    a1 = a1
    a2 = a2
    p1 = p1
    p2 = p2
    w1 = w1
    w2 = w2
    NoPayload = NoPayload
    NoWorker = NoWorker
    EventOf <- MCEventOf
    KeyOf <- MCKeyOf
    PriorityOf <- MCPriorityOf
    Rank <- MCRank
    Delay = 1
    MaxDelay = 2
    Events = {e1, e2}
    Alerts = {a1, a2}
    Payloads = {p1}
    Workers = {w1, w2}
    Limit = 1
    Lease = 1
    MaxAttempts = 1
    MaxLag = 1
    MaxLost = 1
    MaxSlow = 1
SPECIFICATION Spec
INVARIANTS TypeOK AlertsSettled CasesConsistent PriorityCovers
PROPERTIES FencedLease ImplementsLog
