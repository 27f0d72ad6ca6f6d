CONSTANTS
    r1 = r1
    c1 = c1
    r2 = r2
    d1 = d1
    d2 = d2
    a1 = a1
    a2 = a2
    u1 = u1
    u2 = u2
    None = None
    Cases = {c1}
    Users = {u1, u2}
    Results = {r1, r2}
    Succeeded = {r1}
    Actions = {a1, a2}
    Devices = {d1, d2}
    TTLs = {2}
    MaxDispatch = 2
SPECIFICATION FairSpec
INVARIANTS TypeOK OneLiveAction IndependentApproval
PROPERTIES TriggersSilent ActionSettles
