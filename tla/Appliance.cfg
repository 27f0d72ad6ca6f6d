CONSTANTS
    Procs = {p1, p2}
    Installs = {0, 1}
    Supported = 2
    Tenants = {t1, t2}
    FirstTenant = t1
    Retention = 1
    MaxBackups = 2
    MaxWrites = 2
    MaxRestores = 1
    MaxFaults = 1
SPECIFICATION Spec
INVARIANTS TypeOK ReplacedOffline ChainsVerify
PROPERTIES NetworksKept
SYMMETRY ProcSymmetry
