SPECIFICATION SafetySpec
CONSTANTS
    d1 = d1
    d2 = d2
    r1 = r1
    r2 = r2
    NoMutex = NoMutex
    NoName = NoName
    NoOption = NoOption
    None = None
    Threads = {w1, w2}
    Names = {d1}
    Mutexes = {m1, m2, m3}
    ReplicaSets = {r1, r2}
    Owner <- TwoSets
    Existing = {r1}
    Ports = {65536, 9090}
    Options = {NoOption}
    PageLimit = 1
    Faults = {}
    MaxUid = 1
    MaxRevision = 2
    MaxChanges = 3
    MaxFaults = 0
INVARIANTS
    OneUpdatePerDeployment
\* Idle workers wait for work, and a crash needs no restart.
CHECK_DEADLOCK FALSE
