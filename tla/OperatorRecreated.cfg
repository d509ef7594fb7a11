SPECIFICATION Spec
CONSTANTS
    d1 = d1
    d2 = d2
    r1 = r1
    r2 = r2
    NoMutex = NoMutex
    NoName = NoName
    NoOption = NoOption
    None = None
    Threads = {w1, w2}
    Names = {d1}
    Mutexes = {m1, m2, m3}
    ReplicaSets = {r1}
    Owner <- OneSet
    Existing = {r1}
    Ports = {9090}
    Options = {NoOption}
    PageLimit = 1
    Faults = {}
    MaxUid = 2
    MaxRevision = 1
    MaxChanges = 4
    MaxFaults = 0
PROPERTIES
    Converges
\* Idle workers wait for work, and a crash needs no restart.
CHECK_DEADLOCK FALSE
