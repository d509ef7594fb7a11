SPECIFICATION SafetySpec
CONSTANTS
    d1 = d1
    d2 = d2
    r1 = r1
    r2 = r2
    NoMutex = NoMutex
    NoName = NoName
    NoOption = NoOption
    None = None
    Threads = {w1, w2}
    Names = {d1}
    Mutexes = {m1, m2, m3}
    ReplicaSets = {r1, r2}
    Owner <- TwoSets
    Existing = {r1}
    Ports = {65536, 9090}
    Options = {NoOption, o1}
    PageLimit = 1
    Faults = {"upsert", "delete", "watch", "restart"}
    MaxUid = 2
    MaxRevision = 2
    MaxChanges = 3
    MaxFaults = 1
SYMMETRY WorkerSymmetry
INVARIANTS
    TypeOK
    OneWorkerPerReplicaSet
    StaleSnapshotRequeued
    OneUpdateUnlessRemoved
    NoWorkerLost
    RecordMatchesFilter
PROPERTIES
    NoRollback
\* Idle workers wait for work, and a crash needs no restart.
CHECK_DEADLOCK FALSE
