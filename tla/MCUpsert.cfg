SPECIFICATION Spec
CONSTANTS
    c1 = c1
    c2 = c2
    c3 = c3
    p1 = p1
    p2 = p2
    d1 = d1
    r1 = r1
    r2 = r2
    None = None
    Callers = {c1, c2, c3}
    Processes = {p1, p2}
    ProcessOf <- TwoProcesses
    ReplicaSets = {r1, r2}
    Deployments = {d1}
    Owner <- OneOwner
    UseIngress = TRUE
    Faults = {"call", "answer", "cancel", "crash"}
    MaxCalls = 3
    MaxFaults = 2
SYMMETRY Symmetry
INVARIANTS
    TypeOK
    NothingLeftBehind
    AloneSucceeds
PROPERTIES
    ImplementsAtomicUpsert
    TakenByOtherProcess
\* The bounds are reached.
CHECK_DEADLOCK FALSE
