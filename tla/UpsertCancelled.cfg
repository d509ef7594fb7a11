SPECIFICATION Spec
CONSTANTS
    c1 = c1
    c2 = c2
    c3 = c3
    p1 = p1
    p2 = p2
    d1 = d1
    r1 = r1
    r2 = r2
    None = None
    Callers = {c1}
    Processes = {p1}
    ProcessOf <- OneProcess
    ReplicaSets = {r1, r2}
    Deployments = {d1}
    Owner <- OneOwner
    UseIngress = TRUE
    Faults = {"cancel"}
    MaxCalls = 4
    MaxFaults = 1
INVARIANTS
    CleanedUp
\* The bounds are reached.
CHECK_DEADLOCK FALSE
