CONSTANTS
    p1 = p1
    p2 = p2
    w1 = w1
    None = None
    Former = Former
    Processes = {p1, p2}
    Workers = {w1}
    Faults <- MCFaults
    MaxPending = 1
    MaxFaults = 2

SPECIFICATION Spec
CHECK_DEADLOCK FALSE

INVARIANTS
    TypeOK
    OneLeader
    NoWorkerCutOff
    NobodyStuck

PROPERTIES
    ShutdownEnds
    FormerLeaderRetires
    SomebodyLeads
