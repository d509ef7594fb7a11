CONSTANTS
    f1 = f1
    f2 = f2
    f3 = f3
    f4 = f4
    s1 = s1
    s2 = s2
    other = other
    Files = {f1, f2, f3, f4}
    Services = {s1, s2}
    Servers <- MCServers
    Excludes <- MCExcludes
    Retries = 1
    Faults = {"unavailable", "status", "local", "error"}

SPECIFICATION Spec
\* The query ends.
CHECK_DEADLOCK FALSE

INVARIANTS
    TypeOK
    SortedAndComplete
    OfferedIsAnnotated
    MapClosed

PROPERTIES
    QueryEnds
