SPECIFICATION MMSpec
CONSTANTS
    Threads = {t1, t2, t3}
    Names = {n1, n2}
    Mutexes = {m1, m2, m3, m4, m5}
    NoMutex = NoMutex
    NoName = NoName
INVARIANTS
    MMTypeOK
    LockTable
    NoLostUnlock
PROPERTIES
    ImplementsNamedLock
    OnlyRemovedNamesFatal
    WaiterServed
\* A thread whose mutex was removed from the map may wait for ever, and the
\* process may have been ended.
CHECK_DEADLOCK FALSE
