------------------------------ MODULE MutexMap ------------------------------
(***************************************************************************)
(* pkg/transflect/mutexmap.go: a map of mutexes that are locked by name.   *)
(*                                                                         *)
(* Lock(name) stores a mutex that is already locked, or, when the map has  *)
(* one, blocks on that.  Unlock(name) unlocks the mutex that the map holds *)
(* NOW under the name, which after a Remove(name) may be none at all or    *)
(* somebody else's.  Remove asks for no lock.                              *)
(*                                                                         *)
(* The unlock of an unlocked sync.Mutex is a fatal error of the Go runtime *)
(* that ends the process: `crashed`, after which nothing moves.            *)
(***************************************************************************)
EXTENDS FiniteSets

CONSTANTS
    Threads,   \* the goroutines that use the map
    Names,     \* the names they lock
    Mutexes,   \* the sync.Mutex objects; one no longer reachable is reused
    NoMutex,   \* "the map has no entry"
    NoName     \* "in no Lock..Unlock section", and "no thread"

ASSUME MutexMapAssumption ==
    /\ NoMutex \notin Mutexes
    /\ NoName \notin Names \cup Threads

VARIABLES
    sm,        \* sm[n]: the mutex stored under n
    locked,    \* the mutexes that are locked
    stage,     \* stage[t]: "out", "wait" (blocked in Lock), "in" (Lock returned)
    name,      \* name[t]: the name t locks, or NoName
    want,      \* want[t]: the mutex that t is blocked on
    crashed,   \* the runtime has ended the process
    removed    \* history: the names Remove was called for since the start

mmVars == <<sm, locked, stage, name, want, crashed, removed>>

MMTypeOK ==
    /\ sm \in [Names -> Mutexes \cup {NoMutex}]
    /\ locked \subseteq Mutexes
    /\ stage \in [Threads -> {"out", "wait", "in"}]
    /\ name \in [Threads -> Names \cup {NoName}]
    /\ want \in [Threads -> Mutexes \cup {NoMutex}]
    /\ crashed \in BOOLEAN
    /\ removed \subseteq Names
    /\ \A t \in Threads : stage[t] = "out" <=> name[t] = NoName
    /\ \A t \in Threads : stage[t] = "wait" <=> want[t] # NoMutex

MMInit ==
    /\ sm = [n \in Names |-> NoMutex]
    /\ locked = {}
    /\ stage = [t \in Threads |-> "out"]
    /\ name = [t \in Threads |-> NoName]
    /\ want = [t \in Threads |-> NoMutex]
    /\ crashed = FALSE
    /\ removed = {}

\* Every mutex that the map or a blocked thread can reach.
Live == {sm[n] : n \in Names} \cup {want[t] : t \in Threads}

Waiting(n) == {t \in Threads : stage[t] = "wait" /\ name[t] = n}

Holding(n) == {t \in Threads : stage[t] = "in" /\ name[t] = n}

-----------------------------------------------------------------------------
\* A new mutex is one that nothing reaches; which one makes no difference.
NewMutex == CHOOSE m \in Mutexes : m \notin Live

\* Mutation: the new mutex is stored before it is locked.
LockStoredOpen(t, n) ==
    /\ sm[n] = NoMutex
    /\ Mutexes \ Live # {}
    /\ sm' = [sm EXCEPT ![n] = NewMutex]
    /\ stage' = [stage EXCEPT ![t] = "in"]
    /\ UNCHANGED <<locked, want>>

\* LoadOrStore stored the new mutex: the caller is through.
LockStored(t, n) ==
    /\ sm[n] = NoMutex
    /\ Mutexes \ Live # {}
    /\ sm' = [sm EXCEPT ![n] = NewMutex]
    /\ locked' = locked \cup {NewMutex}
    /\ stage' = [stage EXCEPT ![t] = "in"]
    /\ want' = want

\* LoadOrStore loaded a mutex: the caller blocks on it, held or not.
LockLoaded(t, n) ==
    /\ sm[n] # NoMutex
    /\ want' = [want EXCEPT ![t] = sm[n]]
    /\ stage' = [stage EXCEPT ![t] = "wait"]
    /\ UNCHANGED <<sm, locked>>

Lock(t, n) ==
    /\ ~crashed
    /\ stage[t] = "out"
    /\ name' = [name EXCEPT ![t] = n]
    /\ LockStored(t, n) \/ LockLoaded(t, n)
    /\ UNCHANGED <<crashed, removed>>

\* Mutation: a thread is let through while the mutex is locked.
AcquireAnyhow(t) ==
    /\ ~crashed
    /\ stage[t] = "wait"
    /\ locked' = locked \cup {want[t]}
    /\ stage' = [stage EXCEPT ![t] = "in"]
    /\ want' = [want EXCEPT ![t] = NoMutex]
    /\ UNCHANGED <<sm, name, crashed, removed>>

\* Mutation: a thread is let through without locking the mutex.
AcquireOpen(t) ==
    /\ ~crashed
    /\ stage[t] = "wait"
    /\ want[t] \notin locked
    /\ stage' = [stage EXCEPT ![t] = "in"]
    /\ want' = [want EXCEPT ![t] = NoMutex]
    /\ UNCHANGED <<sm, locked, name, crashed, removed>>

\* The mutex a thread is blocked on is free, whatever the map says by now.
Acquire(t) ==
    /\ ~crashed
    /\ stage[t] = "wait"
    /\ want[t] \notin locked
    /\ locked' = locked \cup {want[t]}
    /\ stage' = [stage EXCEPT ![t] = "in"]
    /\ want' = [want EXCEPT ![t] = NoMutex]
    /\ UNCHANGED <<sm, name, crashed, removed>>

\* Mutation: the mutex stays locked.
UnlockNothing(t) ==
    /\ ~crashed
    /\ stage[t] = "in"
    /\ stage' = [stage EXCEPT ![t] = "out"]
    /\ name' = [name EXCEPT ![t] = NoName]
    /\ UNCHANGED <<sm, locked, want, crashed, removed>>

\* Mutation: the name is not forgotten.
UnlockKeepingName(t) ==
    /\ ~crashed
    /\ stage[t] = "in"
    /\ locked' = locked \ {sm[name[t]]}
    /\ crashed' = (sm[name[t]] \notin locked \cup {NoMutex})
    /\ stage' = [stage EXCEPT ![t] = "out"]
    /\ UNCHANGED <<sm, name, want, removed>>

\* Load and Unlock are one step: what other threads do between the two could
\* as well have been done before the Load or after the Unlock.
Unlock(t) ==
    /\ ~crashed
    /\ stage[t] = "in"
    /\ locked' = locked \ {sm[name[t]]}
    /\ crashed' = (sm[name[t]] \notin locked \cup {NoMutex})
    /\ stage' = [stage EXCEPT ![t] = "out"]
    /\ name' = [name EXCEPT ![t] = NoName]
    /\ UNCHANGED <<sm, want, removed>>

\* Nobody will learn whether a mutex that is out of reach is locked.
Remove(n) ==
    /\ ~crashed
    /\ sm' = [sm EXCEPT ![n] = NoMutex]
    /\ removed' = removed \cup {n}
    /\ UNCHANGED <<stage, name, want, crashed>>
    /\ locked' = locked \cap Live'

\* A new process has an empty map and new goroutines.  For modules that
\* compose the map with its process; MMNext is the life of one process.
MMReset ==
    /\ sm' = [n \in Names |-> NoMutex]
    /\ locked' = {}
    /\ stage' = [t \in Threads |-> "out"]
    /\ name' = [t \in Threads |-> NoName]
    /\ want' = [t \in Threads |-> NoMutex]
    /\ crashed' = FALSE
    /\ removed' = {}

MMNext ==
    \/ \E t \in Threads, n \in Names : Lock(t, n)
    \/ \E t \in Threads : Acquire(t)
    \/ \E t \in Threads : Unlock(t)
    \/ \E n \in Names : Remove(n)

\* A holder leaves its section in the end; a blocked thread whose mutex is
\* freed again and again gets it, as sync.Mutex hands a starving waiter the
\* mutex.
MMFairness ==
    /\ \A t \in Threads : WF_mmVars(Unlock(t))
    /\ \A t \in Threads : SF_mmVars(Acquire(t))

MMSpec == MMInit /\ [][MMNext]_mmVars /\ MMFairness

-----------------------------------------------------------------------------
(* Properties *)

\* At most one thread is between Lock(n) and Unlock(n), for each name that was
\* never removed: the removal of other names does not disturb it.
ExclusiveUnlessRemoved ==
    \A n \in Names \ removed : \A t, u \in Holding(n) : t = u

\* Whoever is past Lock for a name that was never removed can unlock it: the
\* unlock of an unlocked mutex (mutexmap.go:22), which ends the process, happens
\* to a thread whose own name was removed, and the removal of other names, or new
\* mutexes stored for them, cannot cause it.
OnlyRemovedNamesFatal ==
    [][crashed' =>
          \/ crashed
          \/ \E t \in Threads : /\ stage[t] = "in" /\ stage'[t] = "out"
                                /\ name[t] \in removed]_mmVars

\* Why the map works as long as a name is not removed: its mutex is in the map
\* under no other name, its waiters block on that very mutex, and whoever is
\* past Lock keeps it locked.
LockTable ==
    /\ \A n, o \in Names : sm[n] = sm[o] /\ sm[n] # NoMutex => n = o
    /\ \A n \in Names \ removed :
          /\ \A t \in Waiting(n) : want[t] = sm[n]
          /\ \A t \in Holding(n) : sm[n] \in locked

\* No unlock is lost: whoever is blocked on a locked mutex, and its name was not
\* removed, waits for a thread that is past Lock and will unlock it.  (The waiter of
\* a removed name may wait for a mutex that nobody unlocks any more.)
NoLostUnlock ==
    \A n \in Names \ removed :
        \A t \in Waiting(n) : want[t] \in locked => Holding(n) # {}

\* A thread blocked in Lock(n) gets the lock, unless n is removed while it
\* waits or before, or the process ends.
WaiterServed ==
    \A t \in Threads, n \in Names :
        t \in Waiting(n) ~> (t \in Holding(n) \/ n \in removed \/ crashed)

\* The map implements one lock per name, for as long as the name is not
\* removed (NamedLock.tla); a removed name is void and promises nothing.
AnyOf(S) == CHOOSE t \in S : TRUE

HolderOf(n) ==
    IF n \notin removed /\ Holding(n) # {} THEN AnyOf(Holding(n)) ELSE NoName

NL == INSTANCE NamedLock
        WITH NoThread <- NoName, owner <- [n \in Names |-> HolderOf(n)],
             void <- removed

ImplementsNamedLock == NL!Spec
=============================================================================
