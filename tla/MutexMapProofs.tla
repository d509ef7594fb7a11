--------------------------- MODULE MutexMapProofs ---------------------------
(***************************************************************************)
(* Proofs about pkg/transflect/mutexmap.go for any number of threads,      *)
(* names and mutexes.  The inductive invariant joins exclusion with the    *)
(* shape of the table (LockTable) that makes it inductive: a waiter of a   *)
(* name that was not removed blocks on the one mutex that its holder keeps *)
(* locked.                                                                 *)
(***************************************************************************)
EXTENDS MutexMap, TLAPS

MMInv ==
    /\ MMTypeOK
    /\ LockTable
    /\ ExclusiveUnlessRemoved

-----------------------------------------------------------------------------
\* The initial state has an empty table.
LEMMA MMInitInv == MMInit => MMInv
  BY DEF MMInit, MMInv, MMTypeOK, LockTable, ExclusiveUnlessRemoved, Holding,
         Waiting

\* A mutex chosen as new is a mutex that neither the map nor a waiter knows.
LEMMA NewMutexIsNew ==
    ASSUME Mutexes \ Live # {}
    PROVE  NewMutex \in Mutexes /\ NewMutex \notin Live
  BY DEF NewMutex

\* Lock (mutexmap.go:11-17) keeps the invariant.
LEMMA LockKeepsInv ==
    ASSUME MMInv, NEW t \in Threads, NEW n \in Names, Lock(t, n)
    PROVE  MMInv'
<1> USE MutexMapAssumption DEF MMInv, Holding, Waiting
<1>1. CASE LockStored(t, n)
  <2>1. NewMutex \in Mutexes /\ NewMutex \notin Live
    BY <1>1, NewMutexIsNew DEF LockStored
  <2>2. /\ NewMutex # NoMutex
        /\ \A o \in Names : sm[o] # NewMutex
        /\ \A u \in Threads : want[u] # NewMutex
    BY <2>1 DEF Live
  <2>3. MMTypeOK'
    BY <1>1, <2>1 DEF LockStored, Lock, MMTypeOK
  <2>4. LockTable'
    BY <1>1, <2>2 DEF LockStored, Lock, MMTypeOK, LockTable
  <2>5. ExclusiveUnlessRemoved'
    <3>1. n \notin removed => Holding(n) = {}
      BY <1>1 DEF LockStored, LockTable, MMTypeOK, Lock
    <3> QED
      BY <1>1, <3>1 DEF LockStored, Lock, MMTypeOK, ExclusiveUnlessRemoved
  <2> QED
    BY <2>3, <2>4, <2>5
<1>2. CASE LockLoaded(t, n)
  <2>1. MMTypeOK'
    BY <1>2 DEF LockLoaded, Lock, MMTypeOK
  <2>2. LockTable' /\ ExclusiveUnlessRemoved'
    BY <1>2 DEF LockLoaded, Lock, MMTypeOK, LockTable, ExclusiveUnlessRemoved
  <2> QED
    BY <2>1, <2>2
<1> QED
  BY <1>1, <1>2 DEF Lock

\* A waiter that gets its mutex (mutexmap.go:15) keeps the invariant: the
\* mutex was free, so nobody else was past Lock for that name.
LEMMA AcquireKeepsInv ==
    ASSUME MMInv, NEW t \in Threads, Acquire(t)
    PROVE  MMInv'
<1> USE MutexMapAssumption DEF MMInv, Holding, Waiting
<1>1. MMTypeOK'
  BY DEF Acquire, MMTypeOK
<1>2. name[t] \in Names
  BY DEF Acquire, MMTypeOK
<1>3. name[t] \notin removed => want[t] = sm[name[t]] /\ Holding(name[t]) = {}
  BY <1>2 DEF Acquire, MMTypeOK, LockTable
<1>4. LockTable'
  BY <1>2, <1>3 DEF Acquire, MMTypeOK, LockTable
<1>5. ExclusiveUnlessRemoved'
  BY <1>2, <1>3 DEF Acquire, MMTypeOK, ExclusiveUnlessRemoved
<1> QED
  BY <1>1, <1>4, <1>5

\* Unlock (mutexmap.go:20-24) keeps the invariant: it can free the mutex of
\* no name but its own.
LEMMA UnlockKeepsInv ==
    ASSUME MMInv, NEW t \in Threads, Unlock(t)
    PROVE  MMInv'
<1> USE MutexMapAssumption DEF MMInv, Holding, Waiting
<1>1. MMTypeOK'
  BY DEF Unlock, MMTypeOK
<1>2. name[t] \in Names
  BY DEF Unlock, MMTypeOK
<1>3. LockTable'
  <2>1. ASSUME NEW n \in Names \ removed, NEW u \in Threads,
               stage'[u] = "in", name'[u] = n
        PROVE  sm'[n] \in locked'
    <3>1. u # t /\ stage[u] = "in" /\ name[u] = n
      BY <2>1 DEF Unlock, MMTypeOK
    <3>2. n # name[t]
      BY <3>1, <1>2 DEF ExclusiveUnlessRemoved, Unlock
    <3>3. sm[n] \in locked /\ sm[n] # NoMutex
      BY <3>1 DEF LockTable, MMTypeOK
    <3> QED
      BY <3>2, <3>3, <1>2 DEF LockTable, Unlock
  <2> QED
    BY <2>1, <1>2 DEF Unlock, MMTypeOK, LockTable
<1>4. ExclusiveUnlessRemoved'
  BY <1>2 DEF Unlock, MMTypeOK, ExclusiveUnlessRemoved
<1> QED
  BY <1>1, <1>3, <1>4

\* Remove (mutexmap.go:27-29) keeps the invariant, which says nothing of the
\* removed name any more.
LEMMA RemoveKeepsInv ==
    ASSUME MMInv, NEW n \in Names, Remove(n)
    PROVE  MMInv'
<1> USE MutexMapAssumption DEF MMInv, Holding, Waiting
<1>1. MMTypeOK'
  BY DEF Remove, MMTypeOK
<1>2. LockTable' /\ ExclusiveUnlessRemoved'
  BY DEF Remove, Live, MMTypeOK, LockTable, ExclusiveUnlessRemoved
<1> QED
  BY <1>1, <1>2

\* No step breaks the invariant.
LEMMA MMNextInv == MMInv /\ [MMNext]_mmVars => MMInv'
<1> SUFFICES ASSUME MMInv, [MMNext]_mmVars
             PROVE  MMInv'
  OBVIOUS
<1>1. CASE UNCHANGED mmVars
  BY <1>1 DEF mmVars, MMInv, MMTypeOK, LockTable, ExclusiveUnlessRemoved,
              Holding, Waiting
<1>2. ASSUME NEW t \in Threads, NEW n \in Names, Lock(t, n)
      PROVE  MMInv'
  BY <1>2, LockKeepsInv
<1>3. ASSUME NEW t \in Threads, Acquire(t)
      PROVE  MMInv'
  BY <1>3, AcquireKeepsInv
<1>4. ASSUME NEW t \in Threads, Unlock(t)
      PROVE  MMInv'
  BY <1>4, UnlockKeepsInv
<1>5. ASSUME NEW n \in Names, Remove(n)
      PROVE  MMInv'
  BY <1>5, RemoveKeepsInv
<1> QED
  BY <1>1, <1>2, <1>3, <1>4, <1>5 DEF MMNext

\* The invariant of the map holds in every reachable state.
LEMMA MMInvariant == MMSpec => []MMInv
  BY MMInitInv, MMNextInv, PTL DEF MMSpec

-----------------------------------------------------------------------------
\* Type correctness of the map and of the threads' places in it.
THEOREM MMTypeCorrect == MMSpec => []MMTypeOK
  BY MMInvariant, PTL DEF MMInv

\* Two threads are never both between Lock(n) and Unlock(n) when n was never
\* removed (mutexmap.go:11-24), however many other names come and go.
THEOREM MutualExclusion == MMSpec => []ExclusiveUnlessRemoved
  BY MMInvariant, PTL DEF MMInv

\* The table keeps the shape that exclusion rests on.
THEOREM TableShape == MMSpec => []LockTable
  BY MMInvariant, PTL DEF MMInv

\* A thread past Lock holds the mutex that Unlock will find, unless its name was
\* removed: only then can the unlock of an unlocked mutex end the process
\* (mutexmap.go:20-24), whatever the other names went through.
THEOREM FatalOnlyAfterRemove == MMSpec => OnlyRemovedNamesFatal
<1>1. ASSUME MMInv, NEW t \in Threads, Unlock(t), name[t] \notin removed
      PROVE  ~crashed'
  <2>1. name[t] \in Names \ removed /\ t \in Holding(name[t])
    BY <1>1 DEF MMInv, MMTypeOK, Unlock, Holding
  <2>2. sm[name[t]] \in locked
    BY <1>1, <2>1 DEF MMInv, LockTable
  <2> QED
    BY <1>1, <2>2 DEF Unlock
<1>2. ASSUME MMInv, NEW t \in Threads, Unlock(t)
      PROVE  stage[t] = "in" /\ stage'[t] = "out"
  BY <1>2 DEF MMInv, MMTypeOK, Unlock
<1>3. MMInv /\ [MMNext]_mmVars =>
        [crashed' => \/ crashed
                     \/ \E t \in Threads : /\ stage[t] = "in" /\ stage'[t] = "out"
                                           /\ name[t] \in removed]_mmVars
  <2> SUFFICES ASSUME MMInv, MMNext, crashed', ~crashed
               PROVE  \E t \in Threads : /\ stage[t] = "in" /\ stage'[t] = "out"
                                         /\ name[t] \in removed
    OBVIOUS
  <2>1. PICK t \in Threads : Unlock(t)
    BY DEF MMNext, Lock, Acquire, Remove
  <2> QED
    BY <2>1, <1>1, <1>2
<1> QED
  BY <1>3, MMInvariant, PTL DEF MMSpec, OnlyRemovedNamesFatal

-----------------------------------------------------------------------------
(* No unlock is lost. *)

\* A locked mutex in the map has a holder, unless its name was removed, and a thread
\* blocked on a mutex of the map has asked for that name.
HolderInv ==
    /\ \A n \in Names \ removed : sm[n] \in locked => Holding(n) # {}
    /\ \A t \in Threads, n \in Names :
           stage[t] = "wait" /\ want[t] = sm[n] => name[t] = n

\* Lock (mutexmap.go:11-17): who stores a locked mutex holds it.
LEMMA LockKeepsHolders ==
    ASSUME MMInv, HolderInv, NEW t \in Threads, NEW n \in Names, Lock(t, n)
    PROVE  HolderInv'
<1> USE MutexMapAssumption DEF Holding
<1>1. MMTypeOK /\ LockTable /\ stage[t] = "out" /\ name' = [name EXCEPT ![t] = n]
        /\ removed' = removed
  BY DEF MMInv, Lock
<1>2. CASE LockStored(t, n)
  <2>1. NewMutex \in Mutexes /\ NewMutex \notin Live
    BY <1>2, NewMutexIsNew DEF LockStored
  <2>2. /\ \A o \in Names : sm[o] # NewMutex
        /\ \A u \in Threads : want[u] # NewMutex
    BY <2>1 DEF Live
  <2>3. /\ sm' = [sm EXCEPT ![n] = NewMutex] /\ locked' = locked \cup {NewMutex}
        /\ stage' = [stage EXCEPT ![t] = "in"] /\ want' = want
    BY <1>2 DEF LockStored
  <2>4. \A o \in Names \ removed : sm'[o] \in locked' => Holding(o)' # {}
    <3> SUFFICES ASSUME NEW o \in Names \ removed, sm'[o] \in locked'
                 PROVE  \E u \in Threads : stage'[u] = "in" /\ name'[u] = o
      OBVIOUS
    <3>1. CASE o = n
      BY <1>1, <2>3, <3>1 DEF MMTypeOK
    <3>2. CASE o # n
      <4>1. sm[o] \in locked
        BY <1>1, <2>2, <2>3, <3>2 DEF MMTypeOK
      <4>2. PICK u \in Threads : stage[u] = "in" /\ name[u] = o
        BY <4>1 DEF HolderInv
      <4> QED
        BY <1>1, <2>3, <4>2 DEF MMTypeOK
    <3> QED
      BY <3>1, <3>2
  <2>5. \A u \in Threads, o \in Names :
           stage'[u] = "wait" /\ want'[u] = sm'[o] => name'[u] = o
    BY <1>1, <2>2, <2>3 DEF MMTypeOK, HolderInv
  <2> QED
    BY <1>1, <2>4, <2>5 DEF HolderInv
<1>3. CASE LockLoaded(t, n)
  <2>1. /\ sm' = sm /\ locked' = locked /\ sm[n] # NoMutex
        /\ stage' = [stage EXCEPT ![t] = "wait"]
        /\ want' = [want EXCEPT ![t] = sm[n]]
    BY <1>3 DEF LockLoaded
  <2>2. \A o \in Names : Holding(o) \subseteq Holding(o)'
    BY <1>1, <2>1 DEF MMTypeOK
  <2>3. \A u \in Threads, o \in Names :
           stage'[u] = "wait" /\ want'[u] = sm'[o] => name'[u] = o
    BY <1>1, <2>1 DEF MMTypeOK, LockTable, HolderInv
  <2> QED
    BY <1>1, <2>1, <2>2, <2>3 DEF HolderInv
<1> QED
  BY <1>2, <1>3 DEF Lock

\* Acquire (mutexmap.go:15): who locks a mutex of the map holds its name.
LEMMA AcquireKeepsHolders ==
    ASSUME MMInv, HolderInv, NEW t \in Threads, Acquire(t)
    PROVE  HolderInv'
<1> USE MutexMapAssumption DEF Holding
<1>1. /\ MMTypeOK /\ stage[t] = "wait"
      /\ stage' = [stage EXCEPT ![t] = "in"] /\ locked' = locked \cup {want[t]}
      /\ want' = [want EXCEPT ![t] = NoMutex] /\ UNCHANGED <<sm, name, removed>>
  BY DEF MMInv, Acquire
<1>2. ASSUME NEW o \in Names \ removed, sm[o] \in locked \/ sm[o] = want[t]
      PROVE  \E u \in Threads : stage'[u] = "in" /\ name[u] = o
  <2>1. CASE sm[o] = want[t]
    BY <1>1, <2>1 DEF MMTypeOK, HolderInv
  <2>2. CASE sm[o] \in locked
    <3>1. PICK u \in Threads : stage[u] = "in" /\ name[u] = o
      BY <2>2 DEF HolderInv
    <3> QED
      BY <1>1, <3>1 DEF MMTypeOK
  <2> QED
    BY <1>2, <2>1, <2>2
<1>3. \A o \in Names \ removed' : sm'[o] \in locked' => Holding(o)' # {}
  BY <1>1, <1>2
<1>4. \A u \in Threads, o \in Names :
         stage'[u] = "wait" /\ want'[u] = sm'[o] => name'[u] = o
  BY <1>1 DEF MMTypeOK, HolderInv
<1> QED
  BY <1>3, <1>4 DEF HolderInv

\* Unlock (mutexmap.go:19-24): the holder of a name unlocks the mutex of that name
\* and no other.
LEMMA UnlockKeepsHolders ==
    ASSUME MMInv, HolderInv, NEW t \in Threads, Unlock(t)
    PROVE  HolderInv'
<1> USE MutexMapAssumption DEF Holding
<1>1. /\ MMTypeOK /\ stage[t] = "in" /\ name[t] \in Names
      /\ locked' = locked \ {sm[name[t]]}
      /\ stage' = [stage EXCEPT ![t] = "out"]
      /\ name' = [name EXCEPT ![t] = NoName] /\ UNCHANGED <<sm, want, removed>>
  BY DEF MMInv, MMTypeOK, Unlock
<1>2. ASSUME NEW o \in Names \ removed, sm[o] \in locked'
      PROVE  \E u \in Threads : stage'[u] = "in" /\ name'[u] = o
  <2>1. o # name[t] /\ sm[o] \in locked
    BY <1>1, <1>2
  <2>2. PICK u \in Threads : stage[u] = "in" /\ name[u] = o
    BY <2>1 DEF HolderInv
  <2> QED
    BY <1>1, <2>1, <2>2 DEF MMTypeOK
<1>3. \A o \in Names \ removed' : sm'[o] \in locked' => Holding(o)' # {}
  BY <1>1, <1>2
<1>4. \A u \in Threads, o \in Names :
         stage'[u] = "wait" /\ want'[u] = sm'[o] => name'[u] = o
  BY <1>1 DEF MMTypeOK, HolderInv
<1> QED
  BY <1>3, <1>4 DEF HolderInv

\* Remove (mutexmap.go:26-28) takes a mutex from the map, and its name's promise.
LEMMA RemoveKeepsHolders ==
    ASSUME MMInv, HolderInv, NEW n \in Names, Remove(n)
    PROVE  HolderInv'
<1>1. /\ MMTypeOK /\ sm' = [sm EXCEPT ![n] = NoMutex]
      /\ removed' = removed \cup {n} /\ locked' \subseteq locked
      /\ UNCHANGED <<stage, name, want>>
  BY DEF MMInv, Remove
<1>2. \A o \in Names \ removed' : sm'[o] \in locked' => Holding(o)' # {}
  BY <1>1 DEF MMTypeOK, HolderInv, Holding
<1>3. \A u \in Threads, o \in Names :
         stage'[u] = "wait" /\ want'[u] = sm'[o] => name'[u] = o
  BY <1>1 DEF MMTypeOK, HolderInv
<1> QED
  BY <1>2, <1>3 DEF HolderInv

\* A new map has no locked mutexes.
LEMMA InitHolders == MMInit => HolderInv
  BY MutexMapAssumption DEF MMInit, HolderInv

\* Every step keeps a holder for every locked mutex.
LEMMA MMNextKeepsHolders ==
    ASSUME MMInv, HolderInv, [MMNext]_mmVars
    PROVE  HolderInv'
<1>1. CASE UNCHANGED mmVars
  BY <1>1 DEF mmVars, HolderInv, Holding
<1>2. CASE MMNext
  BY <1>2, LockKeepsHolders, AcquireKeepsHolders, UnlockKeepsHolders,
     RemoveKeepsHolders DEF MMNext
<1> QED
  BY <1>1, <1>2

\* Locked mutexes have holders, always.
LEMMA HoldersInvariant == MMSpec => []HolderInv
<1>1. MMInv /\ HolderInv /\ [MMNext]_mmVars => HolderInv'
  BY MMNextKeepsHolders
<1> QED
  BY <1>1, InitHolders, MMInvariant, PTL DEF MMSpec

\* Nobody waits for a mutex that nobody is going to unlock, as long as the name is not
\* removed: LoadOrStore, Lock and Unlock of all threads, in any order.
THEOREM UnlocksArrive == MMSpec => []NoLostUnlock
<1>1. MMInv /\ HolderInv => NoLostUnlock
  BY DEF MMInv, LockTable, HolderInv, NoLostUnlock
<1> QED
  BY <1>1, MMInvariant, HoldersInvariant, PTL

-----------------------------------------------------------------------------
(* MutexMap implements NamedLock. *)

\* Whoever holds a name that was not removed is its owner.
LEMMA HolderIsOwner ==
    ASSUME ExclusiveUnlessRemoved,
           NEW n \in Names \ removed, NEW t \in Holding(n)
    PROVE  HolderOf(n) = t
<1>1. PICK u \in Holding(n) : HolderOf(n) = u
  BY DEF HolderOf, AnyOf
<1> QED
  BY <1>1 DEF ExclusiveUnlessRemoved

\* The primed form of the lemma above.
LEMMA HolderIsOwnerNext ==
    ASSUME ExclusiveUnlessRemoved',
           NEW n \in Names \ removed', NEW t \in Holding(n)'
    PROVE  HolderOf(n)' = t
<1>1. PICK u \in Holding(n)' : HolderOf(n)' = u
  BY DEF HolderOf, AnyOf
<1> QED
  BY <1>1 DEF ExclusiveUnlessRemoved

\* A step that changes neither a holder nor the removed names is a stutter.
LEMMA SameHolders ==
    ASSUME removed' = removed,
           \A n \in Names \ removed : Holding(n)' = Holding(n)
    PROVE  UNCHANGED NL!vars
<1>1. ASSUME NEW n \in Names PROVE HolderOf(n)' = HolderOf(n)
  BY DEF HolderOf
<1> QED
  BY <1>1 DEF NL!vars

\* A thread that gets past Lock for a name that nobody holds grabs it; for a
\* removed name the step is invisible.
LEMMA EnterGrabs ==
    ASSUME MMInv, MMInv', removed' = removed,
           NEW t \in Threads, NEW n \in Names,
           \A o \in Names \ {n} : Holding(o)' = Holding(o),
           n \notin removed => Holding(n) = {} /\ t \in Holding(n)'
    PROVE  [NL!Next]_(NL!vars)
<1>1. CASE n \in removed
  BY <1>1, SameHolders
<1>2. CASE n \notin removed
  <2>1. HolderOf(n) = NoName
    BY <1>2 DEF HolderOf
  <2>2. HolderOf(n)' = t
    BY <1>2, HolderIsOwnerNext DEF MMInv
  <2>3. \A o \in Names \ {n} : HolderOf(o)' = HolderOf(o)
    BY DEF HolderOf
  <2>4. NL!Grab(t, n)
    BY <1>2, <2>1, <2>2, <2>3 DEF NL!Grab
  <2> QED
    BY <2>4 DEF NL!Next
<1> QED
  BY <1>1, <1>2

\* The thread that leaves a name releases it.
LEMMA ExitReleases ==
    ASSUME removed' = removed, NEW n \in Names,
           HolderOf(n) # NoName, Holding(n)' = {},
           \A o \in Names \ {n} : Holding(o)' = Holding(o)
    PROVE  [NL!Next]_(NL!vars)
<1>1. HolderOf(n)' = NoName
  BY DEF HolderOf
<1>2. \A o \in Names \ {n} : HolderOf(o)' = HolderOf(o)
  BY DEF HolderOf
<1>3. [o \in Names |-> HolderOf(o)][n] # NoName
  OBVIOUS
<1>4. [o \in Names |-> HolderOf(o)]'
          = [[o \in Names |-> HolderOf(o)] EXCEPT ![n] = NoName]
  <2>1. [o \in Names |-> HolderOf(o)]'
            = [o \in Names |-> IF o = n THEN NoName ELSE HolderOf(o)]
    BY <1>1, <1>2
  <2> QED
    BY <2>1
<1>5. NL!Release(n)
  BY <1>3, <1>4 DEF NL!Release
<1> QED
  BY <1>5 DEF NL!Next

\* Every step of the map is a step of the abstract lock, or invisible.
LEMMA StepRefines ==
    ASSUME MMInv, MMInv', [MMNext]_mmVars
    PROVE  [NL!Next]_(NL!vars)
<1>1. CASE UNCHANGED mmVars
  BY <1>1, SameHolders DEF mmVars, Holding
<1>2. ASSUME NEW t \in Threads, NEW n \in Names, Lock(t, n)
      PROVE  [NL!Next]_(NL!vars)
  <2>1. \A o \in Names \ {n} : Holding(o)' = Holding(o)
    BY <1>2 DEF Lock, LockStored, LockLoaded, Holding, MMInv, MMTypeOK
  <2>2. CASE LockStored(t, n)
    <3>1. n \notin removed => Holding(n) = {}
      BY <2>2, MutexMapAssumption
         DEF LockStored, MMInv, MMTypeOK, LockTable, Holding
    <3>2. t \in Holding(n)'
      BY <1>2, <2>2 DEF Lock, LockStored, Holding, MMInv, MMTypeOK
    <3> QED
      BY <1>2, <2>1, <3>1, <3>2, EnterGrabs DEF Lock
  <2>3. CASE LockLoaded(t, n)
    <3>1. Holding(n)' = Holding(n)
      BY <1>2, <2>3 DEF Lock, LockLoaded, Holding, MMInv, MMTypeOK
    <3> QED
      BY <1>2, <2>1, <3>1, SameHolders DEF Lock
  <2> QED
    BY <1>2, <2>2, <2>3 DEF Lock
<1>3. ASSUME NEW t \in Threads, Acquire(t)
      PROVE  [NL!Next]_(NL!vars)
  <2>1. name[t] \in Names
    BY <1>3 DEF Acquire, MMInv, MMTypeOK
  <2>2. \A o \in Names \ {name[t]} : Holding(o)' = Holding(o)
    BY <1>3 DEF Acquire, Holding, MMInv, MMTypeOK
  <2>3. t \in Holding(name[t])'
    BY <1>3 DEF Acquire, Holding, MMInv, MMTypeOK
  <2>4. name[t] \notin removed => Holding(name[t]) = {}
    BY <1>3, <2>1
       DEF Acquire, MMInv, MMTypeOK, LockTable, Holding, Waiting
  <2> QED
    BY <1>3, <2>1, <2>2, <2>3, <2>4, EnterGrabs DEF Acquire
<1>4. ASSUME NEW t \in Threads, Unlock(t)
      PROVE  [NL!Next]_(NL!vars)
  <2>1. PICK n \in Names : n = name[t]
    BY <1>4 DEF Unlock, MMInv, MMTypeOK
  <2>2. t \in Holding(n)
    BY <1>4, <2>1 DEF Unlock, Holding, MMInv, MMTypeOK
  <2>3. \A o \in Names \ {n} : Holding(o)' = Holding(o)
    BY <1>4, <2>1 DEF Unlock, Holding, MMInv, MMTypeOK
  <2>4. CASE n \in removed
    BY <1>4, <2>3, <2>4, SameHolders DEF Unlock
  <2>5. CASE n \notin removed
    <3>1. HolderOf(n) = t /\ t # NoName
      BY <2>2, <2>5, HolderIsOwner, MutexMapAssumption DEF MMInv
    <3>2. Holding(n)' = {}
      BY <1>4, <2>1, <2>2, <2>5
         DEF Unlock, Holding, MMInv, MMTypeOK, ExclusiveUnlessRemoved
    <3> QED
      BY <1>4, <2>3, <3>1, <3>2, ExitReleases DEF Unlock
  <2> QED
    BY <2>4, <2>5
<1>5. ASSUME NEW n \in Names, Remove(n)
      PROVE  [NL!Next]_(NL!vars)
  <2>1. HolderOf(n)' = NoName
    BY <1>5 DEF Remove, HolderOf
  <2>2. \A o \in Names \ {n} : HolderOf(o)' = HolderOf(o)
    BY <1>5 DEF Remove, HolderOf, Holding
  <2>3. NL!MakeVoid(n)
    BY <1>5, <2>1, <2>2 DEF Remove, NL!MakeVoid
  <2> QED
    BY <2>3 DEF NL!Next
<1> QED
  BY <1>1, <1>2, <1>3, <1>4, <1>5 DEF MMNext

\* MutexMap implements one lock per name, each void from its removal on.
THEOREM Refinement == MMSpec => ImplementsNamedLock
<1>1. MMInit => NL!Init
  BY DEF MMInit, NL!Init, HolderOf, Holding
<1>2. MMInv /\ MMInv' /\ [MMNext]_mmVars => [NL!Next]_(NL!vars)
  BY StepRefines
<1> QED
  BY <1>1, <1>2, MMInvariant, PTL DEF MMSpec, NL!Spec, ImplementsNamedLock
=============================================================================
