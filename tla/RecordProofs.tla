---------------------------- MODULE RecordProofs ----------------------------
(***************************************************************************)
(* activeState is right: further proofs about the control loop of          *)
(* cmd/transflect-operator/operator.go.                                    *)
(*                                                                         *)
(* Two assumptions name what the code does not cope with (the findings     *)
(* about operator.go:281 and :454 show what happens otherwise): the first  *)
(* page of the list call in syncActive holds all EnvoyFilters, and a write *)
(* of an EnvoyFilter that was done is also answered.                       *)
(***************************************************************************)
EXTENDS OperatorProofs, FiniteSetTheorems

OnePage == IsFiniteSet(Names) /\ Cardinality(Names) <= PageLimit

NoAnswerLost == "answer" \notin Faults

-----------------------------------------------------------------------------
(* The inductive invariant *)

Recorded(d) ==
    /\ active[d] # None
    /\ active[d].revision = filter[d].revision
    /\ active[d].port = filter[d].port

\* Between its write of the filter and that of the record, or of the removal of
\* the lock.
Recording(w) == pc[w] \in {"store", "forget", "remove"}

\* How a filter, its record and the snapshots of those who work on it relate.
RecordOf(d) ==
    /\ (\A w \in Threads : Recording(w) => Deployment(w) # d) => Recorded(d)
    /\ \A w \in Threads :
          /\ pc[w] = "store" /\ Deployment(w) = d =>
                /\ filter[d].revision = snap[w].revision
                /\ filter[d].port = GrpcPort(snap[w].port)
          /\ pc[w] = "upsert" /\ Deployment(w) = d =>
                filter[d].revision <= snap[w].revision

RecordInv ==
    /\ phase # "leading" => \A w \in Threads : ~Busy(w)
    /\ phase # "stopped" =>
          \A d \in Names \ removed : filter[d] # None => RecordOf(d)

-----------------------------------------------------------------------------
(* Lemmas *)

\* A page of all there is.
LEMMA WholePage ==
    ASSUME OnePage, NEW Listed \in SUBSET Names, NEW page \in SUBSET Listed,
           Cardinality(page) = Min({PageLimit, Cardinality(Listed)})
    PROVE  page = Listed
<1>1. /\ IsFiniteSet(Listed)
      /\ Cardinality(Listed) <= Cardinality(Names)
      /\ Cardinality(Listed) \in Nat /\ Cardinality(Names) \in Nat
  BY FS_Subset, FS_CardinalityType DEF OnePage
<1>2. Cardinality(Listed) <= PageLimit
  BY <1>1, OperatorAssumption DEF OnePage
<1>3. Min({PageLimit, Cardinality(Listed)}) = Cardinality(Listed)
  BY <1>1, <1>2, OperatorAssumption DEF Min
<1> QED
  BY <1>1, <1>3, FS_Subset

\* While a worker updates a Deployment whose lock was not removed, no other is
\* past Lock for it.
LEMMA Alone ==
    ASSUME Inv, NEW v \in Threads, NEW w \in Threads, stage[v] = "in",
           stage[w] = "in", Busy(v), Busy(w), Deployment(v) = Deployment(w),
           Deployment(v) \notin removed
    PROVE  v = w
<1>1. name[v] = Deployment(v) /\ name[w] = Deployment(v)
  BY DEF Inv, WorkerInv
<1>2. Deployment(v) \in Names
  BY <1>1 DEF Inv, MMInv, MMTypeOK
<1> QED
  BY <1>1, <1>2 DEF Inv, MMInv, ExclusiveUnlessRemoved, Holding

-----------------------------------------------------------------------------
(* Steps that keep the invariant *)

\* Steps in which no worker goes on: filters may be collected, and locks
\* removed together with the record.
LEMMA QuietSteps ==
    ASSUME RecordInv, UNCHANGED <<pc, key, snap>>,
           phase' = phase \/ (phase = "synced" /\ phase' = "leading"),
           removed \subseteq removed',
           \A d \in Names \ removed' :
              active'[d] = active[d] /\ filter'[d] \in {filter[d], None}
    PROVE  RecordInv'
<1>1. phase' # "leading" => \A w \in Threads : ~Busy(w)'
  BY DEF RecordInv, Busy
<1>2. ASSUME NEW d \in Names \ removed', phase' # "stopped", filter'[d] # None
      PROVE  RecordOf(d)'
  <2>1. /\ d \in Names \ removed
        /\ active'[d] = active[d] /\ filter'[d] = filter[d]
        /\ phase # "stopped"
    BY <1>2
  <2>2. RecordOf(d)
    BY <1>2, <2>1 DEF RecordInv
  <2> QED
    BY <2>1, <2>2 DEF RecordOf, Recorded, Recording, Deployment
<1> QED
  BY <1>1, <1>2 DEF RecordInv

\* The steps of the cluster, the informers and the locks.
LEMMA OthersKeepRecordInv ==
    ASSUME Inv, RecordInv,
           \/ \E d \in Names :
                 \/ CreateDeployment(d) \/ DeleteDeployment(d)
                 \/ CollectFilter(d) \/ CleanupDeployment(d) \/ MissDelete(d)
           \/ \E r \in ReplicaSets :
                 \/ Rollout(r) \/ Annotate(r) \/ SwitchReady(r)
                 \/ CollectReplicaSet(r) \/ SyncReplicaSet(r) \/ Resync(r)
           \/ \E w \in Threads : LockDeployment(w)
           \/ StartInformers
           \/ UNCHANGED vars
    PROVE  RecordInv'
<1> USE DEF operatorVars, workerVars, clusterVars, mmVars
<1>1. CASE \E d \in Names : CollectFilter(d)
  <2>1. /\ UNCHANGED <<pc, key, snap, phase, removed, active>>
        /\ \A d \in Names : filter'[d] \in {filter[d], None}
    BY <1>1 DEF CollectFilter, Inv, TypeOK
  <2> QED
    BY <2>1, QuietSteps
<1>2. CASE \E d \in Names : CleanupDeployment(d)
  <2>1. /\ UNCHANGED <<pc, key, snap, phase, filter>>
        /\ removed \subseteq removed'
        /\ \A d \in Names \ removed' : active'[d] = active[d]
    BY <1>2 DEF CleanupDeployment, Remove, Inv, TypeOK
  <2> QED
    BY <2>1, QuietSteps
<1>3. CASE \E w \in Threads : LockDeployment(w)
  <2>1. UNCHANGED <<pc, key, snap, phase, filter, active, removed>>
    BY <1>3 DEF LockDeployment, Lock, Acquire
  <2> QED
    BY <2>1, QuietSteps
<1>4. CASE StartInformers
  BY <1>4, QuietSteps DEF StartInformers
<1>5. CASE \/ \E d \in Names : \/ CreateDeployment(d) \/ DeleteDeployment(d)
                               \/ MissDelete(d)
           \/ \E r \in ReplicaSets :
                 \/ Rollout(r) \/ Annotate(r) \/ SwitchReady(r)
                 \/ CollectReplicaSet(r) \/ SyncReplicaSet(r) \/ Resync(r)
           \/ UNCHANGED vars
  <2>1. UNCHANGED <<pc, key, snap, phase, filter, active, removed>>
    BY <1>5 DEF CreateDeployment, DeleteDeployment, MissDelete, Rollout,
       Annotate, SwitchReady, CollectReplicaSet, SyncReplicaSet, Resync, vars
  <2> QED
    BY <2>1, QuietSteps
<1> QED
  BY <1>1, <1>2, <1>3, <1>4, <1>5

\* syncActive records all filters there are, because they fit on its page.
LEMMA SyncKeepsRecordInv ==
    ASSUME OnePage, Inv, RecordInv, SyncActive
    PROVE  RecordInv'
<1>1. /\ phase = "stopped" /\ phase' = "synced"
      /\ UNCHANGED <<filter, pc, key, snap, removed>>
  BY DEF SyncActive, clusterVars, workerVars, mmVars
<1>2. \A w \in Threads : pc[w] = "idle"
  BY <1>1 DEF RecordInv, Busy
<1>3. ASSUME NEW d \in Names, filter[d] # None
      PROVE  active'[d] = GetActiveEntry(filter[d])
  <2> DEFINE Listed == {e \in Names : filter[e] # None}
  <2>1. PICK page \in SUBSET Listed :
          /\ Cardinality(page) = Min({PageLimit, Cardinality(Listed)})
          /\ active' = [e \in Names |-> IF e \in page
                                        THEN GetActiveEntry(filter[e])
                                        ELSE None]
    BY DEF SyncActive
  <2>2. d \in Listed /\ Listed \in SUBSET Names
    BY <1>3
  <2> HIDE DEF Listed
  <2>3. d \in page
    BY <2>1, <2>2, WholePage
  <2> QED
    BY <2>1, <2>3
<1>4. \A d \in Names : filter[d] # None => GetActiveEntry(filter[d]) # None
  <2>1. ASSUME NEW f \in EnvoyFilter PROVE GetActiveEntry(f) \in ActiveEntry
    BY OperatorAssumption DEF GetActiveEntry, EnvoyFilter, ActiveEntry
  <2> QED
    BY <2>1, NoneAssumption DEF Inv, TypeOK
<1>5. \A w \in Threads : pc'[w] = "idle"
  BY <1>1, <1>2
<1>6. ASSUME NEW d \in Names, filter'[d] # None
      PROVE  RecordOf(d)'
  <2>0. filter'[d] = filter[d] /\ active'[d] = GetActiveEntry(filter[d])
          /\ active'[d] # None
    BY <1>1, <1>3, <1>4, <1>6
  <2>1. Recorded(d)'
    BY <2>0 DEF Recorded, GetActiveEntry
  <2> QED
    <3>1. \A w \in Threads : pc'[w] # "store" /\ pc'[w] # "upsert"
      BY <1>5
    <3> QED
      BY <2>1, <3>1 DEF RecordOf
<1> QED
  BY <1>1, <1>5, <1>6 DEF RecordInv, Busy

\* A new process has not read any filters.
LEMMA RestartKeepsRecordInv ==
    ASSUME Restart
    PROVE  RecordInv'
  BY DEF Restart, RecordInv, Busy

\* Taking a key makes nobody record.
LEMMA GetKeepsRecordInv ==
    ASSUME Inv, RecordInv, NEW w \in Threads, NEW r \in ReplicaSets, Get(w, r)
    PROVE  RecordInv'
<1>1. CASE rsCache[r] = None
  <2>1. UNCHANGED <<pc, key, snap, phase, filter, active, removed>>
    BY <1>1 DEF Get, workerVars, clusterVars, mmVars
  <2> QED
    BY <2>1, QuietSteps
<1>2. CASE rsCache[r] # None
  <2>1. /\ phase = "leading"
        /\ pc[w] = "idle"
        /\ pc' = [pc EXCEPT ![w] = "start"]
        /\ key' = [key EXCEPT ![w] = r]
        /\ snap' = [snap EXCEPT ![w] = rsCache[r]]
        /\ UNCHANGED <<phase, filter, active, removed>>
    BY <1>2 DEF Get, Leading, clusterVars, mmVars
  <2>2. /\ pc'[w] = "start"
        /\ \A v \in Threads : v # w =>
              pc'[v] = pc[v] /\ key'[v] = key[v] /\ snap'[v] = snap[v]
    BY <2>1 DEF Inv, TypeOK
  <2>3. ASSUME NEW d \in Names \ removed, filter[d] # None
        PROVE  RecordOf(d)'
    <3>1. RecordOf(d)
      BY <2>1, <2>3 DEF RecordInv
    <3>2. \A v \in Threads : Recording(v)' <=> Recording(v)
      BY <2>1, <2>2 DEF Recording
    <3> QED
      BY <2>1, <2>2, <3>1, <3>2 DEF RecordOf, Recorded, Recording, Deployment
  <2> QED
    BY <2>1, <2>3 DEF RecordInv
<1> QED
  BY <1>1, <1>2

\* What the steps of a worker have in common: only its own place, and the filter
\* and the record of its own Deployment change.
LEMMA WorkFrame ==
    ASSUME Inv, NEW w \in Threads, Work(w)
    PROVE  /\ phase = "leading" /\ phase' = "leading"
           /\ Busy(w) /\ stage[w] = "in"
           /\ Deployment(w) \in Names /\ snap[w] \in ReplicaSet
           /\ removed \subseteq removed'
           /\ \A v \in Threads : v # w =>
                 pc'[v] = pc[v] /\ key'[v] = key[v] /\ snap'[v] = snap[v]
           /\ \A d \in Names : d # Deployment(w) =>
                 filter'[d] = filter[d] /\ active'[d] = active[d]
<1> USE OperatorAssumption
    DEF clusterVars, workerVars, mmVars, Inv, TypeOK, Leading, Busy, WorkerGoes
<1>1. Busy(w) /\ stage[w] = "in"
  BY DEF Work, Evaluate, Upsert, UpsertFails, UpsertAnswerLost, Store, Delete,
         DeleteFails, Forget, RemoveLock, Finish, WorkerInv
<1>2. Deployment(w) \in Names /\ snap[w] \in ReplicaSet
  BY <1>1 DEF WorkerInv, Deployment
<1>3. phase = "leading" /\ phase' = "leading"
  BY DEF Work, Evaluate, Upsert, UpsertFails, UpsertAnswerLost, Store, Delete,
         DeleteFails, Forget, RemoveLock, Finish
<1>4. removed \subseteq removed'
  BY DEF Work, Evaluate, Upsert, UpsertFails, UpsertAnswerLost, Store, Delete,
         DeleteFails, Forget, RemoveLock, Remove, Finish, Unlock
<1>5. \A v \in Threads : v # w =>
         pc'[v] = pc[v] /\ key'[v] = key[v] /\ snap'[v] = snap[v]
  BY DEF Work, Evaluate, Upsert, UpsertFails, UpsertAnswerLost, Store, Delete,
         DeleteFails, Forget, RemoveLock, Finish
<1>6. \A d \in Names : d # Deployment(w) =>
         filter'[d] = filter[d] /\ active'[d] = active[d]
  BY DEF Work, Evaluate, Upsert, UpsertFails, UpsertAnswerLost, Store, Delete,
         DeleteFails, Forget, RemoveLock, Finish, PutFilter
<1> QED
  BY <1>1, <1>2, <1>3, <1>4, <1>5, <1>6

\* For the other Deployments a worker's step changes nothing.
LEMMA OtherRecords ==
    ASSUME Inv, RecordInv, NEW w \in Threads, Work(w),
           NEW d \in Names \ removed', d # Deployment(w), filter'[d] # None,
           key'[w] = key[w] \/ pc'[w] = "idle"
    PROVE  RecordOf(d)'
<1>1. /\ d \in Names \ removed /\ filter[d] # None
      /\ filter'[d] = filter[d] /\ active'[d] = active[d]
      /\ \A v \in Threads : v # w =>
            pc'[v] = pc[v] /\ key'[v] = key[v] /\ snap'[v] = snap[v]
  BY WorkFrame
<1>2. RecordOf(d)
  BY <1>1, WorkFrame DEF RecordInv
<1>3. Recorded(d) => Recorded(d)'
  BY <1>1 DEF Recorded
<1>4. /\ Recording(w) => Deployment(w) # d
      /\ Recording(w)' => Deployment(w)' # d
      /\ pc'[w] \in {"store", "upsert"} => Deployment(w)' # d
  BY DEF Recording, Deployment
<1>5. ASSUME \A v \in Threads : Recording(v)' => Deployment(v)' # d
      PROVE  Recorded(d)'
  <2>1. \A v \in Threads : Recording(v) => Deployment(v) # d
    BY <1>1, <1>4, <1>5 DEF Recording, Deployment
  <2> QED
    BY <1>2, <1>3, <2>1 DEF RecordOf
<1>6. ASSUME NEW v \in Threads, v # w, pc'[v] \in {"store", "upsert"},
             Deployment(v)' = d
      PROVE  /\ pc'[v] = "store" =>
                   /\ filter'[d].revision = snap'[v].revision
                   /\ filter'[d].port = GrpcPort(snap'[v].port)
             /\ pc'[v] = "upsert" => filter'[d].revision <= snap'[v].revision
  BY <1>1, <1>2, <1>6 DEF RecordOf, Deployment
<1> QED
  BY <1>4, <1>5, <1>6 DEF RecordOf

\* The step of a worker, for its own Deployment: nobody else works on that.
LEMMA OwnRecord ==
    ASSUME NoAnswerLost, Inv, RecordInv, NEW w \in Threads, Work(w), ~Finish(w),
           NEW d \in Names \ removed', d = Deployment(w), filter'[d] # None
    PROVE  RecordOf(d)'
<1>1. /\ Busy(w) /\ stage[w] = "in" /\ phase = "leading"
      /\ d \in Names \ removed /\ snap[w] \in ReplicaSet
  BY WorkFrame
<1>2. key' = key /\ snap' = snap
  BY DEF Work, Evaluate, Upsert, UpsertFails, UpsertAnswerLost, Store, Delete,
         DeleteFails, Forget, RemoveLock, WorkerGoes
<1>3. ASSUME NEW v \in Threads, v # w, Deployment(v) = d
      PROVE  pc'[v] = pc[v] /\ pc[v] \in {"idle", "start"}
  <2>1. pc'[v] = pc[v]
    BY <1>3, WorkFrame
  <2>2. pc[v] \notin {"idle", "start"} => Busy(v) /\ stage[v] = "in"
    BY DEF Inv, WorkerInv, Busy
  <2> QED
    BY <1>1, <1>3, <2>1, <2>2, Alone
<1>4. filter[d] # None =>
         /\ ~Recording(w) => Recorded(d)
         /\ pc[w] = "store" => /\ filter[d].revision = snap[w].revision
                               /\ filter[d].port = GrpcPort(snap[w].port)
  <2>1. \A v \in Threads : v # w /\ Recording(v) => Deployment(v) # d
    BY <1>3 DEF Recording
  <2> QED
    BY <1>1, <2>1 DEF RecordInv, RecordOf
<1>5. filter'[d] # None /\ d \notin removed' /\ d = Deployment(w)
  OBVIOUS
<1> SUFFICES /\ Recording(w)' \/ Recorded(d)'
             /\ pc'[w] = "store" => /\ filter'[d].revision = snap[w].revision
                                    /\ filter'[d].port = GrpcPort(snap[w].port)
             /\ pc'[w] = "upsert" => filter'[d].revision <= snap[w].revision
  BY <1>2, <1>3 DEF RecordOf, Recording, Deployment
<1> USE DEF WorkerGoes
<1>6. CASE Evaluate(w)
  <2>1. /\ UNCHANGED <<filter, active>>
        /\ pc[w] = "start"
        /\ pc'[w] \in {"finish", "delete", "upsert"}
        /\ pc'[w] = "upsert" => ShouldProcess(snap[w], active[d])
    BY <1>6 DEF Evaluate, Inv, TypeOK, clusterVars
  <2>2. Recorded(d)
    BY <1>4, <2>1, <1>5 DEF Recording
  <2>3. pc'[w] = "upsert" => filter[d].revision <= snap[w].revision
    <3>1. filter[d].revision \in Nat /\ snap[w].revision \in Nat
      BY <1>1, <2>1, <1>5, OperatorAssumption
         DEF Inv, TypeOK, EnvoyFilter, ReplicaSet, Revision
    <3> QED
      BY <2>1, <2>2, <3>1 DEF Recorded, ShouldProcess
  <2> QED
    BY <2>1, <2>2, <2>3 DEF Recorded
<1>7. CASE Upsert(w)
  <2>1. pc'[w] = "store" /\ filter'[d] = NewEnvoyFilter(snap[w])
    BY <1>1, <1>7 DEF Upsert, PutFilter, Inv, TypeOK
  <2> QED
    BY <2>1 DEF Recording, NewEnvoyFilter
<1>8. CASE UpsertFails(w)
  <2>1. /\ UNCHANGED <<filter, active>>
        /\ pc[w] = "upsert" /\ pc'[w] = "finish"
    BY <1>8 DEF UpsertFails, Inv, TypeOK, clusterVars
  <2> QED
    BY <1>4, <2>1, <1>5 DEF Recording, Recorded
<1>9. CASE Store(w)
  <2>1. /\ filter' = filter
        /\ pc[w] = "store" /\ pc'[w] = "finish"
        /\ active'[d] = NewActiveEntry(snap[w])
    BY <1>1, <1>9 DEF Store, Inv, TypeOK, clusterVars
  <2>2. NewActiveEntry(snap[w]) # None
    BY <1>1, EntriesTyped, NoneAssumption
  <2> QED
    BY <1>4, <2>1, <2>2, <1>5 DEF Recorded, NewActiveEntry
<1>10. CASE Delete(w) \/ DeleteFails(w)
  <2>1. pc'[w] = "forget"
    BY <1>10 DEF Delete, DeleteFails, Inv, TypeOK
  <2> QED
    BY <2>1 DEF Recording
<1>11. CASE Forget(w)
  <2>1. pc'[w] = "remove"
    BY <1>11 DEF Forget, Inv, TypeOK
  <2> QED
    BY <2>1 DEF Recording
<1>12. CASE RemoveLock(w)
  BY <1>1, <1>5, <1>12 DEF RemoveLock, Remove
<1>13. CASE UpsertAnswerLost(w)
  BY <1>13 DEF UpsertAnswerLost, Fault, NoAnswerLost
<1> QED
  BY <1>6, <1>7, <1>8, <1>9, <1>10, <1>11, <1>12, <1>13 DEF Work

\* A worker's step keeps the invariant.
LEMMA WorkKeepsRecordInv ==
    ASSUME NoAnswerLost, Inv, RecordInv, NEW w \in Threads, Work(w)
    PROVE  RecordInv'
<1>1. phase' = "leading"
  BY WorkFrame
<1>2. CASE Finish(w)
  <2>1. /\ UNCHANGED <<filter, active, removed>>
        /\ pc[w] = "finish" /\ pc'[w] = "idle"
    BY <1>2 DEF Finish, Unlock, Inv, TypeOK, clusterVars
  <2>2. ASSUME NEW d \in Names \ removed', filter'[d] # None
        PROVE  RecordOf(d)'
    <3>1. CASE d # Deployment(w)
      BY <2>1, <2>2, <3>1, OtherRecords
    <3>2. CASE d = Deployment(w)
      <4>1. RecordOf(d)
        BY <2>1, <2>2, WorkFrame DEF RecordInv
      <4>2. \A v \in Threads : v # w =>
               pc'[v] = pc[v] /\ key'[v] = key[v] /\ snap'[v] = snap[v]
        BY WorkFrame
      <4>3. \A v \in Threads : Recording(v)' <=> Recording(v)
        BY <2>1, <4>2 DEF Recording
      <4> QED
        BY <2>1, <4>1, <4>2, <4>3
           DEF RecordOf, Recorded, Recording, Deployment
    <3> QED
      BY <3>1, <3>2
  <2> QED
    BY <1>1, <2>2 DEF RecordInv
<1>3. CASE ~Finish(w)
  <2>1. key' = key
    BY <1>3 DEF Work, Evaluate, Upsert, UpsertFails, UpsertAnswerLost, Store,
       Delete, DeleteFails, Forget, RemoveLock, WorkerGoes
  <2>2. ASSUME NEW d \in Names \ removed', filter'[d] # None
        PROVE  RecordOf(d)'
    <3>1. CASE d # Deployment(w)
      BY <2>1, <2>2, <3>1, OtherRecords
    <3>2. CASE d = Deployment(w)
      BY <1>3, <2>2, <3>2, OwnRecord
    <3> QED
      BY <3>1, <3>2
  <2> QED
    BY <1>1, <2>2 DEF RecordInv
<1> QED
  BY <1>2, <1>3

\* Every step keeps the invariant.
LEMMA RecordInvKept ==
    ASSUME OnePage, NoAnswerLost, Inv, RecordInv, [Next]_vars
    PROVE  RecordInv'
<1>1. CASE UNCHANGED vars
  BY <1>1, OthersKeepRecordInv
<1>2. CASE Next
  BY <1>2, OthersKeepRecordInv, SyncKeepsRecordInv, RestartKeepsRecordInv,
     GetKeepsRecordInv, WorkKeepsRecordInv DEF Next
<1> QED
  BY <1>1, <1>2

-----------------------------------------------------------------------------
(* The theorems *)

\* While nobody works on a Deployment, its EnvoyFilter has the revision and the
\* port on record (operator.go:52-53, 281 and 294-306), across rollouts,
\* failures and restarts, unless its lock was removed.
THEOREM RecordsMatchFilters ==
    ASSUME OnePage, NoAnswerLost
    PROVE  SafetySpec => []RecordMatchesFilter
<1>1. Init => RecordInv
  BY DEF Init, RecordInv, Busy
<1>2. Inv /\ RecordInv /\ [Next]_vars => RecordInv'
  BY RecordInvKept
<1>3. RecordInv => RecordMatchesFilter
  <2> SUFFICES ASSUME RecordInv, NEW d \in Names \ removed, phase = "leading",
                      filter[d] # None,
                      \A w \in Threads : Updating(w) => Deployment(w) # d
               PROVE  Recorded(d)
    BY DEF RecordMatchesFilter, Recorded
  <2>1. RecordOf(d)
    BY DEF RecordInv
  <2>2. \A w \in Threads : Recording(w) => Deployment(w) # d
    BY DEF Recording, Updating
  <2> QED
    BY <2>1, <2>2 DEF RecordOf
<1> QED
  BY <1>1, <1>2, <1>3, Invariant, PTL DEF SafetySpec

\* No EnvoyFilter is replaced by that of an older revision, however many
\* workers have ReplicaSets of its Deployment, new, old and stale, unless its
\* lock was removed (operator.go:274-292).
THEOREM NeverRollsBack ==
    ASSUME OnePage, NoAnswerLost
    PROVE  SafetySpec => NoRollback
<1>1. Init => RecordInv
  BY DEF Init, RecordInv, Busy
<1>2. Inv /\ RecordInv /\ [Next]_vars => RecordInv'
  BY RecordInvKept
<1>3. ASSUME Inv, RecordInv, Next, NEW d \in Names \ removed,
             filter[d] # None, filter'[d] # None
      PROVE  filter'[d].revision >= filter[d].revision
  <2>1. filter[d].revision \in Nat
    BY <1>3, OperatorAssumption DEF Inv, TypeOK, EnvoyFilter, Revision
  <2>2. CASE filter'[d] = filter[d]
    BY <2>1, <2>2
  <2>3. CASE filter'[d] # filter[d]
    <3>1. PICK w \in Threads : Upsert(w) \/ UpsertAnswerLost(w)
      BY <1>3, <2>3 DEF Next, CreateDeployment, DeleteDeployment,
         CollectFilter, CleanupDeployment, MissDelete, Rollout, Annotate,
         SwitchReady, CollectReplicaSet, SyncReplicaSet, Resync, Get,
         LockDeployment, Work, Evaluate, UpsertFails, Store, Delete,
         DeleteFails, Forget, RemoveLock, Finish, SyncActive, StartInformers,
         Restart, clusterVars, Inv, TypeOK
    <3>2. /\ phase = "leading" /\ pc[w] = "upsert"
          /\ filter' = [filter EXCEPT ![Deployment(w)] = NewEnvoyFilter(snap[w])]
      BY <3>1 DEF Upsert, UpsertAnswerLost, WorkerGoes, PutFilter, Leading
    <3>3. d = Deployment(w) /\ filter'[d] = NewEnvoyFilter(snap[w])
      BY <2>3, <3>2 DEF Inv, TypeOK
    <3>4. filter[d].revision <= snap[w].revision
      BY <1>3, <3>2, <3>3 DEF RecordInv, RecordOf
    <3>5. snap[w].revision \in Nat
      BY <1>3, <3>2, OperatorAssumption
         DEF Inv, WorkerInv, Busy, ReplicaSet, Revision
    <3> QED
      BY <2>1, <3>3, <3>4, <3>5 DEF NewEnvoyFilter
  <2> QED
    BY <2>2, <2>3
<1>4. Inv /\ RecordInv /\ [Next]_vars =>
         [\A d \in Names \ removed :
             filter[d] # None /\ filter'[d] # None /\ filter[d].uid = filter'[d].uid
                 => filter'[d].revision >= filter[d].revision]_vars
  BY <1>3
<1> QED
  BY <1>1, <1>2, <1>4, Invariant, PTL DEF SafetySpec, NoRollback

=============================================================================
