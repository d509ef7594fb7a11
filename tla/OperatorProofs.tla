--------------------------- MODULE OperatorProofs ---------------------------
(***************************************************************************)
(* Proofs about the control loop of cmd/transflect-operator/operator.go,   *)
(* for any cluster, any number of workers, and any faults and bounds.      *)
(*                                                                         *)
(* The invariant of MutexMap carries over, because the workers use the map *)
(* as its threads do (MapStep).  WorkerInv says where a worker's place in  *)
(* next() puts it with respect to the queue and the lock; it turns mutual  *)
(* exclusion of the map into mutual exclusion of updates.                  *)
(***************************************************************************)
EXTENDS Operator, MutexMapProofs

\* A busy worker has a key and a snapshot; beyond the start it is past Lock
\* for the Deployment of its key, and an idle one wants no lock.
WorkerInv ==
    \A w \in Threads :
        /\ Busy(w) => key[w] \in ReplicaSets /\ snap[w] \in ReplicaSet
        /\ ~Busy(w) => stage[w] = "out"
        /\ pc[w] \notin {"idle", "start"} => stage[w] = "in"
        /\ stage[w] # "out" => name[w] = Deployment(w)

Inv ==
    /\ TypeOK
    /\ MMInv
    /\ WorkerInv
    /\ OneWorkerPerReplicaSet
    /\ StaleSnapshotRequeued

-----------------------------------------------------------------------------
(* What the workers do to the map *)

\* An EnvoyFilter or entry made from a ReplicaSet is well formed: a port
\* annotation that is no port becomes 0 (operator.go:324-334).
LEMMA EntriesTyped ==
    ASSUME NEW rs \in ReplicaSet
    PROVE  /\ NewActiveEntry(rs) \in ActiveEntry
           /\ NewEnvoyFilter(rs) \in EnvoyFilter
<1>1. GrpcPort(rs.port) \in GrpcPorts
  <2>1. 0 \in GrpcPorts
    BY DEF GrpcPorts, MaxPort
  <2> QED
    BY <2>1 DEF GrpcPort
<1> QED
  BY <1>1 DEF ReplicaSet, NewActiveEntry, ActiveEntry, NewEnvoyFilter,
              EnvoyFilter

\* The steps of the operator that do not touch the map, the workers, the queue
\* or the cache.
Elsewhere ==
    \/ \E d \in Names :
          \/ CreateDeployment(d) \/ DeleteDeployment(d) \/ CollectFilter(d)
          \/ MissDelete(d)
    \/ \E r \in ReplicaSets :
          Rollout(r) \/ Annotate(r) \/ SwitchReady(r) \/ CollectReplicaSet(r)
    \/ SyncActive \/ StartInformers
    \/ UNCHANGED vars

\* What happens in the cluster, and the start of the informers, leaves the
\* workers, the queue, the store they read and the mutexes alone.
LEMMA ElsewhereFrame ==
    Elsewhere => UNCHANGED <<workerVars, queueVars, rsCache, mmVars>>
  BY DEF Elsewhere, CreateDeployment, DeleteDeployment, CollectFilter,
         MissDelete, Rollout, Annotate, SwitchReady, CollectReplicaSet,
         SyncActive, StartInformers, vars, operatorVars, informerVars

\* Every step of the operator is a step of the map, leaves the map alone, or
\* starts a process with a new one.
LEMMA MapStep ==
    ASSUME Inv, [Next]_vars
    PROVE  [MMNext]_mmVars \/ MMReset
<1> USE OperatorAssumption
<1>1. CASE Elsewhere
  BY <1>1, ElsewhereFrame
<1>2. ASSUME NEW d \in Names, CleanupDeployment(d)
      PROVE  [MMNext]_mmVars
  BY <1>2 DEF CleanupDeployment, MMNext
<1>3. ASSUME NEW r \in ReplicaSets, SyncReplicaSet(r) \/ Resync(r)
      PROVE  [MMNext]_mmVars
  BY <1>3 DEF SyncReplicaSet, Resync
<1>4. ASSUME NEW r \in ReplicaSets, NEW w \in Threads, Get(w, r)
      PROVE  [MMNext]_mmVars
  BY <1>4 DEF Get
<1>5. ASSUME NEW w \in Threads, LockDeployment(w)
      PROVE  [MMNext]_mmVars
  <2>1. Deployment(w) \in Names
    BY <1>5 DEF LockDeployment, Inv, WorkerInv, Busy, Deployment
  <2> QED
    BY <1>5, <2>1 DEF LockDeployment, MMNext
<1>6. ASSUME NEW w \in Threads, Work(w)
      PROVE  [MMNext]_mmVars
  <2>1. CASE RemoveLock(w)
    <3>1. Deployment(w) \in Names
      BY <2>1 DEF RemoveLock, WorkerGoes, Inv, WorkerInv, Busy, Deployment
    <3> QED
      BY <2>1, <3>1 DEF RemoveLock, MMNext
  <2>2. CASE Finish(w)
    BY <2>2 DEF Finish, MMNext
  <2>3. CASE ~RemoveLock(w) /\ ~Finish(w)
    BY <1>6, <2>3 DEF Work, Evaluate, Upsert, UpsertFails, UpsertAnswerLost,
                      Store, Delete, DeleteFails, Forget
  <2> QED
    BY <2>1, <2>2, <2>3
<1>7. CASE Restart
  BY <1>7 DEF Restart
<1> QED
  BY <1>1, <1>2, <1>3, <1>4, <1>5, <1>6, <1>7 DEF Next, Elsewhere

\* A new map satisfies the invariant of the map.
LEMMA ResetKeepsMMInv == ASSUME MMReset PROVE MMInv'
  BY DEF MMReset, MMInv, MMTypeOK, LockTable, ExclusiveUnlessRemoved,
         Holding, Waiting

\* The invariant of the map holds in the operator.
LEMMA MMInvKept ==
    ASSUME Inv, [Next]_vars
    PROVE  MMInv'
  BY MapStep, MMNextInv, ResetKeepsMMInv DEF Inv

-----------------------------------------------------------------------------
(* Type correctness *)

\* The steps of users, controllers and collectors keep the types.
LEMMA ClusterKeepsTypes ==
    ASSUME Inv, MMTypeOK',
           \/ \E d \in Names : \/ CreateDeployment(d) \/ DeleteDeployment(d)
                               \/ CollectFilter(d)
           \/ \E r \in ReplicaSets : \/ Rollout(r) \/ Annotate(r)
                                     \/ SwitchReady(r) \/ CollectReplicaSet(r)
    PROVE  TypeOK'
<1> USE OperatorAssumption DEF Inv, TypeOK, Change
<1>1. ASSUME NEW d \in Names, CreateDeployment(d)
      PROVE  TypeOK'
  <2>1. uid'[d] \in Uid
    BY <1>1 DEF CreateDeployment, Uid
  <2> QED
    BY <1>1, <2>1 DEF CreateDeployment, operatorVars, informerVars, queueVars,
                      workerVars
<1>2. ASSUME NEW d \in Names, DeleteDeployment(d)
      PROVE  TypeOK'
  BY <1>2 DEF DeleteDeployment, queueVars, workerVars
<1>3. ASSUME NEW d \in Names, CollectFilter(d)
      PROVE  TypeOK'
  BY <1>3 DEF CollectFilter, operatorVars, informerVars, queueVars, workerVars,
              bounds
<1>4. ASSUME NEW r \in ReplicaSets, Rollout(r)
      PROVE  TypeOK'
  <2>1. replicaset' \in [ReplicaSets -> ReplicaSet \cup {None}]
    <3>1. uid[Owner[r]] \in Uid
      OBVIOUS
    <3>2. PICK p \in Ports, o \in Options :
            replicaset' = [replicaset EXCEPT ![r] =
              [uid |-> uid[Owner[r]], revision |-> NextRevision(Owner[r]),
               port |-> p, options |-> o,
               ready |-> replicaset[r] # None /\ replicaset[r].ready]]
      BY <1>4 DEF Rollout
    <3>3. NextRevision(Owner[r]) \in Revision
      BY <1>4 DEF Rollout
    <3>4. (replicaset[r] # None /\ replicaset[r].ready) \in BOOLEAN
      BY DEF ReplicaSet
    <3> QED
      BY <3>1, <3>2, <3>3, <3>4 DEF ReplicaSet
  <2> QED
    BY <1>4, <2>1 DEF Rollout, operatorVars, informerVars, queueVars, workerVars
<1>5. ASSUME NEW r \in ReplicaSets, Annotate(r)
      PROVE  TypeOK'
  <2>1. replicaset[r] \in ReplicaSet
    BY <1>5 DEF Annotate, IsCurrent, OwnedSets
  <2>2. replicaset' \in [ReplicaSets -> ReplicaSet \cup {None}]
    BY <1>5, <2>1 DEF Annotate, ReplicaSet
  <2> QED
    BY <1>5, <2>2 DEF Annotate, operatorVars, informerVars, queueVars, workerVars
<1>6. ASSUME NEW r \in ReplicaSets, SwitchReady(r)
      PROVE  TypeOK'
  <2>1. replicaset' \in [ReplicaSets -> ReplicaSet \cup {None}]
    <3>1. PICK b \in BOOLEAN :
            replicaset' = [replicaset EXCEPT ![r].ready = b]
      BY <1>6 DEF SwitchReady
    <3>2. replicaset[r] \in ReplicaSet
      BY <1>6 DEF SwitchReady
    <3> QED
      BY <3>1, <3>2 DEF ReplicaSet
  <2> QED
    BY <1>6, <2>1 DEF SwitchReady, operatorVars, informerVars, queueVars,
                      workerVars
<1>7. ASSUME NEW r \in ReplicaSets, CollectReplicaSet(r)
      PROVE  TypeOK'
  BY <1>7 DEF CollectReplicaSet, operatorVars, informerVars, queueVars,
              workerVars, bounds
<1> QED
  BY <1>1, <1>2, <1>3, <1>4, <1>5, <1>6, <1>7

\* The informers' steps and those of the process keep the types.
LEMMA ProcessKeepsTypes ==
    ASSUME Inv, MMTypeOK',
           \/ \E d \in Names : CleanupDeployment(d) \/ MissDelete(d)
           \/ \E r \in ReplicaSets : SyncReplicaSet(r) \/ Resync(r)
           \/ SyncActive \/ StartInformers \/ Restart
    PROVE  TypeOK'
<1> USE OperatorAssumption DEF Inv, TypeOK
<1>1. ASSUME NEW d \in Names, CleanupDeployment(d) \/ MissDelete(d)
      PROVE  TypeOK'
  BY <1>1 DEF CleanupDeployment, MissDelete, Fault, clusterVars, queueVars,
              workerVars, bounds
<1>2. ASSUME NEW r \in ReplicaSets, SyncReplicaSet(r) \/ Resync(r)
      PROVE  TypeOK'
  BY <1>2 DEF SyncReplicaSet, Resync, Enqueue, clusterVars, workerVars,
              informerVars, bounds
<1>3. CASE SyncActive
  <2>1. \A d \in Names : filter[d] # None => GetActiveEntry(filter[d]) \in ActiveEntry
    BY DEF GetActiveEntry, ActiveEntry, EnvoyFilter
  <2>2. active' \in [Names -> ActiveEntry \cup {None}]
    BY <1>3, <2>1 DEF SyncActive
  <2> QED
    BY <1>3, <2>2 DEF SyncActive, clusterVars, queueVars, workerVars,
                      informerVars, bounds
<1>4. CASE StartInformers
  BY <1>4 DEF StartInformers, clusterVars, queueVars, workerVars, informerVars,
              bounds
<1>5. CASE Restart
  BY <1>5 DEF Restart, Fault, clusterVars, bounds
<1> QED
  BY <1>1, <1>2, <1>3, <1>4, <1>5

\* The workers' steps keep the types.
LEMMA WorkersKeepTypes ==
    ASSUME Inv, MMTypeOK', NEW w \in Threads,
           \/ \E r \in ReplicaSets : Get(w, r)
           \/ LockDeployment(w)
           \/ Work(w)
    PROVE  TypeOK'
<1> USE OperatorAssumption DEF Inv, TypeOK
<1>1. ASSUME NEW r \in ReplicaSets, Get(w, r)
      PROVE  TypeOK'
  BY <1>1 DEF Get, clusterVars, workerVars, informerVars, bounds
<1>2. CASE LockDeployment(w)
  BY <1>2 DEF LockDeployment, clusterVars, queueVars, workerVars, informerVars,
              bounds
<1>3. CASE Evaluate(w)
  BY <1>3 DEF Evaluate, clusterVars, queueVars, informerVars, bounds
<1>4. CASE Finish(w)
  BY <1>4 DEF Finish, clusterVars, informerVars, bounds
<1>5. CASE Work(w) /\ ~Evaluate(w) /\ ~Finish(w)
  <2> USE <1>5 DEF Work, WorkerGoes, queueVars, informerVars, bounds
  <2>1. Busy(w)
    BY DEF Upsert, UpsertFails, UpsertAnswerLost, Store, Delete, DeleteFails,
           Forget, RemoveLock, Busy
  <2>2. Deployment(w) \in Names /\ snap[w] \in ReplicaSet
    BY <2>1 DEF WorkerInv, Deployment
  <2>3. /\ NewActiveEntry(snap[w]) \in ActiveEntry
        /\ NewEnvoyFilter(snap[w]) \in EnvoyFilter
    BY <2>2, EntriesTyped
  <2>4. CASE Upsert(w) \/ UpsertFails(w) \/ UpsertAnswerLost(w)
    BY <2>2, <2>3, <2>4 DEF Upsert, UpsertFails, UpsertAnswerLost, PutFilter,
                            Fault, clusterVars
  <2>5. CASE Store(w) \/ Forget(w) \/ RemoveLock(w)
    BY <2>2, <2>3, <2>5 DEF Store, Forget, RemoveLock, clusterVars
  <2>6. CASE Delete(w) \/ DeleteFails(w)
    BY <2>2, <2>6 DEF Delete, DeleteFails, Fault, clusterVars
  <2> QED
    BY <2>4, <2>5, <2>6
<1> QED
  BY <1>1, <1>2, <1>3, <1>4, <1>5 DEF Work

\* Every step of the control loop keeps its variables in their types.
LEMMA TypeOKKept ==
    ASSUME Inv, [Next]_vars
    PROVE  TypeOK'
<1>1. MMTypeOK'
  BY MMInvKept DEF MMInv
<1>2. CASE UNCHANGED vars
  BY <1>1, <1>2 DEF Inv, TypeOK, vars, operatorVars, clusterVars, queueVars,
                    workerVars, informerVars, bounds
<1>3. CASE Next
  BY <1>1, <1>3, ClusterKeepsTypes, ProcessKeepsTypes, WorkersKeepTypes DEF Next
<1> QED
  BY <1>2, <1>3

-----------------------------------------------------------------------------
(* The workers, the queue and the snapshots *)

QueueInv == WorkerInv /\ OneWorkerPerReplicaSet /\ StaleSnapshotRequeued

\* Steps that change neither workers, queue, cache nor map keep QueueInv.
LEMMA FrameKeepsQueueInv ==
    ASSUME Inv, UNCHANGED <<workerVars, queueVars, rsCache, mmVars>>
    PROVE  QueueInv'
  BY DEF Inv, QueueInv, WorkerInv, OneWorkerPerReplicaSet,
         StaleSnapshotRequeued, workerVars, queueVars, mmVars, Busy, Deployment,
         ShouldEnqueue

\* The informers keep QueueInv: a ReplicaSet that changes in the cache and is
\* ready is enqueued by the same step, whoever has an older snapshot of it.
LEMMA InformersKeepQueueInv ==
    ASSUME Inv,
           \/ \E d \in Names : CleanupDeployment(d)
           \/ \E r \in ReplicaSets : SyncReplicaSet(r) \/ Resync(r)
    PROVE  QueueInv'
<1> USE DEF Inv, QueueInv, Busy, Deployment, workerVars, queueVars, mmVars
<1>1. ASSUME NEW d \in Names, CleanupDeployment(d)
      PROVE  QueueInv'
  BY <1>1 DEF CleanupDeployment, Remove, WorkerInv, OneWorkerPerReplicaSet,
              StaleSnapshotRequeued, ShouldEnqueue
<1>2. ASSUME NEW r \in ReplicaSets, SyncReplicaSet(r) \/ Resync(r)
      PROVE  QueueInv'
  <2>1. UNCHANGED <<processing, pc, key, snap, stage, name>>
    BY <1>2 DEF SyncReplicaSet, Resync
  <2>2. WorkerInv' /\ OneWorkerPerReplicaSet'
    BY <2>1 DEF WorkerInv, OneWorkerPerReplicaSet
  <2>3. /\ dirty \subseteq dirty'
        /\ \A o \in ReplicaSets : rsCache'[o] # rsCache[o] =>
              (ShouldEnqueue(rsCache'[o]) => o \in dirty')
    BY <1>2 DEF SyncReplicaSet, Resync, Enqueue, informerVars, TypeOK
  <2>4. StaleSnapshotRequeued'
    BY <2>1, <2>3 DEF StaleSnapshotRequeued, WorkerInv
  <2> QED
    BY <2>2, <2>4
<1> QED
  BY <1>1, <1>2

\* Taking a key keeps QueueInv: no other worker has it, and the snapshot is
\* what the cache holds.
LEMMA GetKeepsQueueInv ==
    ASSUME Inv, NEW w \in Threads, NEW r \in ReplicaSets, Get(w, r)
    PROVE  QueueInv'
<1> USE DEF Inv, QueueInv, Busy, Deployment, workerVars, mmVars
<1>1. CASE rsCache[r] = None
  BY <1>1 DEF Get, informerVars, WorkerInv, OneWorkerPerReplicaSet,
              StaleSnapshotRequeued, Queued, ShouldEnqueue, TypeOK
<1>2. CASE rsCache[r] # None
  <2>1. /\ pc' = [pc EXCEPT ![w] = "start"]
        /\ key' = [key EXCEPT ![w] = r]
        /\ snap' = [snap EXCEPT ![w] = rsCache[r]]
        /\ processing' = processing \cup {r}
        /\ dirty' = dirty \ {r}
        /\ pc[w] = "idle"
        /\ r \notin processing
        /\ UNCHANGED <<rsCache, stage, name>>
    BY <1>2 DEF Get, Queued, informerVars
  <2>2. WorkerInv'
    BY <1>2, <2>1 DEF WorkerInv, TypeOK
  <2>3. \A v \in Threads : Busy(v) => key[v] # r
    BY <2>1 DEF OneWorkerPerReplicaSet
  <2>4. OneWorkerPerReplicaSet'
    <3>1. \A v \in Threads : Busy(v)' <=> (Busy(v) \/ v = w)
      BY <2>1 DEF TypeOK
    <3>2. processing' = {key'[v] : v \in {u \in Threads : Busy(u)'}}
      BY <2>1, <3>1 DEF OneWorkerPerReplicaSet, TypeOK
    <3>3. \A u, v \in Threads :
             Busy(u)' /\ Busy(v)' /\ key'[u] = key'[v] => u = v
      BY <2>1, <2>3, <3>1 DEF OneWorkerPerReplicaSet, TypeOK
    <3> QED
      BY <3>2, <3>3 DEF OneWorkerPerReplicaSet
  <2>5. StaleSnapshotRequeued'
    BY <2>1, <2>3 DEF StaleSnapshotRequeued, TypeOK
  <2> QED
    BY <2>2, <2>4, <2>5
<1> QED
  BY <1>1, <1>2

\* A worker's way through next() keeps QueueInv.
LEMMA WorkKeepsQueueInv ==
    ASSUME Inv, NEW w \in Threads, LockDeployment(w) \/ Work(w)
    PROVE  QueueInv'
<1> USE DEF Inv, QueueInv, Busy, Deployment, MMTypeOK
<1>1. CASE LockDeployment(w)
  <2>1. /\ UNCHANGED <<pc, key, snap, processing, dirty, rsCache>>
        /\ pc[w] = "start"
        /\ \/ /\ stage[w] = "out"
              /\ name' = [name EXCEPT ![w] = Deployment(w)]
              /\ \E g \in {"in", "wait"} : stage' = [stage EXCEPT ![w] = g]
           \/ /\ stage[w] = "wait"
              /\ name' = name
              /\ stage' = [stage EXCEPT ![w] = "in"]
    BY <1>1 DEF LockDeployment, Lock, LockStored, LockLoaded, Acquire,
                workerVars, queueVars, informerVars
  <2>2. WorkerInv'
    BY <2>1 DEF WorkerInv, TypeOK
  <2>3. OneWorkerPerReplicaSet' /\ StaleSnapshotRequeued'
    BY <2>1 DEF OneWorkerPerReplicaSet, StaleSnapshotRequeued
  <2> QED
    BY <2>2, <2>3
<1>2. CASE Work(w) /\ ~Finish(w)
  <2>1. /\ UNCHANGED <<key, snap, processing, dirty, rsCache, stage, name>>
        /\ pc[w] # "idle" /\ stage[w] = "in"
        /\ \E p \in {"upsert", "store", "delete", "forget", "remove", "finish"} :
              pc' = [pc EXCEPT ![w] = p]
    BY <1>2 DEF Work, Evaluate, Upsert, UpsertFails, UpsertAnswerLost, Store,
                Delete, DeleteFails, Forget, RemoveLock, Remove, WorkerGoes,
                WorkerInv, queueVars, informerVars, mmVars, TypeOK
  <2>2. \A v \in Threads : Busy(v)' <=> Busy(v)
    BY <2>1 DEF TypeOK
  <2>3. WorkerInv'
    BY <2>1, <2>2 DEF WorkerInv, TypeOK
  <2>4. OneWorkerPerReplicaSet' /\ StaleSnapshotRequeued'
    BY <2>1, <2>2 DEF OneWorkerPerReplicaSet, StaleSnapshotRequeued
  <2> QED
    BY <2>3, <2>4
<1>3. CASE Finish(w)
  <2>1. /\ pc' = [pc EXCEPT ![w] = "idle"]
        /\ key' = [key EXCEPT ![w] = None]
        /\ snap' = [snap EXCEPT ![w] = None]
        /\ stage' = [stage EXCEPT ![w] = "out"]
        /\ name' = [name EXCEPT ![w] = NoName]
        /\ processing' = processing \ {key[w]}
        /\ pc[w] = "finish"
        /\ UNCHANGED <<dirty, rsCache>>
    BY <1>3 DEF Finish, Unlock, informerVars
  <2>2. \A v \in Threads : Busy(v)' <=> (Busy(v) /\ v # w)
    BY <2>1 DEF TypeOK
  <2>3. WorkerInv'
    BY <2>1 DEF WorkerInv, TypeOK
  <2>4. OneWorkerPerReplicaSet'
    <3>1. processing' = {key'[v] : v \in {u \in Threads : Busy(u)'}}
      BY <2>1, <2>2 DEF OneWorkerPerReplicaSet, TypeOK
    <3>2. \A u, v \in Threads :
             Busy(u)' /\ Busy(v)' /\ key'[u] = key'[v] => u = v
      BY <2>1, <2>2 DEF OneWorkerPerReplicaSet, TypeOK
    <3> QED
      BY <3>1, <3>2 DEF OneWorkerPerReplicaSet
  <2>5. StaleSnapshotRequeued'
    BY <2>1, <2>2 DEF StaleSnapshotRequeued, TypeOK
  <2> QED
    BY <2>3, <2>4, <2>5
<1> QED
  BY <1>1, <1>2, <1>3

\* A new process has idle workers and an empty queue.
LEMMA RestartKeepsQueueInv ==
    ASSUME Restart
    PROVE  QueueInv'
  BY DEF Restart, MMReset, QueueInv, WorkerInv, OneWorkerPerReplicaSet,
         StaleSnapshotRequeued, Busy

\* Every step keeps what ties the workers to the queue: elsewhere nothing of it
\* moves, and each step of informers, workers and a restart has its own lemma.
LEMMA QueueInvKept ==
    ASSUME Inv, [Next]_vars
    PROVE  QueueInv'
<1>1. CASE Elsewhere
  BY <1>1, ElsewhereFrame, FrameKeepsQueueInv
<1>2. CASE Next /\ ~Elsewhere
  BY <1>2, InformersKeepQueueInv, GetKeepsQueueInv, WorkKeepsQueueInv,
     RestartKeepsQueueInv DEF Next, Elsewhere
<1> QED
  BY <1>1, <1>2 DEF Elsewhere

-----------------------------------------------------------------------------
(* The theorems *)

\* The inductive invariant holds when the operator has not started.
LEMMA InitInv == Init => Inv
<1> SUFFICES ASSUME Init PROVE Inv
  OBVIOUS
<1> USE OperatorAssumption
<1>1. MMInv
  BY MMInitInv DEF Init
<1>2. TypeOK
  <2>1. alive \subseteq Names
    BY DEF Init
  <2>2. uid \in [Names -> Uid]
    BY DEF Init, Uid
  <2>3. replicaset \in [ReplicaSets -> ReplicaSet \cup {None}]
    <3>1. 1 \in Uid /\ 1 \in Revision
      BY DEF Uid, Revision
    <3>2. PICK p \in [Existing -> Ports], o \in [Existing -> Options] :
            replicaset = [r \in ReplicaSets |->
                IF r \in Existing
                THEN [uid |-> 1, revision |-> 1, port |-> p[r],
                      options |-> o[r], ready |-> TRUE]
                ELSE None]
      BY DEF Init
    <3>3. ASSUME NEW r \in Existing
          PROVE  [uid |-> 1, revision |-> 1, port |-> p[r],
                  options |-> o[r], ready |-> TRUE] \in ReplicaSet
      BY <3>1 DEF ReplicaSet
    <3> QED
      BY <3>2, <3>3
  <2> QED
    BY <1>1, <2>1, <2>2, <2>3 DEF Init, TypeOK, MMInv
<1>3. WorkerInv /\ OneWorkerPerReplicaSet /\ StaleSnapshotRequeued
  BY DEF Init, MMInit, WorkerInv, OneWorkerPerReplicaSet,
         StaleSnapshotRequeued, Busy
<1> QED
  BY <1>1, <1>2, <1>3 DEF Inv

\* The invariant is inductive.
LEMMA NextInv == Inv /\ [Next]_vars => Inv'
  BY TypeOKKept, MMInvKept, QueueInvKept DEF Inv, QueueInv

\* The invariant holds in every reachable state, whatever the fairness.
LEMMA Invariant == SafetySpec => []Inv
  BY InitInv, NextInv, PTL DEF SafetySpec

\* Type correctness of the control loop: among other things, every EnvoyFilter
\* written has a valid port, whatever the annotation says.
THEOREM TypeCorrect == SafetySpec => []TypeOK
  BY Invariant, PTL DEF Inv

\* At any time the keys being processed are those of the busy workers, and no
\* two workers have the same ReplicaSet (operator.go:237-242 and the queue).
THEOREM QueueSerialises == SafetySpec => []OneWorkerPerReplicaSet
  BY Invariant, PTL DEF Inv

\* A worker that decides on a stale ReplicaSet (operator.go:249 reads it before
\* line 257 locks) has the ReplicaSet queued again behind it.
THEOREM StaleSnapshotsAreRequeued == SafetySpec => []StaleSnapshotRequeued
  BY Invariant, PTL DEF Inv

\* Two workers never update one Deployment at the same time, unless its lock
\* was removed since the process started (operator.go:59-61).
THEOREM UpdatesExclude == SafetySpec => []OneUpdateUnlessRemoved
<1>1. Inv => OneUpdateUnlessRemoved
  <2> SUFFICES ASSUME Inv, NEW v \in Threads, NEW w \in Threads, v # w,
                      Updating(v), Updating(w), Deployment(v) = Deployment(w),
                      Deployment(v) \notin removed
               PROVE  FALSE
    BY DEF OneUpdateUnlessRemoved
  <2>1. /\ stage[v] = "in" /\ name[v] = Deployment(v)
        /\ stage[w] = "in" /\ name[w] = Deployment(v)
    BY DEF Inv, WorkerInv, Updating
  <2>2. Deployment(v) \in Names
    BY <2>1 DEF Inv, MMInv, MMTypeOK
  <2> QED
    BY <2>1, <2>2 DEF Inv, MMInv, ExclusiveUnlessRemoved, Holding
<1> QED
  BY <1>1, Invariant, PTL

\* In every process, a locked mutex of a Deployment whose lock was not removed has
\* a worker that is past Lock for that Deployment.
LEMMA HoldersStay == SafetySpec => []HolderInv
<1>1. Init => HolderInv
  BY InitHolders DEF Init
<1>2. ASSUME MMReset
      PROVE  HolderInv'
  BY <1>2, MutexMapAssumption DEF MMReset, HolderInv
<1>3. Inv /\ HolderInv /\ [Next]_vars => HolderInv'
  BY <1>2, MapStep, MMNextKeepsHolders DEF Inv
<1> QED
  BY <1>1, <1>3, Invariant, PTL DEF SafetySpec

\* No worker is lost to a lock that nobody gives back, whatever fails in
\* processReplicaset: the deferred Unlock (operator.go:257-258) finds the mutex that
\* was locked, unless the lock was removed.
THEOREM WorkersWaitForWorkers == SafetySpec => []NoWorkerLost
<1>1. Inv /\ HolderInv => NoWorkerLost
  <2> SUFFICES ASSUME Inv, HolderInv, NEW w \in Threads,
                      stage[w] = "wait", want[w] \in locked,
                      Deployment(w) \notin removed
               PROVE  \E v \in Threads : /\ v # w
                                        /\ Busy(v) /\ stage[v] = "in"
                                        /\ Deployment(v) = Deployment(w)
    BY DEF NoWorkerLost
  <2>1. name[w] = Deployment(w) /\ Deployment(w) \in Names
    BY DEF Inv, WorkerInv, MMInv, MMTypeOK
  <2>2. want[w] = sm[Deployment(w)]
    BY <2>1 DEF Inv, MMInv, LockTable, Waiting
  <2>3. PICK v \in Threads : stage[v] = "in" /\ name[v] = Deployment(w)
    BY <2>1, <2>2 DEF HolderInv, Holding
  <2>4. Busy(v) /\ name[v] = Deployment(v)
    BY <2>3 DEF Inv, WorkerInv
  <2> QED
    BY <2>3, <2>4
<1> QED
  BY <1>1, Invariant, HoldersStay, PTL
=============================================================================
