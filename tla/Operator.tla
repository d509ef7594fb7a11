------------------------------ MODULE Operator ------------------------------
(***************************************************************************)
(* The control loop of the transflect operator                             *)
(* (cmd/transflect-operator/operator.go) while it leads, with the cluster  *)
(* it watches and changes.                                                 *)
(*                                                                         *)
(* Informers copy ReplicaSets into a cache and enqueue the ready ones.     *)
(* Workers take keys from the queue, snapshot the ReplicaSet from the      *)
(* cache, take the lock of its Deployment, compare the snapshot with       *)
(* activeState, and create, update or delete the Deployment's EnvoyFilter. *)
(*                                                                         *)
(* MutexMap's threads are the workers, its names the Deployments.  The     *)
(* Kubernetes API server, the deployment controller, the garbage collector *)
(* and client-go are external: modelled as far as the operator meets them. *)
(* An upsert's calls (Service, Ingress, reflection, EnvoyFilter) are one   *)
(* step here, placed where the EnvoyFilter is written.                     *)
(***************************************************************************)
EXTENDS Integers, FiniteSetsExt, MutexMap

CONSTANTS
    ReplicaSets,   \* the ReplicaSets there may be, by name
    Owner,         \* Owner[r]: the Deployment that owns r
    Existing,      \* those rolled out and ready before the operator starts
    Ports,         \* the integers that a port annotation may hold
    Options,       \* the values of the other annotations, taken together
    NoOption,      \* ... and "none of them is set"
    None,          \* no ReplicaSet, EnvoyFilter, key or entry
    PageLimit,     \* the Limit of the list call in syncActive
    Faults,        \* which of FaultKinds may happen
    MaxUid,        \* bound: creations of one Deployment
    MaxRevision,   \* bound: revisions of one Deployment
    MaxChanges,    \* bound: what users and the deployment controller do, together
    MaxFaults      \* bound: faults, together

\* A failed upsert, an upsert done whose answer is lost, a failed delete, a
\* watch interrupted, a restart of the operator.
FaultKinds == {"upsert", "answer", "delete", "watch", "restart"}

ASSUME OperatorAssumption ==
    /\ Owner \in [ReplicaSets -> Names]
    /\ Existing \subseteq ReplicaSets
    /\ \A r, o \in Existing : Owner[r] = Owner[o] => r = o
    /\ Ports \subseteq Int
    /\ NoOption \in Options
    /\ None \notin ReplicaSets
    /\ PageLimit \in Nat \ {0}
    /\ Faults \subseteq FaultKinds
    /\ {MaxUid, MaxRevision} \subseteq Nat \ {0}
    /\ {MaxChanges, MaxFaults} \subseteq Nat

VARIABLES
    \* The cluster
    alive,        \* the Deployments that exist
    uid,          \* uid[d]: which creation of d is the latest
    replicaset,   \* replicaset[r]: r in the API server, or None
    filter,       \* filter[d]: d's EnvoyFilter in the API server, or None
    \* Informers and work queue (client-go)
    rsCache,      \* rsCache[r]: r as the lister returns it, or None
    deleted,      \* Deployments with a delete event not yet handed over
    dirty,        \* keys to process
    processing,   \* keys being processed
    \* The operator
    phase,        \* "stopped", "synced" (syncActive is done), "leading"
    pc,           \* pc[w]: where worker w is in next()
    key,          \* key[w]: the key that w got from the queue
    snap,         \* snap[w]: the ReplicaSet that the lister gave w
    active,       \* activeState: active[d] is the entry of d, or None
    \* Bounds
    changes, faults

clusterVars == <<alive, uid, replicaset, filter>>
informerVars == <<rsCache, deleted>>
queueVars == <<dirty, processing>>
workerVars == <<pc, key, snap>>
bounds == <<changes, faults>>
operatorVars == <<informerVars, queueVars, workerVars, phase, active, mmVars>>
vars == <<clusterVars, operatorVars, bounds>>

-----------------------------------------------------------------------------
(* Data *)

Uid == 0..MaxUid
Revision == 1..MaxRevision
MaxPort == 65535
GrpcPorts == 0..MaxPort

ReplicaSet ==
    [uid : Uid, revision : Revision, port : Int, options : Options,
     ready : BOOLEAN]

EnvoyFilter ==
    [uid : Uid, revision : Revision, port : GrpcPorts, options : Options]

ActiveEntry == [revision : Revision, port : GrpcPorts, options : Options]

ASSUME NoneAssumption == None \notin ReplicaSet \cup EnvoyFilter \cup ActiveEntry

\* Mutation: no upper limit.
GrpcPortAnySize(a) == IF a >= 0 THEN a ELSE 0

\* The port an annotation asks for: an invalid one counts as none.
GrpcPort(a) == IF a \in GrpcPorts THEN a ELSE 0

NewActiveEntry(rs) ==
    [revision |-> rs.revision, port |-> GrpcPort(rs.port),
     options |-> rs.options]

NewEnvoyFilter(rs) ==
    [uid |-> rs.uid, revision |-> rs.revision, port |-> GrpcPort(rs.port),
     options |-> rs.options]

\* What getActiveEntry reads back from a filter: no option is recorded there.
GetActiveEntry(f) ==
    [revision |-> f.revision, port |-> f.port, options |-> NoOption]

ShouldEnqueue(rs) == rs # None /\ rs.ready

\* Mutation: revisions are not compared.
ShouldProcessAnyRevision(rs, entry) ==
    /\ rs.ready
    /\ IF entry = None
       THEN GrpcPort(rs.port) # 0
       ELSE entry # NewActiveEntry(rs)

\* Mutation: only a newer revision is processed.
ShouldProcessNewRevision(rs, entry) ==
    /\ rs.ready
    /\ IF entry = None
       THEN GrpcPort(rs.port) # 0
       ELSE rs.revision > entry.revision

\* entry is what activeState holds for the ReplicaSet's Deployment.
ShouldProcess(rs, entry) ==
    /\ rs.ready
    /\ IF entry = None
       THEN GrpcPort(rs.port) # 0
       ELSE rs.revision >= entry.revision /\ entry # NewActiveEntry(rs)

\* The ReplicaSets of the Deployment d as it exists now, the newest of them.
OwnedSets(d) ==
    {r \in ReplicaSets : /\ Owner[r] = d
                         /\ replicaset[r] # None
                         /\ replicaset[r].uid = uid[d]}

IsCurrent(r) ==
    /\ Owner[r] \in alive
    /\ r \in OwnedSets(Owner[r])
    /\ \A o \in OwnedSets(Owner[r]) :
          replicaset[o].revision <= replicaset[r].revision

NextRevision(d) == 1 + Max({0} \cup {replicaset[r].revision : r \in OwnedSets(d)})

Orphaned(d, u) == d \notin alive \/ u # uid[d]

Leading == phase = "leading" /\ ~crashed

Queued == dirty \ processing

Busy(w) == pc[w] # "idle"

Deployment(w) == Owner[key[w]]

-----------------------------------------------------------------------------
TypeOK ==
    /\ MMTypeOK
    /\ alive \subseteq Names
    /\ uid \in [Names -> Uid]
    /\ replicaset \in [ReplicaSets -> ReplicaSet \cup {None}]
    /\ filter \in [Names -> EnvoyFilter \cup {None}]
    /\ rsCache \in [ReplicaSets -> ReplicaSet \cup {None}]
    /\ deleted \subseteq Names
    /\ dirty \subseteq ReplicaSets
    /\ processing \subseteq ReplicaSets
    /\ phase \in {"stopped", "synced", "leading"}
    /\ pc \in [Threads -> {"idle", "start", "upsert", "store", "delete",
                           "forget", "remove", "finish"}]
    /\ key \in [Threads -> ReplicaSets \cup {None}]
    /\ snap \in [Threads -> ReplicaSet \cup {None}]
    /\ active \in [Names -> ActiveEntry \cup {None}]
    /\ changes \in 0..MaxChanges
    /\ faults \in 0..MaxFaults

Init ==
    /\ MMInit
    /\ alive = {Owner[r] : r \in Existing}
    /\ uid = [d \in Names |-> IF d \in alive THEN 1 ELSE 0]
    /\ \E p \in [Existing -> Ports], o \in [Existing -> Options] :
          replicaset = [r \in ReplicaSets |->
              IF r \in Existing
              THEN [uid |-> 1, revision |-> 1, port |-> p[r],
                    options |-> o[r], ready |-> TRUE]
              ELSE None]
    /\ filter = [d \in Names |-> None]
    /\ rsCache = [r \in ReplicaSets |-> None]
    /\ deleted = {}
    /\ dirty = {}
    /\ processing = {}
    /\ phase = "stopped"
    /\ pc = [w \in Threads |-> "idle"]
    /\ key = [w \in Threads |-> None]
    /\ snap = [w \in Threads |-> None]
    /\ active = [d \in Names |-> None]
    /\ changes = 0
    /\ faults = 0

Change ==
    /\ changes < MaxChanges
    /\ changes' = changes + 1
    /\ faults' = faults

Fault(kind) ==
    /\ kind \in Faults
    /\ faults < MaxFaults
    /\ faults' = faults + 1
    /\ changes' = changes

-----------------------------------------------------------------------------
(* The cluster: users, the deployment controller, the garbage collector *)

CreateDeployment(d) ==
    /\ Change
    /\ d \notin alive
    /\ uid[d] < MaxUid
    /\ alive' = alive \cup {d}
    /\ uid' = [uid EXCEPT ![d] = @ + 1]
    /\ UNCHANGED <<replicaset, filter, operatorVars>>

\* Only a running deployment informer will hear of it.
DeleteDeployment(d) ==
    /\ Change
    /\ d \in alive
    /\ alive' = alive \ {d}
    /\ deleted' = IF phase = "leading" THEN deleted \cup {d} ELSE deleted
    /\ UNCHANGED <<uid, replicaset, filter, rsCache, queueVars,
                   workerVars, phase, active, mmVars>>

\* A new pod template, or an old one again, becomes the newest revision.
Rollout(r) ==
    LET d == Owner[r] IN
    /\ Change
    /\ d \in alive
    /\ ~IsCurrent(r)
    /\ replicaset[r] # None => replicaset[r].uid = uid[d]
    /\ NextRevision(d) \in Revision
    /\ \E p \in Ports, o \in Options :
          replicaset' = [replicaset EXCEPT ![r] =
              [uid |-> uid[d], revision |-> NextRevision(d), port |-> p,
               options |-> o,
               ready |-> replicaset[r] # None /\ replicaset[r].ready]]
    /\ UNCHANGED <<alive, uid, filter, operatorVars>>

\* The deployment controller copies annotations to the newest ReplicaSet.
Annotate(r) ==
    /\ Change
    /\ IsCurrent(r)
    /\ \E p \in Ports, o \in Options :
          replicaset' = [replicaset EXCEPT ![r].port = p, ![r].options = o]
    /\ replicaset' # replicaset
    /\ UNCHANGED <<alive, uid, filter, operatorVars>>

SwitchReady(r) ==
    /\ Change
    /\ replicaset[r] # None
    /\ replicaset' = [replicaset EXCEPT ![r].ready = ~@]
    /\ UNCHANGED <<alive, uid, filter, operatorVars>>

CollectReplicaSet(r) ==
    /\ replicaset[r] # None
    /\ Orphaned(Owner[r], replicaset[r].uid)
    /\ replicaset' = [replicaset EXCEPT ![r] = None]
    /\ UNCHANGED <<alive, uid, filter, operatorVars, bounds>>

CollectFilter(d) ==
    /\ filter[d] # None
    /\ Orphaned(d, filter[d].uid)
    /\ filter' = [filter EXCEPT ![d] = None]
    /\ UNCHANGED <<alive, uid, replicaset, operatorVars, bounds>>

-----------------------------------------------------------------------------
(* Informers *)

\* Mutation: a key that is being processed is not queued again.
EnqueueUnlessProcessing(r, rs) ==
    dirty' = IF ShouldEnqueue(rs) /\ r \notin processing
             THEN dirty \cup {r} ELSE dirty

\* The queue keeps one copy of a key.
Enqueue(r, rs) == dirty' = IF ShouldEnqueue(rs) THEN dirty \cup {r} ELSE dirty

\* The cache is brought up to date, versions in between may be skipped, and the
\* handler enqueues the key.  A handler that runs later than the cache changes
\* adds no behaviour: Resync may enqueue the key again at any time.
SyncReplicaSet(r) ==
    /\ Leading
    /\ rsCache[r] # replicaset[r]
    /\ rsCache' = [rsCache EXCEPT ![r] = replicaset[r]]
    /\ Enqueue(r, replicaset[r])
    /\ UNCHANGED <<clusterVars, deleted, processing, workerVars, phase, active,
                   mmVars, bounds>>

\* The informers' resync, every 30 s: an update event for what is cached.
Resync(r) ==
    /\ Leading
    /\ r \notin dirty
    /\ ShouldEnqueue(rsCache[r])
    /\ Enqueue(r, rsCache[r])
    /\ UNCHANGED <<clusterVars, informerVars, processing, workerVars, phase,
                   active, mmVars, bounds>>

\* A delete event reaches cleanupDeployment, which asks for no lock.
CleanupDeployment(d) ==
    /\ Leading
    /\ d \in deleted
    /\ deleted' = deleted \ {d}
    /\ active' = [active EXCEPT ![d] = None]
    /\ Remove(d)
    /\ UNCHANGED <<clusterVars, rsCache, queueVars, workerVars, phase,
                   bounds>>

\* The watch was interrupted when d was deleted: the handler gets a
\* DeletedFinalStateUnknown, which it ignores, or, if d exists again, nothing.
MissDelete(d) ==
    /\ Leading
    /\ Fault("watch")
    /\ d \in deleted
    /\ deleted' = deleted \ {d}
    /\ UNCHANGED <<clusterVars, rsCache, queueVars, workerVars, phase,
                   active, mmVars>>

-----------------------------------------------------------------------------
(* Workers: one call of next() *)

\* Mutation: Done is called at once in place of deferred.
GetDoneAtOnce(w, r) ==
    /\ Leading
    /\ pc[w] = "idle"
    /\ r \in Queued
    /\ dirty' = dirty \ {r}
    /\ IF rsCache[r] = None
       THEN UNCHANGED workerVars
       ELSE /\ pc' = [pc EXCEPT ![w] = "start"]
            /\ key' = [key EXCEPT ![w] = r]
            /\ snap' = [snap EXCEPT ![w] = rsCache[r]]
    /\ UNCHANGED <<clusterVars, informerVars, processing, phase, active, mmVars, bounds>>

\* Get a key and look the ReplicaSet up; the lock is not held yet.
Get(w, r) ==
    /\ Leading
    /\ pc[w] = "idle"
    /\ r \in Queued
    /\ dirty' = dirty \ {r}
    /\ IF rsCache[r] = None
       THEN UNCHANGED <<processing, workerVars>>
       ELSE /\ processing' = processing \cup {r}
            /\ pc' = [pc EXCEPT ![w] = "start"]
            /\ key' = [key EXCEPT ![w] = r]
            /\ snap' = [snap EXCEPT ![w] = rsCache[r]]
    /\ UNCHANGED <<clusterVars, informerVars, phase, active, mmVars, bounds>>

LockDeployment(w) ==
    /\ Leading
    /\ pc[w] = "start"
    /\ Lock(w, Deployment(w)) \/ Acquire(w)
    /\ UNCHANGED <<clusterVars, informerVars, queueVars, workerVars, phase,
                   active, bounds>>

\* Mutation: the worker does not wait for the lock.
EvaluateUnlocked(w) ==
    /\ Leading
    /\ pc[w] = "start"
    /\ stage[w] # "out"
    /\ pc' = [pc EXCEPT ![w] =
                 IF ShouldProcess(snap[w], active[Deployment(w)])
                 THEN "upsert" ELSE "finish"]
    /\ UNCHANGED <<clusterVars, informerVars, queueVars, key, snap, phase,
                   active, mmVars, bounds>>

\* shouldProcessReplicaset, and the choice processReplicaset starts with.
Evaluate(w) ==
    /\ Leading
    /\ pc[w] = "start"
    /\ stage[w] = "in"
    /\ pc' = [pc EXCEPT ![w] =
                 CASE ~ShouldProcess(snap[w], active[Deployment(w)]) -> "finish"
                   [] OTHER -> IF GrpcPort(snap[w].port) = 0 THEN "delete"
                                                             ELSE "upsert"]
    /\ UNCHANGED <<clusterVars, informerVars, queueVars, key, snap, phase,
                   active, mmVars, bounds>>

WorkerGoes(w, from, to) ==
    /\ Leading
    /\ pc[w] = from
    /\ pc' = [pc EXCEPT ![w] = to]
    /\ UNCHANGED <<informerVars, queueVars, key, snap, phase>>

PutFilter(w) ==
    /\ filter' = [filter EXCEPT ![Deployment(w)] = NewEnvoyFilter(snap[w])]
    /\ UNCHANGED <<alive, uid, replicaset>>

Upsert(w) ==
    /\ WorkerGoes(w, "upsert", "store")
    /\ PutFilter(w)
    /\ UNCHANGED <<active, mmVars, bounds>>

\* Mutation: an entry is recorded although the upsert failed.
UpsertFailsUnnoticed(w) ==
    /\ WorkerGoes(w, "upsert", "store")
    /\ Fault("upsert")
    /\ UNCHANGED <<clusterVars, active, mmVars>>

\* Service, Ingress, reflection or EnvoyFilter failed: nothing is retried.
UpsertFails(w) ==
    /\ WorkerGoes(w, "upsert", "finish")
    /\ Fault("upsert")
    /\ UNCHANGED <<clusterVars, active, mmVars>>

\* The EnvoyFilter was written, but the answer of the API server was lost.
UpsertAnswerLost(w) ==
    /\ WorkerGoes(w, "upsert", "finish")
    /\ Fault("answer")
    /\ PutFilter(w)
    /\ UNCHANGED <<active, mmVars>>

Store(w) ==
    /\ WorkerGoes(w, "store", "finish")
    /\ active' = [active EXCEPT ![Deployment(w)] = NewActiveEntry(snap[w])]
    /\ UNCHANGED <<clusterVars, mmVars, bounds>>

Delete(w) ==
    /\ WorkerGoes(w, "delete", "forget")
    /\ filter' = [filter EXCEPT ![Deployment(w)] = None]
    /\ UNCHANGED <<alive, uid, replicaset, active, mmVars, bounds>>

\* A failed delete is counted, and then treated as if it had succeeded.
DeleteFails(w) ==
    /\ WorkerGoes(w, "delete", "forget")
    /\ Fault("delete")
    /\ UNCHANGED <<clusterVars, active, mmVars>>

Forget(w) ==
    /\ WorkerGoes(w, "forget", "remove")
    /\ active' = [active EXCEPT ![Deployment(w)] = None]
    /\ UNCHANGED <<clusterVars, mmVars, bounds>>

\* The entry is removed while the worker still holds its mutex.
RemoveLock(w) ==
    /\ WorkerGoes(w, "remove", "finish")
    /\ Remove(Deployment(w))
    /\ UNCHANGED <<clusterVars, active, bounds>>

\* The deferred calls: Unlock, then Done.
Finish(w) ==
    /\ Leading
    /\ pc[w] = "finish"
    /\ Unlock(w)
    /\ processing' = processing \ {key[w]}
    /\ pc' = [pc EXCEPT ![w] = "idle"]
    /\ key' = [key EXCEPT ![w] = None]
    /\ snap' = [snap EXCEPT ![w] = None]
    /\ UNCHANGED <<clusterVars, informerVars, dirty, phase, active, bounds>>

Work(w) ==
    \/ Evaluate(w)
    \/ Upsert(w) \/ UpsertFails(w) \/ UpsertAnswerLost(w)
    \/ Store(w)
    \/ Delete(w) \/ DeleteFails(w)
    \/ Forget(w) \/ RemoveLock(w)
    \/ Finish(w)

-----------------------------------------------------------------------------
(* The life of the process *)

\* Only the first page of filters is read.
SyncActive ==
    /\ phase = "stopped"
    /\ phase' = "synced"
    /\ LET Listed == {d \in Names : filter[d] # None} IN
       \E page \in SUBSET Listed :
          /\ Cardinality(page) = Min({PageLimit, Cardinality(Listed)})
          /\ active' = [d \in Names |-> IF d \in page
                                        THEN GetActiveEntry(filter[d])
                                        ELSE None]
    /\ UNCHANGED <<clusterVars, informerVars, queueVars, workerVars, mmVars,
                   bounds>>

\* The informers list what there is now, and watch from there.
StartInformers ==
    /\ phase = "synced"
    /\ phase' = "leading"
    /\ UNCHANGED <<clusterVars, informerVars, queueVars, workerVars, active,
                   mmVars, bounds>>

\* The process dies, or another becomes the leader: nothing is kept.  One that
\* the runtime has ended is started again without counting.
Restart ==
    /\ phase # "stopped"
    /\ (crashed /\ UNCHANGED bounds) \/ Fault("restart")
    /\ phase' = "stopped"
    /\ rsCache' = [r \in ReplicaSets |-> None]
    /\ deleted' = {}
    /\ dirty' = {}
    /\ processing' = {}
    /\ pc' = [w \in Threads |-> "idle"]
    /\ key' = [w \in Threads |-> None]
    /\ snap' = [w \in Threads |-> None]
    /\ active' = [d \in Names |-> None]
    /\ MMReset
    /\ UNCHANGED clusterVars

Next ==
    \/ \E d \in Names :
          \/ CreateDeployment(d) \/ DeleteDeployment(d) \/ CollectFilter(d)
          \/ CleanupDeployment(d) \/ MissDelete(d)
    \/ \E r \in ReplicaSets :
          \/ Rollout(r) \/ Annotate(r) \/ SwitchReady(r)
          \/ CollectReplicaSet(r)
          \/ SyncReplicaSet(r) \/ Resync(r)
          \/ \E w \in Threads : Get(w, r)
    \/ \E w \in Threads : LockDeployment(w) \/ Work(w)
    \/ SyncActive \/ StartInformers \/ Restart

SafetySpec == Init /\ [][Next]_vars

\* Goroutines are scheduled, informers deliver, the resync timer fires and the
\* garbage collector runs; a process that died is started again.  The queue is
\* first in, first out, and a starving sync.Mutex waiter is handed the mutex:
\* strong fairness.
Fairness ==
    /\ WF_vars(SyncActive) /\ WF_vars(StartInformers) /\ WF_vars(crashed /\ Restart)
    /\ \A d \in Names : WF_vars(CollectFilter(d)) /\ WF_vars(CleanupDeployment(d))
    /\ \A r \in ReplicaSets :
          /\ WF_vars(CollectReplicaSet(r))
          /\ WF_vars(SyncReplicaSet(r)) /\ WF_vars(Resync(r))
          /\ SF_vars(\E w \in Threads : Get(w, r))
    /\ \A w \in Threads : SF_vars(LockDeployment(w)) /\ WF_vars(Work(w))

Spec == SafetySpec /\ Fairness

-----------------------------------------------------------------------------
(* Safety properties *)

\* The queue hands a ReplicaSet to one worker at a time: the keys being
\* processed are those of the busy workers, each its own.
OneWorkerPerReplicaSet ==
    /\ processing = {key[w] : w \in {v \in Threads : Busy(v)}}
    /\ \A v, w \in Threads : Busy(v) /\ Busy(w) /\ key[v] = key[w] => v = w

\* next() reads the lister before it waits for the lock.  A snapshot that has
\* become stale by then does no lasting harm: the ReplicaSet is going to be
\* processed again.
StaleSnapshotRequeued ==
    \A w \in Threads :
        Busy(w) /\ ShouldEnqueue(rsCache[key[w]]) /\ snap[w] # rsCache[key[w]]
            => key[w] \in dirty

Updating(w) == pc[w] \in {"upsert", "store", "delete", "forget", "remove"}

\* "deploymentLocker synchronises operations on a deployment so that no two
\* updates for a single deployment can run concurrently" (operator.go:59-60).
OneUpdatePerDeployment ==
    \A v, w \in Threads :
        v # w /\ Updating(v) /\ Updating(w) => Deployment(v) # Deployment(w)

\* The same, for the Deployments whose lock was never removed.
OneUpdateUnlessRemoved ==
    \A v, w \in Threads :
        v # w /\ Updating(v) /\ Updating(w) /\ Deployment(v) = Deployment(w)
            => Deployment(v) \in removed

\* A worker that is blocked waits for one that is not: another worker with a key of
\* the same Deployment, past the lock.  So the workers never block each other in a
\* circle, and no worker is lost, as long as the lock was not removed.
NoWorkerLost ==
    \A w \in Threads :
        stage[w] = "wait" /\ want[w] \in locked /\ Deployment(w) \notin removed
            => \E v \in Threads : /\ v # w
                                 /\ Busy(v) /\ stage[v] = "in"
                                 /\ Deployment(v) = Deployment(w)

\* "activeState records the deployment revision and its grpc port for which an
\* EnvoyFilter has been created" (operator.go:52-53): while nobody works on a
\* Deployment, its filter is the one on record.
RecordMatchesFilter ==
    \A d \in Names \ removed :
        /\ phase = "leading"
        /\ filter[d] # None
        /\ \A w \in Threads : Updating(w) => Deployment(w) # d
        => /\ active[d] # None
           /\ active[d].revision = filter[d].revision
           /\ active[d].port = filter[d].port

\* A rollout only ever upgrades: the filter of a Deployment is never replaced
\* by that of an older revision, as long as its lock was not removed.
NoRollback ==
    [][\A d \in Names \ removed :
          filter[d] # None /\ filter'[d] # None /\ filter[d].uid = filter'[d].uid
              => filter'[d].revision >= filter[d].revision]_vars

-----------------------------------------------------------------------------
(* Liveness *)

\* d has the filter that its newest ReplicaSet asks for once that is ready.
\* While older ReplicaSets are still ready, one that asks for no filter does
\* not have its way yet.
Match(d) ==
    /\ d \notin alive => filter[d] = None
    /\ \A r \in OwnedSets(d) :
          IsCurrent(r) /\ replicaset[r].ready =>
              IF GrpcPort(replicaset[r].port) # 0
              THEN filter[d] = NewEnvoyFilter(replicaset[r])
              ELSE (\A o \in OwnedSets(d) \ {r} : ~replicaset[o].ready)
                       => filter[d] = None

\* "ensuring that there is always a transflect EnvoyFilter for any Kubernetes
\* Deployment that should have one and none extra" (docs/inner-workings.md):
\* when changes and failures come to an end, every filter is right, for good.
Converges == <>[](\A d \in Names : Match(d))
=============================================================================
