# TLA+ for transflect

Transflect is a Kubernetes operator.  It watches the ReplicaSets of annotated
Deployments and keeps, for each such Deployment, one Istio EnvoyFilter that
makes Envoy transcode HTTP/JSON to gRPC.  This directory holds TLA+ models of
the operator, the TLC configurations that check them, and TLAPS proofs about
them.

    tlc -workers 2 -config OperatorSafety.cfg MCOperator.tla    # check a run
    tlapm OperatorProofs.tla                                    # check proofs

`PROJECT.json` lists the runs, the mutation every property is tested against,
the source lines behind every definition, the findings and the hazards.

## The system

| Component | Source | State it keeps | Operations |
|---|---|---|---|
| MutexMap | `pkg/transflect/mutexmap.go` | `sync.Map` from names to mutexes | `Lock`, `Unlock`, `Remove` |
| Control loop | `cmd/transflect-operator/operator.go` | informer caches, work queue, `activeState`, `deploymentLocker` | event handlers `enqueue`, `enqueueWithOld`, `cleanupDeployment`; workers `next`, `shouldProcessReplicaset`, `processReplicaset`; `syncActive` |
| EnvoyFilter upsert | `cmd/transflect-operator/envoyfilter.go` | none of its own: Service, Ingress, EnvoyFilter in the API server, `filtersGauge` | `upsertFilter` (create Service and Ingress, reflect, write the EnvoyFilter, delete Service and Ingress), `deleteFilter` |
| Lifecycle | `operator.go` (`start`, `startLeading`, `stop`), `main.go`, `auxservers.go` | lease, `stopper`, `stopLock`, `wg`, contexts | leader election callbacks, signal handler, shutdown |
| Reflection client | `pkg/transflect/transflect.go` | one stream | `getFileDescriptorSetWithRetry`, `getFileDescriptorSet`, `addDependencies`, `topoSort` |
| Metrics | `metrics.go` | counters, gauges | |
| CLI, test tools, manifests | `cmd/transflect`, `cmd/retry-until-fail`, `cmd/test-http-transcoding`, YAML | | |

How they interact.  The process campaigns for a lease; the leader runs
`startLeading`: `syncActive` rebuilds `activeState` from the EnvoyFilters in the
API server, then informers list and watch ReplicaSets and Deployments and 42
workers take ReplicaSet keys from the queue.  A worker reads the ReplicaSet from
the informer's cache, locks its Deployment in `deploymentLocker`, compares the
ReplicaSet with `activeState`, and calls `upsertFilter` or `deleteFilter`.
`upsertFilter` calls the reflection client.  The informer's delete handler
removes the Deployment's entry from `activeState` and from `deploymentLocker`
without taking the lock; the EnvoyFilter itself is left to Kubernetes' garbage
collector.  Everything the operator knows is lost when it stops.

What makes it correct, and what makes that hard:

- **MutexMap** must be one lock per name.  Two threads may store the same new
  name at once, and `Remove` may take the mutex out from under its holder and
  its waiters.
- **Control loop**: an EnvoyFilter for every Deployment that should have one and
  none extra (`docs/inner-workings.md`), from the newest ready revision, with one
  update of a Deployment at a time.  Hard because the ReplicaSet is read before
  the lock is taken, several ReplicaSets of one Deployment are ready during a
  rollout and arrive in any order, the filter and its record are written in two
  steps, failed calls are not retried except by the 30 s resync, answers and
  watch events get lost, and the process may die anywhere.
- **Upsert**: temporary resources are cleaned up, none is taken from an upsert that
  still uses it, and a refused write is never reported as success.  Three calls (Create,
  Get, Update) do the work of one.
- **Lifecycle**: at most one operator works with a live context at a time, a process
  that should end does, with no worker cut off in the middle of a key, and somebody
  works in the end.  Hard because elector, starter, workers and signal handler call
  `stop`, cancel contexts, wait for each other and shut the queue in any order.
- **Reflection client**: every file once and after its imports, whatever a server
  sends with what; the HTTP rules on every service; a retry loop that ends and starts
  afresh.

## Plan

All of it is done; what could follow is under "Not modelled".

| | Module | Composes | Question |
|---|---|---|---|
| 1 | `MutexMap`, abstract `NamedLock`, `MutexMapProofs` | | Is the map a lock per name? |
| 2 | `Operator`, `OperatorProofs`, `RecordProofs` | EXTENDS `MutexMap` | What do lock, queue, cache and record guarantee together, and does the loop converge? |
| 3 | `Upsert`, abstract `AtomicUpsert`, `UpsertProofs` | | Service, Ingress and EnvoyFilter call by call, with cancellation and a second process: what is left behind, and do the calls act as the one step that `Operator` takes them for? |
| 4 | `Lifecycle`, `LifecycleProofs` | | start, lease, stop, signals, several processes: is there one operator at a time, does each end or campaign again, is every worker waited for? |
| 5 | `Reflection`, `ReflectionProofs`, `SortProofs` | | The query call by call against any server: is the answer complete, sorted and annotated, and does the query end? |

`MC*` modules instantiate these for TLC; `Operator*.cfg` are seven configurations of
`MCOperator`.

## Modules

### MutexMap and NamedLock

`MutexMap` models `mutexmap.go` for any set of `Threads` and `Names`.  `sm` maps
names to mutexes, `locked` is the set of locked mutexes, and per thread `stage`
says whether it is outside, waiting in `v.Lock()` or past `Lock`.

| Action | Code |
|---|---|
| `Lock(t, n)` | `Lock` up to the mutex: `LoadOrStore` of a locked new mutex. Stored: the thread is past `Lock`; loaded: it waits |
| `Acquire(t)` | `v.Lock()` succeeds |
| `Unlock(t)` | `Load`, `Unlock`; nothing happens if the name is gone, and unlocking an unlocked mutex ends the process (`crashed`) |
| `Remove(n)` | `Delete` |

`Mutexes` is a finite pool in TLC's runs: one per name and one per thread is
enough, since a mutex is in use only while the map or a waiter refers to it
(`Live`).  A new mutex is any that is not in use; `NewMutex` fixes the choice,
as mutexes differ in nothing but their identity.

`NamedLock` is what the map promises: every name is held by at most one thread
until somebody removes it; from then on the name is *void* and nothing is
promised.  `ImplementsNamedLock` states the refinement.  "Until it is removed" is
the best the code allows, and `Operator` shows what follows from it.

`removed` is the one history variable: the names removed so far.

### Operator

`Operator` EXTENDS `MutexMap`: threads are the workers, names the Deployments, and
the actions below call `Lock`, `Acquire`, `Unlock` and `Remove` as the code does.

| State | Code |
|---|---|
| `alive`, `uid`, `replicaset`, `filter` | Deployments, ReplicaSets and EnvoyFilters in the API server (external) |
| `rsCache`, `deleted` | the ReplicaSet informer's cache; delete events under way |
| `dirty`, `processing` | the sets of client-go's work queue |
| `phase` | how far `startLeading` is |
| `pc`, `key`, `snap` | a worker in `next`: where it is, its key, the ReplicaSet it read |
| `active` | `activeState` |

| Actions | Code |
|---|---|
| `SyncReplicaSet`, `Resync` | the informer updates its cache and calls `enqueue`; its 30 s resync |
| `CleanupDeployment`, `MissDelete` | `cleanupDeployment`; a delete event it ignores or never gets |
| `Get`, `LockDeployment` | `next` up to the lock |
| `Evaluate` | `shouldProcessReplicaset` and the first branch of `processReplicaset` |
| `Upsert`, `UpsertFails`, `UpsertAnswerLost`, `Store` | `upsertFilter` and the store that follows |
| `Delete`, `DeleteFails`, `Forget`, `RemoveLock` | the branch without a port |
| `Finish` | the deferred `Unlock` and `Done` |
| `SyncActive`, `StartInformers`, `Restart` | start, and the end of a process |
| `CreateDeployment`, `DeleteDeployment`, `Rollout`, `Annotate`, `SwitchReady`, `CollectReplicaSet`, `CollectFilter` | users, deployment controller, garbage collector (external) |

Abstractions, and why they are sound:

- A filter records the uid, revision, port and *options* it was made from; the
  include, exclude and path-prefix annotations are one value, `Options`.
- A ReplicaSet's handler runs in the step that changes the cache.  In the code it
  runs later; that only delays an `Add` of the key, and `Resync` may add the key
  at any time.
- `upsertFilter` is one step, at the write of the EnvoyFilter (`Upsert` justifies that).  The lost answer
  (`UpsertAnswerLost`) and the failure anywhere before it are steps of their own.
- A call that was under way when its process died does not arrive later.  Two
  processes at once belong to `Lifecycle` and `Upsert`.
- An unparsable port and one outside 0..65535 both count as none; a revision
  annotation that is missing does not occur, as the deployment controller always
  sets it, so the code's "revision 0" branch is left out.
- `Deployment(w)` comes from the ReplicaSet's owner reference, which never changes.

### Upsert and AtomicUpsert

`Upsert` takes `upsertFilter` and `deleteFilter` apart into their calls.  `stage[c]`
is the object a caller deals with and `call[c]` the call it makes next; the
callers are workers of several `Processes`, and the process's lock does not keep
them apart, because it may have been removed and because another process does not
have it.  Only the work queue does (`Start`): one process does not work on one
ReplicaSet twice at once.

| State, actions | Code |
|---|---|
| `store` | Service and Ingress (named after the ReplicaSet) and EnvoyFilter (after the Deployment) in the API server (external) |
| `fresh` | callers whose resource version from `Get` is still the object's |
| `StartUpsert`, `StartDelete` | the calls in `processReplicaset` |
| `Create`, `Get`, `Update` | `createService`, `createIngress`, `upsertEnvoyFilter`: create; if it exists get, then update with the resource version |
| `Query` | `GetFileDescriptorSet`, as one call that succeeds or fails |
| `Delete` | `deleteService` and `deleteIngress`, deferred, last first (`FirstDeferred`, `NextDeferred`), and `deleteFilter`, for which "not found" is success |
| `CallFails`, `AnswerLost` | a call without effect; a write whose answer is lost |
| `Cancel`, `Restart` | a signal or the end of leadership; the end of a process by itself or by a crash |

Once a context is cancelled a call has no effect; a call that was under way at that
moment is an `AnswerLost` before the `Cancel`.  The panic in `filterGRPCServices`
is a failure followed by a crash.  Names of ReplicaSets are not used again, so
nothing but an upsert of the same ReplicaSet meets its Service.

History variables: `spoilt`, the temporary objects whose deferred delete a fault
prevented, and `excused`, the callers that met a fault or another caller for their
Deployment.  Both only exempt from properties, and both are taken back: an object
leaves `spoilt` when it is deleted, a caller `excused` when it starts alone.

`AtomicUpsert` is the step that `Operator` assumes: a task changes the filter at one
instant and succeeds, fails without effect, or fails although it was done.
The instant is the write of the EnvoyFilter; the clean-up that follows changes neither
the filter nor the answer.

### Lifecycle

`proc[p]` is all of a process: its tasks in the errgroup, which of its three nested
contexts (the group's, the one `start` derives, the one the workers get) are
cancelled, where the *elector* (the operator's task: `RunOrDie` and
`OnStoppedLeading`) and the *starter* (the goroutine of `OnStartedLeading`) are,
`stopper`, `stopLock`, the workers, and the queue.  `lease` is the holder in the
Lease object, or `Former`, a process that is gone.

| Actions | Code |
|---|---|
| `TaskFails`, `TaskCancelled` | `handleSignals` returns `errSignal`, a server cannot listen; either ends because the context is cancelled |
| `Acquire`, `GiveUp`, `StopRenewing`, `Release`, `CancelLead`, `Return` | `RunOrDie` from the lease to its end, and `start`'s return |
| `MakeStopper`, `SyncSucceeds`, `SyncFails`, `CancelStart` | `startLeading` to the queue, and the error path of `OnStartedLeading` |
| `StartWorker`, `StartInformers`, `ShutDownQueue` | `runWorkers`, the informers, `<-o.stopper` and `queue.ShutDown` |
| `Stop`, `Stopped` | `stop()` up to `wg.Wait`, and from there, for either caller |
| `Get`, `Finish`, `WorkerEnds`, `Deliver` | a worker's loop; an informer adds a key (external) |
| `Expire`, `Restart` | the lease runs out; Kubernetes starts a process again (external) |

Taken from client-go's LeaderElector: with `ReleaseOnCancel` it releases the lease
first, cancels the leader's context second and calls `OnStoppedLeading` last, and it
calls that also if it never led.  A holder that renews keeps the lease, since
`RenewDeadline` (15 s) is shorter than `LeaseDuration` (20 s): so `Expire` waits until
the holder has stopped renewing.

Two things a reader of the code might not expect, both in the model and both within
the properties:

- *Work of two processes may overlap.*  The comment at `operator.go:118-120` says that
  the operator is stopped before the lease is released, "so two operators are not
  running at the same time".  That is so where the comment stands, in the error path
  of `startLeading`, but a signal or a failed renewal releases (or loses) the lease
  before `stop()` waits for the workers.  `OneLeader` therefore speaks of contexts that
  are still live; `Upsert` says what two processes that overlap do to each other.
- *A process may live on out of office.*  If the lease is lost without a signal,
  `RunOrDie` returns, `start` returns nil, and the errgroup waits for servers and
  signal handler, which go on: the process answers its probes and never campaigns
  again (`OutOfOffice`).  `SomebodyLeads` has to except the case that all processes
  have come to that, which TLC finds reachable with one failed renewal each.

Abstractions: both HTTP servers are one task; `syncActive` with its retries is one
step that succeeds or fails; an informer that starts when the stopper is closed
delivers nothing; a worker finishes each key in the end (the lost waiter below is one that
does not); a new process has a new identity, the default of `--lease-id`.  `err`,
`stopper` and `wg` are read and written by two goroutines without a lock; every order
of these accesses is a behaviour of the model.  `expiring` is a history variable: the
process could not renew and has not cancelled yet.

### Reflection

A query is sequential, so the model has one program counter, `phase`, with the
variables of `getFileDescriptorSet` (`services`, `names`, `files`), what is left of its
loops (`left`, `slice`), and a `stack` for the recursive calls, of `addDependencies` first and of `topoSort`
after it, whose frames hold what is left of the loops.  `files[f]` says whether a file is in the map, and whether it has been
annotated.

| Actions | Code |
|---|---|
| `Dial`, `ListServices` | `GetFileDescriptorSet`, `getServices` |
| `AskSymbol`, `NextSymbolFile`, `BeginImports` | the loop over the services |
| `AddDependencies`, `SkipImport`, `AskImport`, `NextFile`, `Return` | the loop over the names, and `addDependencies` |
| `BeginSort`, `SortName`, `SortImport`, `Emit`, `EndSort` (`InMap`) | `topoSort`: the outermost loop, the loop of a call, the file itself. A file is deleted from the map when it has been emitted, so it is in the map until it is in `result` |
| `AskFails` (`Again`), `AskRefused` | an error of `doRefl` or of decoding, and the retry loop; an `ErrorResponse` |
| `FilterServices` | `filterGRPCServices` |

The server is external: it sends the file asked for, with any files that this one
imports, directly or not, in any order (`Answers`); imports have no circles.  It does
not change between the attempts of a query.  An `ErrorResponse` is no gRPC error:
`getServices` takes it for an empty list, and `decodeResponse` dereferences a nil pointer
(phase `nilpanic`); the capacity in `filterGRPCServices` may be negative (phase
`slicepanic`), when an annotation excludes more services than the list has, be it that it
names others or that the list was refused and counts as empty: then one that names
only services of the server is enough.  TLC reaches this phase both ways, and no property
says that it does not.  Where the list was refused, `SortedAndComplete` says nothing: it
speaks of the services that the client received.  That the retries sleep without a look at
the context, and that a server may keep a call waiting for ever, is left out: every call is
answered or fails.

## Runs

| Run | Shows |
|---|---|
| `mutexmap` | 3 threads, 2 names, any calls in any order: the map implements `NamedLock`; its table keeps its shape (`LockTable`); unlocking an unlocked mutex happens only to a thread whose own name was removed (`OnlyRemovedNamesFatal`); whoever is blocked on a mutex has a holder to wait for (`NoLostUnlock`); a waiter is served if the holders unlock and nothing is removed (`WaiterServed`) |
| `operator_safety` | 2 workers, 2 ReplicaSets of one Deployment; rollouts, annotations, deletion and creation, failed upserts and deletes, a missed delete event, a restart. One worker per ReplicaSet; a stale snapshot is always followed by another look; updates exclude each other, a blocked worker has another one to wait for (`NoWorkerLost`), the record agrees with the filter and no filter is replaced by an older revision's, as long as the Deployment's lock was not removed |
| `operator_rollouts` | A Deployment that always asks for a port converges to the filter of its newest ready revision, with failed upserts, lost answers and restarts |
| `operator_switched` | A Deployment with two ReplicaSets, rolled out and switched on and off, converges to the newest one's filter or none, with a failed upsert, a missed delete event or a restart; one worker |
| `operator_exclusive` | *violated*: two updates of one Deployment at once |
| `operator_recreated` | *violated*: a Deployment recreated under its old name without a filter for ever |
| `operator_delete_fails` | *violated*: a filter that outlives its annotation after one failed call |
| `operator_pages` | *violated*: filters beyond the first page are not restored |
| `upsert` | 2 workers of one process and 1 of another, 2 ReplicaSets of one Deployment, any mix of 3 upserts and deletes with 2 faults of any kind: no Service or Ingress is left unless a fault left it (`NothingLeftBehind`), whatever one process does to the objects of the other; an upsert that is alone and meets no fault succeeds over anything that earlier ones left (`AloneSucceeds`); what an upsert still uses is deleted only by another process (`TakenByOtherProcess`); the calls implement `AtomicUpsert` |
| `upsert_cancelled` | *violated*: after a signal the temporary Service stays |
| `lifecycle` | 2 processes of 1 worker each, any two faults (signal, server, `syncActive`, renewal, release, crash): no two work with live contexts unless one could not renew (`OneLeader`); a process ends only when no worker is busy (`NoWorkerCutOff`); once `stop()` is called the workers it waits for can go on, or the queue they wait for will be shut (`NobodyStuck`); a process does end after a signal or a failure (`ShutdownEnds`); one that leads no longer has no workers in the end (`FormerLeaderRetires`); somebody works again and again unless all are out of office (`SomebodyLeads`) |
| `reflection` | 384 servers: 24 import graphs of 4 files (chains, trees, diamonds), 2 services in any of the files; every answer they may send; calls that fail in every way, 3 attempts. Files complete, each once, after their imports (`SortedAndComplete`, `MapClosed`); every offered service annotated (`OfferedIsAnnotated`); the query ends (`QueryEnds`) |

### What was found

1. **The lock is removed while it is held** (`operator.go:513`, `:309`).  The next
   worker stores a new mutex and enters.  The comment at `operator.go:59-60`
   promises otherwise (`operator_exclusive`).  The consequences go further than
   two writers, below.
2. **A record outlives its Deployment** (`operator.go:319`, `:502-505`).  A worker
   that stores after the delete event, or a missed event, leaves an entry whose
   revision a recreated Deployment (revision 1 again) does not exceed, so it is
   not processed (`operator_recreated`).
3. **A failed delete counts as done** (`operator.go:305-312`; `operator_delete_fails`),
   until a restart reads the filter again.
4. **One page** (`operator.go:476`): the continue token is never copied, so only
   the first 42 EnvoyFilters are restored (`operator_pages`, with a page of 1 and
   2 filters in place of 42 and 43).
5. **Clean-up with a cancelled context** (`envoyfilter.go:43`, `:50`).  A signal cancels
   the context that the deferred deletes use, so they fail and the temporary Service and
   Ingress stay until that ReplicaSet is processed by the next process, if it ever is;
   `README.md:132` says that "`SIGINT` will first clean up resources" (`upsert_cancelled`).

The models contain more that is not a run, since a run of its own would ask nothing new of
the parts around it.  All of it was seen in traces of TLC:

- *A waiter is lost* (`mutexmap.go:21`).  `Unlock` loads the mutex again; when it was removed
  meanwhile nobody unlocks it, the worker that waits for it waits for ever and its
  key stays in `processing`.  `OperatorExclusive.cfg` reaches such a state.  For this reason
  `operator_rollouts` keeps the port on and `operator_switched` has one worker: with two
  workers, two ReplicaSets *and* a port that comes and goes, `Converges` fails.
- *`Unlock` unlocks another's mutex* (`mutexmap.go:22`): the first worker unlocks the one
  that the second has stored after the removal, and the second one's own unlock ends the
  process (`crashed`), also within `OperatorExclusive.cfg`.
- *A filter without record* (`envoyfilter.go:243`, `operator.go:315`).  When the filter is
  created but the call reports an error, nothing is recorded; a port invalidated
  before the next look is then ignored, and the filter stays.  `OperatorDeleteFails.cfg` with
  `Faults = {"answer"}` and `MaxChanges = 2` shows it.
- *Options are not restored* (`operator.go:497`).  After a restart `activeState` has port and
  revision only, so the removal of an include, exclude or path-prefix annotation which no
  operator has processed yet looks like no change.  `OperatorDeleteFails.cfg` with
  `Ports = {9090}`, `Options = {NoOption, o1}` and `Faults = {"restart"}` shows it.
- *Out of office*, *a refused list* and *more excluded than there is*: see Lifecycle and
  Reflection above.

### Bounds

- `Threads`: 2 workers for 42.  Everything a worker does to another goes through
  the lock or the queue, pairwise.  `mutexmap` has 3 threads, so that one holds,
  one waits and one removes or stores.
- `ReplicaSets`: 2 of one Deployment, the least with rollout, rollback and an old
  revision that is still ready.  Two Deployments share nothing but the page of
  `syncActive`.
- `Ports`: 9090 and 65536, the first integer that is no port; it stands for every
  annotation that turns transflect off.
- `MaxChanges` counts what users and the deployment controller do after the start,
  3 or 4; `Existing = {r1}` starts from a Deployment that is already rolled out, in
  place of the three changes it takes to get there.
- `MaxUid = 2`: a Deployment and its successor.  `MaxRevision` 2 or 3: rollout and
  rollback.  `MaxFaults` 1 or 2.
- `Mutexes`: one per name and one per worker.
- `Callers` of `Upsert`: two of one process and one of a second, so that two work for
  one Deployment in a process while a third shares their objects by name.  `MaxCalls`
  3: all of them at once, or an upsert over what two earlier ones left; `MaxFaults` 2:
  a failure and the failure of its clean-up.  The workers of one process, and the
  ReplicaSets, are interchangeable (symmetry; the run has no liveness property).

- `Processes` of `Lifecycle`: 2, one that leads and one that follows it; a third could
  only wait for the lease as well.  One worker and one key in the queue (`MaxPending`):
  workers meet only in `wg.Wait`.  The starter's loop over the workers has an end
  to pass all the same, and `LifecycleProofs` has any number.  `MaxFaults` 2: a fault of
  each process, or a fault while the first one is dealt with.
- `Files` 4: the least with a diamond and a file beside it.  `Services` 2, in one
  file, in one that imports the other, or in neither.  `Retries` 1 for 15: a first, a
  second and a last attempt.  `Excludes`: one service, all, and one more than the server
  has.

The configurations switch deadlock checking off: workers without work wait, and a
crashed process may stay down where no fairness is assumed; `Lifecycle` can stop with
every process out of office; a query ends.

### Fairness

`MMSpec` and `Spec` assume

- weak fairness of every goroutine's next step, of the informers (`SyncReplicaSet`,
  `CleanupDeployment`), of the resync timer and of the garbage collector, and of
  the restart of a process that the runtime ended (Kubernetes restarts the
  container).  Users need not do anything, and faults need not happen; nor must a
  failed call succeed, but faults are finite in number (`MaxFaults`): convergence is
  claimed for when they end;
- strong fairness of `Get` per key, as the work queue is first in, first out, and of
  acquiring a mutex, as Go's `sync.Mutex` hands itself to a waiter that has starved
  for 1 ms.

`Lifecycle` assumes weak fairness of each process's elector, starter and workers, of tasks
whose context is cancelled, of `Restart` of a process that has ended, and of `Expire`; of
an action that may also fail only the way that does not (`faults' = faults`), so faults
may happen and never have to.  `Reflection` assumes that the query goes on: every call is
answered or fails.

## Proofs

The seven proof modules hold for any finite or infinite sets of threads, names, mutexes,
ReplicaSets, ports, callers, processes, workers, files and services, and any faults,
from the assumptions `MutexMapAssumption`, `OperatorAssumption`, `NoneAssumption`,
`UpsertAssumption`, `LifecycleAssumption` and `ReflectionAssumption` on the constants.
The two theorems of `RecordProofs` also need `OnePage` (the EnvoyFilters fit on one page
of the list call) and `NoAnswerLost`: finding 4, and the filter
without record, show what happens otherwise.

| Theorem | States |
|---|---|
| `MMTypeCorrect`, `TypeCorrect` (four times) | `TypeOK` of each module |
| `MutualExclusion` | at most one thread is past `Lock` of a name that was never removed |
| `TableShape` | `LockTable` |
| `FatalOnlyAfterRemove` | `OnlyRemovedNamesFatal` |
| `UnlocksArrive` | `NoLostUnlock` |
| `Refinement` of `MutexMapProofs` | `MutexMap` implements `NamedLock` |
| `QueueSerialises` | `OneWorkerPerReplicaSet` |
| `StaleSnapshotsAreRequeued` | `StaleSnapshotRequeued` |
| `UpdatesExclude` | `OneUpdateUnlessRemoved` |
| `WorkersWaitForWorkers` | `NoWorkerLost` |
| `NoLeftovers` | `NothingLeftBehind` |
| `FailuresHaveCauses` | `AloneSucceeds` |
| `TakenFromOutside` | `TakenByOtherProcess` |
| `Refinement` of `UpsertProofs` | `Upsert` implements `AtomicUpsert` |
| `RecordsMatchFilters`, `NeverRollsBack` | `RecordMatchesFilter`, `NoRollback` |
| `OneLiveLeader`, `WorkersAwaited`, `NobodyWaitsInVain` | `OneLeader`, `NoWorkerCutOff`, `NobodyStuck` |
| `NothingMissing`, `RulesForAllOffered` | `MapClosed`, `OfferedIsAnnotated` |
| `AnswerIsSorted` | `SortedAndComplete` |

The argument for the map: `LockTable` is not inductive alone.  `MMInv` adds that a
name not removed has one mutex in the table for as long as anybody waits for it or
holds it, that this mutex is locked exactly while it is held, and that two names
share none; then `Acquire` (the mutex is unlocked, so nobody holds the name) and
`Lock` (nothing stored, so nobody ever locked it) keep exclusion.  There is one
lemma per action of the map.

That no unlock is lost (`UnlocksArrive`) needs the other direction: `HolderInv` says that
a locked mutex in the table of a name not removed has a thread past `Lock` of that name.
`Unlock` loads the mutex from the table again instead of keeping the one that it locked,
and finds the same one because nothing but `Remove` takes it out; after a `Remove` the
sentence is false, which is what finding 1 leads to.

`OperatorProofs` uses these lemmas for the steps that
call the map and adds `WorkerInv`: a worker's `pc` agrees with its `stage` in the
map, it asked for the Deployment of its own key, and only its own `LockDeployment`
changes that; so two workers that update one Deployment are two threads past
`Lock` of one name, and with `HolderInv` a blocked worker waits for another that is busy
(`WorkersWaitForWorkers`).  That keys in `processing` are exactly the busy workers' keys
and that a changed ReplicaSet is put in `dirty` in the step that changes the cache
is inductive as stated.

The argument for the calls: `NothingLeftBehind` needs to know where each caller is
(`CallerInv`: only an operator with `useIngress` deals with an Ingress, a query has
nothing to get or update); then each step of a caller keeps all its deferred deletes
but the one it makes, and creating an object is what registers its delete.
`AloneSucceeds` needs that what a caller which nobody disturbed has seen is still so
(`AloneInv`: the object it is going to read exists, the version it read is current),
which holds because two callers busy with one Deployment are both excused
(`OverlapInv`), and callers of different Deployments share no object.
`TakenByOtherProcess` rests on two facts: an object goes only by a call to delete that very
object, whose name is the caller's ReplicaSet, and the work queue gives one ReplicaSet to one
worker of a process (`KeyInv`).  The refinement
adds that a caller has a result exactly when it makes its deferred calls
(`ResultInv`): a write to the EnvoyFilter then is the abstract effect, a return before
it the abstract failure, and everything else leaves filter, tasks and results alone.

The argument for the record (`RecordProofs`): a filter and its record are written in two
steps, so `RecordInv` says for each Deployment whose lock was not removed that the
record is right unless a worker is between the two, that such a worker's snapshot is
what the filter was made from, and that one about to write has a snapshot no older than
the filter.  All of it holds because at most one worker is past the lock (`Alone`, from
`UpdatesExclude`'s invariant); a new process is right from its first step because
`SyncActive` reads all filters (`WholePage`).

The argument for the life of a process: `IInv` says what one process looks like, in parts:
contexts are cancelled from the inside out (`ContextInv`); the elector has cancelled the
leader's context, or could not renew, once it is past renewing (`ElectorInv`); who has
`stopLock` is in `stop()` (`LockInv`); how far the starter is says whether there are workers
and keys (`StarterInv`); and (`StopInv`) a closed stopper means that either the starter
failed before it made any worker, or the elector is past `close`, so that, when `stop()`
returns to it, every worker has ended or will find no key.  `NobodyWaitsInVain` rests on the
same invariant: a starter that is done has shut the queue or never made a worker, and one that
waits for the stopper has it closed by whoever is in `stop()`; so the circle of starter,
`stop()`, workers and queue is always broken at the queue.  `LeaseInv`, that who renews is
the holder, ties the processes together.  Each step changes one process (`Steps`).

The argument for the query: what the stack still has to do covers what the map still lacks.
Every import of a file in the map is in the map, or left in the frame of that file, or the
file waits in `left` (its services' files, before their turn); an answer's files are still
to be stored.  `AddDependencies` and `NextFile` open a frame for each file they store,
`SkipImport` and `Return` drop only what is in the map, and `Again` empties everything at
once; so with an empty stack the map is closed.  Files of services are annotated because
a symbol's answer is stored, annotated, before any import is.

The argument for the sort (`SortProofs`): all that is stored or still asked for is needed
(`NeededInv`), as the closure of the services' files is the least set that is closed under
imports.  In `topoSort` each call still has its file in the map, and of the file's imports
only those it has still to look at and the one whose call it waits for are not in the result
yet (`CallInv`).  The calls form a path in the import graph, which has no circles, so no two
are for one file and none is for a file of the result; when a call moves its file, all its
imports are there, hence the result stays sorted, without repetition and closed (`OutInv`).
The services' files are in the result, under way, or left in the outermost loop (`HomeInv`):
at the end the result is closed and has them, so it is the whole closure.

Only model-checked: liveness (`Converges`, `WaiterServed`, `ShutdownEnds`,
`FormerLeaderRetires`, `SomebodyLeads`, `QueryEnds`), which is out of the prover's reach.
`NoLostUnlock` and `NobodyStuck` are the safety half of `WaiterServed` and of `ShutdownEnds`.

## Not modelled

- `filtersGauge`: no decision reads it.  It drifts from the number of filters (it counts
  down for a filter that is not found, and not for one that the garbage collector
  removed).
- `syncActive`'s own retries: in `Operator` a process that does not get past it is a
  `Restart`, in `Lifecycle` it is one step that succeeds or fails.
- Several Deployments in `Lifecycle`, and keys in general: `Operator` has them.
- A gRPC server that never answers, and the time that the retries sleep.
- Label selectors, names, ports' names, the Lua and transcoder text of the filter,
  logging, the HTTP endpoints for probes and metrics: formatting and I/O.
- The CLI, the polling test tools and the YAML: sequential, or static.
