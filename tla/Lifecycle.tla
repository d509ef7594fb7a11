----------------------------- MODULE Lifecycle -----------------------------
(***************************************************************************)
(* The life of operator processes: run and handleSignals                   *)
(* (cmd/transflect-operator/main.go), the auxiliary servers                *)
(* (auxservers.go), and start, startLeading, runWorkers and stop           *)
(* (operator.go).                                                          *)
(*                                                                         *)
(* A process is an errgroup of three kinds of tasks.  The operator's task  *)
(* campaigns for a lease; once it has it, a goroutine of its own, here the *)
(* starter, runs startLeading.  Elector and starter both call stop().      *)
(* What a worker does with a key is Operator's and Upsert's matter.        *)
(*                                                                         *)
(* client-go's LeaderElector, informers and work queue, and Kubernetes,    *)
(* which starts a process again that has ended, are external.  One thing   *)
(* about LeaderElector matters here: with ReleaseOnCancel it releases the  *)
(* lease first, then cancels the context that the workers use, and then    *)
(* calls OnStoppedLeading.                                                 *)
(***************************************************************************)
EXTENDS Naturals

CONSTANTS
    Processes,     \* the replicas of the operator's Deployment
    Workers,       \* the workers of a process
    None,          \* nobody has the lease
    Former,        \* a process that has ended has the lease
    Faults,        \* which of FaultKinds may happen
    MaxPending,    \* bound: keys in the queue of a process
    MaxFaults      \* bound: faults, together

\* SIGINT or SIGTERM; a server that cannot listen; all attempts of syncActive
\* fail; a renewal, or the release, of the lease fails; the process is killed.
FaultKinds == {"signal", "server", "sync", "renew", "release", "crash"}

ASSUME LifecycleAssumption ==
    /\ {None, Former} \cap Processes = {}
    /\ None # Former
    /\ Faults \subseteq FaultKinds
    /\ {MaxPending, MaxFaults} \subseteq Nat

VARIABLES
    lease,     \* who the Lease object names
    proc,      \* proc[p]: the process
    faults

vars == <<lease, proc, faults>>

-----------------------------------------------------------------------------
(* Processes *)

Tasks == {"server", "signals", "operator"}

\* The contexts of the errgroup, of start, and of the leader: each is derived
\* from the one before.
Contexts == {"group", "start", "lead"}

Process ==
    [tasks : SUBSET Tasks,             \* not yet returned
     cancelled : SUBSET Contexts,
     elector : {"campaign", "renew", "release", "cancel", "stop", "stopping",
                "done"},
     starter : {"none", "begin", "sync", "workers", "serve", "shutdown",
                "stop", "stopping", "cancel", "done"},
     err : BOOLEAN,                    \* err in start
     stopper : {"nil", "open", "closed"},
     stopLock : {"free", "elector", "starter"},
     worker : [Workers -> {"none", "idle", "busy", "done"}],
     queue : {"none", "open", "shut"},
     pending : 0..MaxPending,          \* keys in the queue
     expiring : BOOLEAN]               \* history: not renewed, not yet cancelled

NewProcess ==
    [tasks |-> Tasks, cancelled |-> {}, elector |-> "campaign",
     starter |-> "none", err |-> FALSE, stopper |-> "nil", stopLock |-> "free",
     worker |-> [w \in Workers |-> "none"], queue |-> "none", pending |-> 0,
     expiring |-> FALSE]

\* run returns once all tasks have; with it the process ends.
Running(p) == proc[p].tasks # {}

Live(p, ctx) == ctx \notin proc[p].cancelled

\* What wg counts.
AtWork(p) == {w \in Workers : proc[p].worker[w] \in {"idle", "busy"}}

TypeOK ==
    /\ lease \in Processes \cup {None, Former}
    /\ proc \in [Processes -> Process]
    /\ faults \in 0..MaxFaults

Init ==
    /\ lease = None
    /\ proc = [p \in Processes |-> NewProcess]
    /\ faults = 0

Fault(kind) ==
    /\ kind \in Faults
    /\ faults < MaxFaults
    /\ faults' = faults + 1

-----------------------------------------------------------------------------
(* The errgroup *)

\* A task returns; an error cancels the context of the group.
TaskEnds(p, t, failed) ==
    proc' = [proc EXCEPT ![p].tasks = @ \ {t},
                         ![p].cancelled = IF failed THEN Contexts ELSE @]

\* handleSignals returns errSignal, or a server its error.
TaskFails(p, t) ==
    /\ t \in proc[p].tasks
    /\ \/ t = "signals" /\ Fault("signal")
       \/ t = "server" /\ Fault("server")
    /\ TaskEnds(p, t, TRUE)
    /\ lease' = lease

\* handleSignals and the servers also watch the context.
TaskCancelled(p, t) ==
    /\ t \in proc[p].tasks \cap {"signals", "server"}
    /\ ~Live(p, "group")
    /\ TaskEnds(p, t, FALSE)
    /\ UNCHANGED <<lease, faults>>

\* The process has ended, or is killed; Kubernetes starts it again.  The new
\* one has a new identity, and the lease may still name the old one.
Restart(p) ==
    /\ (~Running(p) /\ faults' = faults) \/ Fault("crash")
    /\ proc' = [proc EXCEPT ![p] = NewProcess]
    /\ lease' = IF lease = p THEN Former ELSE lease

-----------------------------------------------------------------------------
(* stop(), called by the elector and by the starter *)

\* What elector and starter do next.
AfterStop == [elector |-> "done", starter |-> "cancel"]

\* Mutation: stop() does not wait for the workers.
StopUnawaited(p, x) ==
    /\ Running(p)
    /\ proc[p][x] = "stop"
    /\ proc[p].stopLock = "free"
    /\ proc' = [proc EXCEPT ![p].stopper = IF @ = "open" THEN "closed" ELSE @,
                            ![p][x] = AfterStop[x]]
    /\ UNCHANGED <<lease, faults>>

\* Up to wg.Wait.  A stopper that is closed already means there is nothing to
\* do, one that is not made yet that there is nothing to close.
Stop(p, x) ==
    /\ Running(p)
    /\ proc[p][x] = "stop"
    /\ proc[p].stopLock = "free"
    /\ IF proc[p].stopper = "closed"
       THEN proc' = [proc EXCEPT ![p][x] = AfterStop[x]]
       ELSE proc' = [proc EXCEPT
              ![p].stopLock = x,
              ![p].stopper = IF @ = "open" THEN "closed" ELSE @,
              ![p][x] = "stopping"]
    /\ UNCHANGED <<lease, faults>>

\* wg.Wait returns.
Stopped(p, x) ==
    /\ Running(p)
    /\ proc[p].stopLock = x
    /\ AtWork(p) = {}
    /\ proc' = [proc EXCEPT ![p].stopLock = "free", ![p][x] = AfterStop[x]]
    /\ UNCHANGED <<lease, faults>>

-----------------------------------------------------------------------------
(* The elector: the operator's task, start *)

\* LeaderElector.Run: it has the lease, and runs OnStartedLeading.
Acquire(p) ==
    /\ Running(p)
    /\ proc[p].elector = "campaign"
    /\ lease = None
    /\ Live(p, "start")
    /\ lease' = p
    /\ proc' = [proc EXCEPT ![p].elector = "renew", ![p].starter = "begin"]
    /\ faults' = faults

\* It never had the lease; OnStoppedLeading is called all the same.
GiveUp(p) ==
    /\ Running(p)
    /\ proc[p].elector = "campaign"
    /\ ~Live(p, "start")
    /\ proc' = [proc EXCEPT ![p].elector = "stop"]
    /\ UNCHANGED <<lease, faults>>

StopRenewing(p) ==
    /\ Running(p)
    /\ proc[p].elector = "renew"
    /\ \/ ~Live(p, "start") /\ faults' = faults
       \/ Fault("renew")
    /\ proc' = [proc EXCEPT ![p].elector = "release",
                            ![p].expiring = faults' # faults]
    /\ lease' = lease

\* The release has no effect when somebody else has the lease by then.
Release(p) ==
    /\ Running(p)
    /\ proc[p].elector = "release"
    /\ \/ /\ lease' = IF lease = p THEN None ELSE lease
          /\ faults' = faults
       \/ lease' = lease /\ Fault("release")
    /\ proc' = [proc EXCEPT ![p].elector = "cancel"]

\* Mutation: the workers use the context of start, not the leader's.
CancelNothing(p) ==
    /\ Running(p)
    /\ proc[p].elector = "cancel"
    /\ proc' = [proc EXCEPT ![p].elector = "stop", ![p].expiring = FALSE]
    /\ UNCHANGED <<lease, faults>>

\* Mutation: OnStoppedLeading does not call stop().
CancelLeadOnly(p) ==
    /\ Running(p)
    /\ proc[p].elector = "cancel"
    /\ proc' = [proc EXCEPT ![p].elector = "done", ![p].expiring = FALSE,
                            ![p].cancelled = @ \cup {"lead"}]
    /\ UNCHANGED <<lease, faults>>

\* Only now the leader's context is cancelled.
CancelLead(p) ==
    /\ Running(p)
    /\ proc[p].elector = "cancel"
    /\ proc' = [proc EXCEPT ![p].elector = "stop", ![p].expiring = FALSE,
                            ![p].cancelled = @ \cup {"lead"}]
    /\ UNCHANGED <<lease, faults>>

\* start returns err, which is set only if startLeading has failed by now.
Return(p) ==
    /\ "operator" \in proc[p].tasks
    /\ proc[p].elector = "done"
    /\ TaskEnds(p, "operator", proc[p].err)
    /\ UNCHANGED <<lease, faults>>

\* Nobody has renewed the lease for its LeaseDuration.  A process that renews
\* it gives up earlier, after RenewDeadline.
Expire ==
    /\ lease # None
    /\ lease \in Processes => proc[lease].elector # "renew"
    /\ lease' = None
    /\ UNCHANGED <<proc, faults>>

-----------------------------------------------------------------------------
(* The starter: OnStartedLeading *)

MakeStopper(p) ==
    /\ Running(p)
    /\ proc[p].starter = "begin"
    /\ proc' = [proc EXCEPT ![p].starter = "sync", ![p].stopper = "open"]
    /\ UNCHANGED <<lease, faults>>

\* syncActive, as one step.
SyncSucceeds(p) ==
    /\ Running(p)
    /\ proc[p].starter = "sync"
    /\ Live(p, "lead")
    /\ proc' = [proc EXCEPT ![p].starter = "workers", ![p].queue = "open"]
    /\ UNCHANGED <<lease, faults>>

SyncFails(p) ==
    /\ Running(p)
    /\ proc[p].starter = "sync"
    /\ (~Live(p, "lead") /\ faults' = faults) \/ Fault("sync")
    /\ proc' = [proc EXCEPT ![p].starter = "stop", ![p].err = TRUE]
    /\ lease' = lease

\* Mutation: the process keeps the lease although startLeading has failed.
StayAfterFailure(p) ==
    /\ Running(p)
    /\ proc[p].starter = "cancel"
    /\ proc' = [proc EXCEPT ![p].starter = "done"]
    /\ UNCHANGED <<lease, faults>>

CancelStart(p) ==
    /\ Running(p)
    /\ proc[p].starter = "cancel"
    /\ proc' = [proc EXCEPT ![p].starter = "done",
                            ![p].cancelled = @ \cup {"start", "lead"}]
    /\ UNCHANGED <<lease, faults>>

\* runWorkers.
StartWorker(p, w) ==
    /\ Running(p)
    /\ proc[p].starter = "workers"
    /\ proc[p].worker[w] = "none"
    /\ proc' = [proc EXCEPT ![p].worker[w] = "idle"]
    /\ UNCHANGED <<lease, faults>>

\* Informers that start with a closed stopper return at once.
StartInformers(p) ==
    /\ Running(p)
    /\ proc[p].starter = "workers"
    /\ \A w \in Workers : proc[p].worker[w] # "none"
    /\ proc' = [proc EXCEPT ![p].starter = IF proc[p].stopper = "open"
                                           THEN "serve" ELSE "shutdown"]
    /\ UNCHANGED <<lease, faults>>

\* Mutation: the queue stays open.
LeaveQueueOpen(p) ==
    /\ Running(p)
    /\ proc[p].starter \in {"serve", "shutdown"}
    /\ proc[p].stopper = "closed"
    /\ proc' = [proc EXCEPT ![p].starter = "done"]
    /\ UNCHANGED <<lease, faults>>

ShutDownQueue(p) ==
    /\ Running(p)
    /\ proc[p].starter \in {"serve", "shutdown"}
    /\ proc[p].stopper = "closed"
    /\ proc' = [proc EXCEPT ![p].starter = "done", ![p].queue = "shut"]
    /\ UNCHANGED <<lease, faults>>

-----------------------------------------------------------------------------
(* Informers and workers *)

\* An informer adds a key, perhaps a last one after the stopper was closed.
Deliver(p) ==
    /\ Running(p)
    /\ proc[p].starter = "serve"
    /\ proc[p].pending < MaxPending
    /\ proc' = [proc EXCEPT ![p].pending = @ + 1]
    /\ UNCHANGED <<lease, faults>>

\* Mutation: a worker does not wait for a key.
GetAnyhow(p, w) ==
    /\ Running(p)
    /\ proc[p].worker[w] = "idle"
    /\ proc' = [proc EXCEPT ![p].worker[w] = "busy", ![p].pending = @ - 1]
    /\ UNCHANGED <<lease, faults>>

Get(p, w) ==
    /\ Running(p)
    /\ proc[p].worker[w] = "idle"
    /\ proc[p].pending > 0
    /\ proc' = [proc EXCEPT ![p].worker[w] = "busy", ![p].pending = @ - 1]
    /\ UNCHANGED <<lease, faults>>

Finish(p, w) ==
    /\ Running(p)
    /\ proc[p].worker[w] = "busy"
    /\ proc' = [proc EXCEPT ![p].worker[w] = "idle"]
    /\ UNCHANGED <<lease, faults>>

\* A queue that is shut down is worked off first.
WorkerEnds(p, w) ==
    /\ Running(p)
    /\ proc[p].worker[w] = "idle"
    /\ proc[p].queue = "shut"
    /\ proc[p].pending = 0
    /\ proc' = [proc EXCEPT ![p].worker[w] = "done"]
    /\ UNCHANGED <<lease, faults>>

-----------------------------------------------------------------------------
Elect(p) ==
    \/ Acquire(p) \/ GiveUp(p) \/ StopRenewing(p) \/ Release(p)
    \/ CancelLead(p) \/ Stop(p, "elector") \/ Stopped(p, "elector")
    \/ Return(p)

StartLeading(p) ==
    \/ MakeStopper(p) \/ SyncSucceeds(p) \/ SyncFails(p)
    \/ Stop(p, "starter") \/ Stopped(p, "starter") \/ CancelStart(p)
    \/ \E w \in Workers : StartWorker(p, w)
    \/ StartInformers(p) \/ ShutDownQueue(p)

RunWorker(p, w) == Get(p, w) \/ Finish(p, w) \/ WorkerEnds(p, w)

Next ==
    \/ Expire
    \/ \E p \in Processes :
          \/ \E t \in Tasks : TaskFails(p, t) \/ TaskCancelled(p, t)
          \/ Restart(p) \/ Elect(p) \/ StartLeading(p) \/ Deliver(p)
          \/ \E w \in Workers : RunWorker(p, w)

\* Every goroutine goes on when it can, Kubernetes restarts what has ended, and
\* a lease that nobody renews expires.  No fault has to happen.
Fairness ==
    /\ WF_vars(Expire)
    /\ \A p \in Processes :
          /\ WF_vars(\E t \in Tasks : TaskCancelled(p, t))
          /\ WF_vars(~Running(p) /\ Restart(p))
          /\ WF_vars(Elect(p) /\ faults' = faults)
          /\ WF_vars(StartLeading(p) /\ faults' = faults)
          /\ \A w \in Workers : WF_vars(RunWorker(p, w))

Spec == Init /\ [][Next]_vars /\ Fairness

-----------------------------------------------------------------------------
(* Properties *)

\* A process works as the leader with a context that nobody has cancelled.
Leads(p) ==
    /\ Running(p)
    /\ proc[p].starter \notin {"none", "done"}
    /\ Live(p, "lead")

\* Two processes never work for the cluster with a live context at once, but
\* for one that could not renew its lease, between the end of the lease and the
\* cancellation of the context: LeaderElector releases first and cancels then.
\* (The work itself may overlap: stop() comes after the release.)
OneLeader ==
    \A p, q \in Processes :
        Leads(p) /\ Leads(q) => p = q \/ proc[p].expiring \/ proc[q].expiring

\* run returns, and the process ends, when no worker is in the middle of a key:
\* stop() waits for all it can have missed, at whatever point of startLeading
\* it is called, and by whom.
NoWorkerCutOff ==
    \A p \in Processes, w \in Workers : ~Running(p) => proc[p].worker[w] # "busy"

\* A worker that has a key, can have one, or is told to end.
CanGoOn(p, w) ==
    \/ proc[p].worker[w] = "busy"
    \/ /\ proc[p].worker[w] = "idle"
       /\ proc[p].pending > 0 \/ proc[p].queue = "shut"

\* Whenever stop() is called, it does not wait in vain: while there are workers
\* and the stopper is closed, or somebody is in stop(), one of the workers can go
\* on, or startLeading can and will shut down the queue, for which they wait.
NobodyStuck ==
    \A p \in Processes :
        /\ Running(p)
        /\ proc[p].stopper = "closed" \/ proc[p].stopLock # "free"
        /\ AtWork(p) # {}
        => \/ \E w \in AtWork(p) : CanGoOn(p, w)
           \/ proc[p].starter = "workers"
           \/ proc[p].starter \in {"serve", "shutdown"} /\ proc[p].stopper = "closed"

\* A signal, or the failure of any task, ends the process: nobody waits for
\* ever for stopLock, the stopper, the WaitGroup or the queue.
ShutdownEnds ==
    \A p \in Processes : ~Live(p, "group") ~> ~Running(p) \/ Live(p, "group")

\* A process that leads no longer has no workers in the end, also if it lives
\* on, and whenever stop() was called.
Retired(p) == AtWork(p) = {} /\ proc[p].starter \in {"none", "done"}

FormerLeaderRetires ==
    \A p \in Processes :
        ~Live(p, "lead") ~> Retired(p) \/ ~Running(p) \/ Live(p, "lead")

\* start has returned without an error: the process lives, and does nothing.
OutOfOffice(p) ==
    /\ "operator" \notin proc[p].tasks
    /\ Live(p, "group")

\* Whatever fails, some process works for the cluster again, unless every one of
\* them lost a lease and lives on without campaigning, which start does when its
\* LeaderElector returns.
SomebodyLeads ==
    []<>(\/ \E p \in Processes : Leads(p) /\ proc[p].starter = "serve"
         \/ \A p \in Processes : OutOfOffice(p))

=============================================================================
