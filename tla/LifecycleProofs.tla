--------------------------- MODULE LifecycleProofs ---------------------------
(***************************************************************************)
(* Proofs about Lifecycle, for any processes, workers and faults.          *)
(***************************************************************************)
EXTENDS Lifecycle, TLAPS

-----------------------------------------------------------------------------
(* The inductive invariant: what one process is like *)

Only(r, state) == \A w \in Workers : r.worker[w] = state

Started(r) == \A w \in Workers : r.worker[w] # "none"

Unused(r) == Only(r, "none") /\ r.pending = 0

\* Contexts are cancelled from the inside out.
ContextInv(r) ==
    /\ "group" \in r.cancelled => "start" \in r.cancelled
    /\ "start" \in r.cancelled => "lead" \in r.cancelled

\* The elector: it starts startLeading once, and has cancelled its context when
\* it calls stop().
ElectorInv(r) ==
    /\ r.elector = "campaign" => r.starter = "none"
    /\ r.elector \in {"release", "cancel"} => "lead" \in r.cancelled \/ r.expiring
    /\ r.elector \in {"stop", "stopping", "done"} =>
           r.starter = "none" \/ "lead" \in r.cancelled
    /\ "operator" \notin r.tasks => r.elector = "done"

\* Who has stopLock is in stop().
LockInv(r) ==
    /\ r.stopLock = "elector" => r.elector = "stopping"
    /\ r.stopLock = "starter" => r.starter = "stopping"

\* The starter: how far it is says whether there are workers and keys.
StarterInv(r) ==
    /\ r.starter \in {"none", "begin"} <=> r.stopper = "nil"
    /\ r.starter \in {"none", "begin", "sync", "stop", "stopping", "cancel"} =>
           Unused(r)
    /\ r.starter \in {"workers", "shutdown"} => r.pending = 0
    /\ r.starter \in {"serve", "shutdown"} => Started(r)
    /\ r.starter = "done" => Unused(r) \/ (Started(r) /\ r.queue = "shut")

\* The stopper is closed by a starter that failed, without any workers, or by the
\* elector; after that no informer starts, and when the elector has returned
\* from stop() all workers have ended or will not get a key.
StopInv(r) ==
    /\ r.stopper = "closed" /\ r.elector \notin {"stopping", "done"} =>
           r.starter \in {"stopping", "cancel", "done"} /\ Unused(r)
    /\ r.elector \in {"stopping", "done"}
         /\ r.starter \in {"workers", "serve", "shutdown"} => r.stopper = "closed"
    /\ r.elector = "done" =>
           \/ Only(r, "done")
           \/ /\ r.starter # "serve"
              /\ r.pending = 0
              /\ \A w \in Workers : r.worker[w] # "busy"

ProcessInv(r) ==
    /\ r \in Process
    /\ ContextInv(r) /\ ElectorInv(r) /\ LockInv(r) /\ StarterInv(r) /\ StopInv(r)

\* Who renews the lease has it.
LeaseInv == \A p \in Processes : proc[p].elector = "renew" => lease = p

IInv ==
    /\ TypeOK
    /\ \A p \in Processes : ProcessInv(proc[p])
    /\ LeaseInv

-----------------------------------------------------------------------------
(* The steps of a process *)

\* A step of one process leaves the others alone.
Steps(p) == proc' = [proc EXCEPT ![p] = proc'[p]] /\ ProcessInv(proc'[p])

\* The tasks of the errgroup end.
LEMMA TaskSteps ==
    ASSUME NEW p \in Processes, IInv,
           \/ \E t \in Tasks : TaskFails(p, t)
           \/ \E t \in Tasks : TaskCancelled(p, t)
           \/ Restart(p)
    PROVE  Steps(p)
<1>0. proc \in [Processes -> Process] /\ ProcessInv(proc[p])
  BY DEF IInv, TypeOK
<1>1. CASE \E t \in Tasks : TaskFails(p, t)
  <2> DEFINE r == proc[p]
             s == proc'[p]
  <2>0. PICK t \in Tasks : TaskFails(p, t)
    BY <1>1
  <2>1. s = [r EXCEPT !.tasks = @ \ {t}, !.cancelled = Contexts]
    BY <1>0, <2>0 DEF TaskFails, TaskEnds
  <2>2. proc' = [proc EXCEPT ![p] = s]
    BY <1>0, <2>0 DEF TaskFails, TaskEnds
  <2>3. t \in {"server", "signals"}
    BY <1>0, <2>0 DEF TaskFails, TaskEnds
  <2>4. ProcessInv(r)
    BY <1>0
  <2> HIDE DEF r, s
  <2>5. s \in Process
    BY <2>1, <2>3, <2>4 DEF ProcessInv, Process, Contexts, Tasks
  <2>6. ContextInv(s) /\ ElectorInv(s) /\ LockInv(s)
    BY <2>1, <2>3, <2>4 DEF ProcessInv, Process, Contexts, ContextInv, ElectorInv,
       LockInv
  <2>7. StarterInv(s)
    BY <2>1, <2>3, <2>4 DEF ProcessInv, Process, StarterInv,
       Unused, Only, Started
  <2>8. StopInv(s)
    BY <2>1, <2>3, <2>4 DEF ProcessInv, Process, StarterInv, StopInv, ElectorInv,
       LockInv, Unused, Only, Started
  <2> QED
    BY <2>2, <2>5, <2>6, <2>7, <2>8 DEF Steps, ProcessInv, s
<1>2. CASE \E t \in Tasks : TaskCancelled(p, t)
  <2> DEFINE r == proc[p]
             s == proc'[p]
  <2>0. PICK t \in Tasks : TaskCancelled(p, t)
    BY <1>2
  <2>1. s = [r EXCEPT !.tasks = @ \ {t}]
    BY <1>0, <2>0 DEF TaskCancelled, TaskEnds
  <2>2. proc' = [proc EXCEPT ![p] = s]
    BY <1>0, <2>0 DEF TaskCancelled, TaskEnds
  <2>3. t \in {"server", "signals"}
    BY <1>0, <2>0 DEF TaskCancelled, TaskEnds
  <2>4. ProcessInv(r)
    BY <1>0
  <2> HIDE DEF r, s
  <2>5. s \in Process
    BY <2>1, <2>3, <2>4 DEF ProcessInv, Process, Contexts, Tasks
  <2>6. ContextInv(s) /\ ElectorInv(s) /\ LockInv(s)
    BY <2>1, <2>3, <2>4 DEF ProcessInv, Process, Contexts, ContextInv, ElectorInv,
       LockInv
  <2>7. StarterInv(s)
    BY <2>1, <2>3, <2>4 DEF ProcessInv, Process, StarterInv,
       Unused, Only, Started
  <2>8. StopInv(s)
    BY <2>1, <2>3, <2>4 DEF ProcessInv, Process, StarterInv, StopInv, ElectorInv,
       LockInv, Unused, Only, Started
  <2> QED
    BY <2>2, <2>5, <2>6, <2>7, <2>8 DEF Steps, ProcessInv, s
<1>3. CASE Restart(p)
  <2> DEFINE r == proc[p]
             s == proc'[p]
  <2>1. s = NewProcess
    BY <1>0, <1>3 DEF Restart
  <2>2. proc' = [proc EXCEPT ![p] = s]
    BY <1>0, <1>3 DEF Restart
  <2>3. TRUE
    BY <1>0, <1>3 DEF Restart
  <2>4. ProcessInv(r)
    BY <1>0
  <2> HIDE DEF r, s
  <2>5. s \in Process
    BY <2>1, <2>3, <2>4, LifecycleAssumption DEF ProcessInv, Process, Contexts, Tasks, NewProcess
  <2>6. ContextInv(s) /\ ElectorInv(s) /\ LockInv(s)
    BY <2>1, <2>3, <2>4 DEF ProcessInv, Process, Contexts, ContextInv, ElectorInv,
       LockInv, NewProcess, Tasks
  <2>7. StarterInv(s)
    BY <2>1, <2>3, <2>4 DEF ProcessInv, Process, StarterInv,
       Unused, Only, Started, NewProcess, Tasks
  <2>8. StopInv(s)
    BY <2>1, <2>3, <2>4 DEF ProcessInv, Process, StarterInv, StopInv, ElectorInv,
       LockInv, Unused, Only, Started, NewProcess, Tasks
  <2> QED
    BY <2>2, <2>5, <2>6, <2>7, <2>8 DEF Steps, ProcessInv, s
<1> QED
  BY <1>1, <1>2, <1>3

\* The elector.
LEMMA ElectorSteps ==
    ASSUME NEW p \in Processes, IInv,
           \/ Acquire(p)
           \/ GiveUp(p)
           \/ StopRenewing(p)
           \/ Release(p)
           \/ CancelLead(p)
           \/ Return(p)
    PROVE  Steps(p)
<1>0. proc \in [Processes -> Process] /\ ProcessInv(proc[p])
  BY DEF IInv, TypeOK
<1>1. CASE Acquire(p)
  <2> DEFINE r == proc[p]
             s == proc'[p]
  <2>1. s = [r EXCEPT !.elector = "renew", !.starter = "begin"]
    BY <1>0, <1>1 DEF Acquire
  <2>2. proc' = [proc EXCEPT ![p] = s]
    BY <1>0, <1>1 DEF Acquire
  <2>3. r.elector = "campaign"
    BY <1>0, <1>1 DEF Acquire
  <2>4. ProcessInv(r)
    BY <1>0
  <2> HIDE DEF r, s
  <2>5. s \in Process
    BY <2>1, <2>3, <2>4 DEF ProcessInv, Process, Contexts, Tasks
  <2>6. ContextInv(s) /\ ElectorInv(s) /\ LockInv(s)
    BY <2>1, <2>3, <2>4 DEF ProcessInv, Process, Contexts, ContextInv, ElectorInv,
       LockInv
  <2>7. StarterInv(s)
    BY <2>1, <2>3, <2>4 DEF ProcessInv, Process, ElectorInv, StarterInv,
       Unused, Only, Started
  <2>8. StopInv(s)
    BY <2>1, <2>3, <2>4 DEF ProcessInv, Process, StarterInv, StopInv, ElectorInv,
       LockInv, Unused, Only, Started
  <2> QED
    BY <2>2, <2>5, <2>6, <2>7, <2>8 DEF Steps, ProcessInv, s
<1>2. CASE GiveUp(p)
  <2> DEFINE r == proc[p]
             s == proc'[p]
  <2>1. s = [r EXCEPT !.elector = "stop"]
    BY <1>0, <1>2 DEF GiveUp
  <2>2. proc' = [proc EXCEPT ![p] = s]
    BY <1>0, <1>2 DEF GiveUp
  <2>3. r.elector = "campaign"
    BY <1>0, <1>2 DEF GiveUp
  <2>4. ProcessInv(r)
    BY <1>0
  <2> HIDE DEF r, s
  <2>5. s \in Process
    BY <2>1, <2>3, <2>4 DEF ProcessInv, Process, Contexts, Tasks
  <2>6. ContextInv(s) /\ ElectorInv(s) /\ LockInv(s)
    BY <2>1, <2>3, <2>4 DEF ProcessInv, Process, Contexts, ContextInv, ElectorInv,
       LockInv
  <2>7. StarterInv(s)
    BY <2>1, <2>3, <2>4 DEF ProcessInv, Process, StarterInv,
       Unused, Only, Started
  <2>8. StopInv(s)
    BY <2>1, <2>3, <2>4 DEF ProcessInv, Process, StarterInv, StopInv, ElectorInv,
       LockInv, Unused, Only, Started
  <2> QED
    BY <2>2, <2>5, <2>6, <2>7, <2>8 DEF Steps, ProcessInv, s
<1>3. CASE StopRenewing(p)
  <2> DEFINE r == proc[p]
             s == proc'[p]
  <2>1. s = [r EXCEPT !.elector = "release", !.expiring = (faults' # faults)]
    BY <1>0, <1>3 DEF StopRenewing
  <2>2. proc' = [proc EXCEPT ![p] = s]
    BY <1>0, <1>3 DEF StopRenewing
  <2>3. r.elector = "renew" /\ ("start" \in r.cancelled \/ faults' # faults)
    BY <1>0, <1>3, LifecycleAssumption DEF StopRenewing, Live, Fault, IInv, TypeOK
  <2>4. ProcessInv(r)
    BY <1>0
  <2> HIDE DEF r, s
  <2>5. s \in Process
    BY <2>1, <2>3, <2>4 DEF ProcessInv, Process, Contexts, Tasks
  <2>6. ContextInv(s) /\ ElectorInv(s) /\ LockInv(s)
    BY <2>1, <2>3, <2>4 DEF ProcessInv, Process, Contexts, ContextInv, ElectorInv,
       LockInv
  <2>7. StarterInv(s)
    BY <2>1, <2>3, <2>4 DEF ProcessInv, Process, StarterInv,
       Unused, Only, Started
  <2>8. StopInv(s)
    BY <2>1, <2>3, <2>4 DEF ProcessInv, Process, StarterInv, StopInv, ElectorInv,
       LockInv, Unused, Only, Started
  <2> QED
    BY <2>2, <2>5, <2>6, <2>7, <2>8 DEF Steps, ProcessInv, s
<1>4. CASE Release(p)
  <2> DEFINE r == proc[p]
             s == proc'[p]
  <2>1. s = [r EXCEPT !.elector = "cancel"]
    BY <1>0, <1>4 DEF Release
  <2>2. proc' = [proc EXCEPT ![p] = s]
    BY <1>0, <1>4 DEF Release
  <2>3. r.elector = "release"
    BY <1>0, <1>4 DEF Release
  <2>4. ProcessInv(r)
    BY <1>0
  <2> HIDE DEF r, s
  <2>5. s \in Process
    BY <2>1, <2>3, <2>4 DEF ProcessInv, Process, Contexts, Tasks
  <2>6. ContextInv(s) /\ ElectorInv(s) /\ LockInv(s)
    BY <2>1, <2>3, <2>4 DEF ProcessInv, Process, Contexts, ContextInv, ElectorInv,
       LockInv
  <2>7. StarterInv(s)
    BY <2>1, <2>3, <2>4 DEF ProcessInv, Process, StarterInv,
       Unused, Only, Started
  <2>8. StopInv(s)
    BY <2>1, <2>3, <2>4 DEF ProcessInv, Process, StarterInv, StopInv, ElectorInv,
       LockInv, Unused, Only, Started
  <2> QED
    BY <2>2, <2>5, <2>6, <2>7, <2>8 DEF Steps, ProcessInv, s
<1>5. CASE CancelLead(p)
  <2> DEFINE r == proc[p]
             s == proc'[p]
  <2>1. s = [r EXCEPT !.elector = "stop", !.expiring = FALSE,
                       !.cancelled = @ \cup {"lead"}]
    BY <1>0, <1>5 DEF CancelLead
  <2>2. proc' = [proc EXCEPT ![p] = s]
    BY <1>0, <1>5 DEF CancelLead
  <2>3. r.elector = "cancel"
    BY <1>0, <1>5 DEF CancelLead
  <2>4. ProcessInv(r)
    BY <1>0
  <2> HIDE DEF r, s
  <2>5. s \in Process
    BY <2>1, <2>3, <2>4 DEF ProcessInv, Process, Contexts, Tasks
  <2>6. ContextInv(s) /\ ElectorInv(s) /\ LockInv(s)
    BY <2>1, <2>3, <2>4 DEF ProcessInv, Process, Contexts, ContextInv, ElectorInv,
       LockInv
  <2>7. StarterInv(s)
    BY <2>1, <2>3, <2>4 DEF ProcessInv, Process, StarterInv,
       Unused, Only, Started
  <2>8. StopInv(s)
    BY <2>1, <2>3, <2>4 DEF ProcessInv, Process, StarterInv, StopInv, ElectorInv,
       LockInv, Unused, Only, Started
  <2> QED
    BY <2>2, <2>5, <2>6, <2>7, <2>8 DEF Steps, ProcessInv, s
<1>6. CASE Return(p)
  <2> DEFINE r == proc[p]
             s == proc'[p]
  <2>1. s = [r EXCEPT !.tasks = @ \ {"operator"},
                       !.cancelled = IF r.err THEN Contexts ELSE @]
    BY <1>0, <1>6 DEF Return, TaskEnds
  <2>2. proc' = [proc EXCEPT ![p] = s]
    BY <1>0, <1>6 DEF Return, TaskEnds
  <2>3. r.elector = "done"
    BY <1>0, <1>6 DEF Return, TaskEnds
  <2>4. ProcessInv(r)
    BY <1>0
  <2> HIDE DEF r, s
  <2>5. s \in Process
    BY <2>1, <2>3, <2>4 DEF ProcessInv, Process, Contexts, Tasks
  <2>6. ContextInv(s) /\ ElectorInv(s) /\ LockInv(s)
    BY <2>1, <2>3, <2>4 DEF ProcessInv, Process, Contexts, ContextInv, ElectorInv,
       LockInv
  <2>7. StarterInv(s)
    BY <2>1, <2>3, <2>4 DEF ProcessInv, Process, StarterInv,
       Unused, Only, Started
  <2>8. StopInv(s)
    BY <2>1, <2>3, <2>4 DEF ProcessInv, Process, StarterInv, StopInv, ElectorInv,
       LockInv, Unused, Only, Started
  <2> QED
    BY <2>2, <2>5, <2>6, <2>7, <2>8 DEF Steps, ProcessInv, s
<1> QED
  BY <1>1, <1>2, <1>3, <1>4, <1>5, <1>6

\* stop().
LEMMA StopSteps ==
    ASSUME NEW p \in Processes, IInv,
           \/ Stop(p, "elector")
           \/ Stopped(p, "elector")
           \/ Stop(p, "starter")
           \/ Stopped(p, "starter")
    PROVE  Steps(p)
<1>0. proc \in [Processes -> Process] /\ ProcessInv(proc[p])
  BY DEF IInv, TypeOK
<1>1. CASE Stop(p, "elector") /\ proc[p].stopper = "closed"
  <2> DEFINE r == proc[p]
             s == proc'[p]
  <2>1. s = [r EXCEPT !.elector = "done"]
    BY <1>0, <1>1 DEF Stop, AfterStop
  <2>2. proc' = [proc EXCEPT ![p] = s]
    BY <1>0, <1>1 DEF Stop, AfterStop
  <2>3. r.elector = "stop" /\ r.stopper = "closed"
    BY <1>0, <1>1 DEF Stop, AfterStop
  <2>4. ProcessInv(r)
    BY <1>0
  <2> HIDE DEF r, s
  <2>5. s \in Process
    BY <2>1, <2>3, <2>4 DEF ProcessInv, Process, Contexts, Tasks
  <2>6. ContextInv(s) /\ ElectorInv(s) /\ LockInv(s)
    BY <2>1, <2>3, <2>4 DEF ProcessInv, Process, Contexts, ContextInv, ElectorInv,
       LockInv
  <2>7. StarterInv(s)
    BY <2>1, <2>3, <2>4 DEF ProcessInv, Process, StarterInv,
       Unused, Only, Started
  <2>8. StopInv(s)
    BY <2>1, <2>3, <2>4 DEF ProcessInv, Process, StarterInv, StopInv, ElectorInv,
       LockInv, Unused, Only, Started
  <2> QED
    BY <2>2, <2>5, <2>6, <2>7, <2>8 DEF Steps, ProcessInv, s
<1>2. CASE Stop(p, "elector") /\ proc[p].stopper # "closed"
  <2> DEFINE r == proc[p]
             s == proc'[p]
  <2>1. s = [r EXCEPT !.stopLock = "elector",
                       !.stopper = IF @ = "open" THEN "closed" ELSE @,
                       !.elector = "stopping"]
    BY <1>0, <1>2 DEF Stop, AfterStop
  <2>2. proc' = [proc EXCEPT ![p] = s]
    BY <1>0, <1>2 DEF Stop, AfterStop
  <2>3. r.elector = "stop" /\ r.stopLock = "free" /\ r.stopper # "closed"
    BY <1>0, <1>2 DEF Stop, AfterStop
  <2>4. ProcessInv(r)
    BY <1>0
  <2> HIDE DEF r, s
  <2>5. s \in Process
    BY <2>1, <2>3, <2>4 DEF ProcessInv, Process, Contexts, Tasks
  <2>6. ContextInv(s) /\ ElectorInv(s) /\ LockInv(s)
    BY <2>1, <2>3, <2>4 DEF ProcessInv, Process, Contexts, ContextInv, ElectorInv,
       LockInv
  <2>7. StarterInv(s)
    BY <2>1, <2>3, <2>4 DEF ProcessInv, Process, StarterInv,
       Unused, Only, Started
  <2>8. StopInv(s)
    BY <2>1, <2>3, <2>4 DEF ProcessInv, Process, StarterInv, StopInv, ElectorInv,
       LockInv, Unused, Only, Started
  <2> QED
    BY <2>2, <2>5, <2>6, <2>7, <2>8 DEF Steps, ProcessInv, s
<1>3. CASE Stopped(p, "elector")
  <2> DEFINE r == proc[p]
             s == proc'[p]
  <2>1. s = [r EXCEPT !.stopLock = "free", !.elector = "done"]
    BY <1>0, <1>3 DEF Stopped, AfterStop
  <2>2. proc' = [proc EXCEPT ![p] = s]
    BY <1>0, <1>3 DEF Stopped, AfterStop
  <2>3. /\ r.stopLock = "elector"
        /\ \A w \in Workers : r.worker[w] \notin {"idle", "busy"}
    BY <1>0, <1>3 DEF Stopped, AfterStop, AtWork
  <2>4. ProcessInv(r)
    BY <1>0
  <2> HIDE DEF r, s
  <2>5. s \in Process
    BY <2>1, <2>3, <2>4 DEF ProcessInv, Process, Contexts, Tasks
  <2>6. ContextInv(s) /\ ElectorInv(s) /\ LockInv(s)
    BY <2>1, <2>3, <2>4 DEF ProcessInv, Process, Contexts, ContextInv, ElectorInv,
       LockInv
  <2>7. StarterInv(s)
    BY <2>1, <2>3, <2>4 DEF ProcessInv, Process, LockInv, StarterInv,
       Unused, Only, Started
  <2>8. StopInv(s)
    BY <2>1, <2>3, <2>4 DEF ProcessInv, Process, StarterInv, StopInv, ElectorInv,
       LockInv, Unused, Only, Started
  <2> QED
    BY <2>2, <2>5, <2>6, <2>7, <2>8 DEF Steps, ProcessInv, s
<1>4. CASE Stop(p, "starter") /\ proc[p].stopper = "closed"
  <2> DEFINE r == proc[p]
             s == proc'[p]
  <2>1. s = [r EXCEPT !.starter = "cancel"]
    BY <1>0, <1>4 DEF Stop, AfterStop
  <2>2. proc' = [proc EXCEPT ![p] = s]
    BY <1>0, <1>4 DEF Stop, AfterStop
  <2>3. r.starter = "stop" /\ r.stopper = "closed"
    BY <1>0, <1>4 DEF Stop, AfterStop
  <2>4. ProcessInv(r)
    BY <1>0
  <2> HIDE DEF r, s
  <2>5. s \in Process
    BY <2>1, <2>3, <2>4 DEF ProcessInv, Process, Contexts, Tasks
  <2>6. ContextInv(s) /\ ElectorInv(s) /\ LockInv(s)
    BY <2>1, <2>3, <2>4 DEF ProcessInv, Process, Contexts, ContextInv, ElectorInv,
       LockInv
  <2>7. StarterInv(s)
    BY <2>1, <2>3, <2>4 DEF ProcessInv, Process, StarterInv,
       Unused, Only, Started
  <2>8. StopInv(s)
    BY <2>1, <2>3, <2>4 DEF ProcessInv, Process, StarterInv, StopInv, ElectorInv,
       LockInv, Unused, Only, Started
  <2> QED
    BY <2>2, <2>5, <2>6, <2>7, <2>8 DEF Steps, ProcessInv, s
<1>5. CASE Stop(p, "starter") /\ proc[p].stopper # "closed"
  <2> DEFINE r == proc[p]
             s == proc'[p]
  <2>1. s = [r EXCEPT !.stopLock = "starter",
                       !.stopper = IF @ = "open" THEN "closed" ELSE @,
                       !.starter = "stopping"]
    BY <1>0, <1>5 DEF Stop, AfterStop
  <2>2. proc' = [proc EXCEPT ![p] = s]
    BY <1>0, <1>5 DEF Stop, AfterStop
  <2>3. r.starter = "stop" /\ r.stopLock = "free" /\ r.stopper # "closed"
    BY <1>0, <1>5 DEF Stop, AfterStop
  <2>4. ProcessInv(r)
    BY <1>0
  <2> HIDE DEF r, s
  <2>5. s \in Process
    BY <2>1, <2>3, <2>4 DEF ProcessInv, Process, Contexts, Tasks
  <2>6. ContextInv(s) /\ ElectorInv(s) /\ LockInv(s)
    BY <2>1, <2>3, <2>4 DEF ProcessInv, Process, Contexts, ContextInv, ElectorInv,
       LockInv
  <2>7. StarterInv(s)
    BY <2>1, <2>3, <2>4 DEF ProcessInv, Process, StarterInv,
       Unused, Only, Started
  <2>8. StopInv(s)
    BY <2>1, <2>3, <2>4 DEF ProcessInv, Process, StarterInv, StopInv, ElectorInv,
       LockInv, Unused, Only, Started
  <2> QED
    BY <2>2, <2>5, <2>6, <2>7, <2>8 DEF Steps, ProcessInv, s
<1>6. CASE Stopped(p, "starter")
  <2> DEFINE r == proc[p]
             s == proc'[p]
  <2>1. s = [r EXCEPT !.stopLock = "free", !.starter = "cancel"]
    BY <1>0, <1>6 DEF Stopped, AfterStop
  <2>2. proc' = [proc EXCEPT ![p] = s]
    BY <1>0, <1>6 DEF Stopped, AfterStop
  <2>3. /\ r.stopLock = "starter"
        /\ \A w \in Workers : r.worker[w] \notin {"idle", "busy"}
    BY <1>0, <1>6 DEF Stopped, AfterStop, AtWork
  <2>4. ProcessInv(r)
    BY <1>0
  <2> HIDE DEF r, s
  <2>5. s \in Process
    BY <2>1, <2>3, <2>4 DEF ProcessInv, Process, Contexts, Tasks
  <2>6. ContextInv(s) /\ ElectorInv(s) /\ LockInv(s)
    BY <2>1, <2>3, <2>4 DEF ProcessInv, Process, Contexts, ContextInv, ElectorInv,
       LockInv
  <2>7. StarterInv(s)
    BY <2>1, <2>3, <2>4 DEF ProcessInv, Process, LockInv, StarterInv,
       Unused, Only, Started
  <2>8. StopInv(s)
    BY <2>1, <2>3, <2>4 DEF ProcessInv, Process, StarterInv, StopInv, ElectorInv,
       LockInv, Unused, Only, Started
  <2> QED
    BY <2>2, <2>5, <2>6, <2>7, <2>8 DEF Steps, ProcessInv, s
<1> QED
  BY <1>1, <1>2, <1>3, <1>4, <1>5, <1>6

\* The starter.
LEMMA StarterSteps ==
    ASSUME NEW p \in Processes, IInv,
           \/ MakeStopper(p)
           \/ SyncSucceeds(p)
           \/ SyncFails(p)
           \/ CancelStart(p)
           \/ \E w \in Workers : StartWorker(p, w)
           \/ StartInformers(p)
           \/ ShutDownQueue(p)
    PROVE  Steps(p)
<1>0. proc \in [Processes -> Process] /\ ProcessInv(proc[p])
  BY DEF IInv, TypeOK
<1>1. CASE MakeStopper(p)
  <2> DEFINE r == proc[p]
             s == proc'[p]
  <2>1. s = [r EXCEPT !.starter = "sync", !.stopper = "open"]
    BY <1>0, <1>1 DEF MakeStopper
  <2>2. proc' = [proc EXCEPT ![p] = s]
    BY <1>0, <1>1 DEF MakeStopper
  <2>3. r.starter = "begin"
    BY <1>0, <1>1 DEF MakeStopper
  <2>4. ProcessInv(r)
    BY <1>0
  <2> HIDE DEF r, s
  <2>5. s \in Process
    BY <2>1, <2>3, <2>4 DEF ProcessInv, Process, Contexts, Tasks
  <2>6. ContextInv(s) /\ ElectorInv(s) /\ LockInv(s)
    BY <2>1, <2>3, <2>4 DEF ProcessInv, Process, Contexts, ContextInv, ElectorInv,
       LockInv
  <2>7. StarterInv(s)
    BY <2>1, <2>3, <2>4 DEF ProcessInv, Process, StarterInv,
       Unused, Only, Started
  <2>8. StopInv(s)
    BY <2>1, <2>3, <2>4 DEF ProcessInv, Process, StarterInv, StopInv, ElectorInv,
       LockInv, Unused, Only, Started
  <2> QED
    BY <2>2, <2>5, <2>6, <2>7, <2>8 DEF Steps, ProcessInv, s
<1>2. CASE SyncSucceeds(p)
  <2> DEFINE r == proc[p]
             s == proc'[p]
  <2>1. s = [r EXCEPT !.starter = "workers", !.queue = "open"]
    BY <1>0, <1>2 DEF SyncSucceeds
  <2>2. proc' = [proc EXCEPT ![p] = s]
    BY <1>0, <1>2 DEF SyncSucceeds
  <2>3. r.starter = "sync" /\ "lead" \notin r.cancelled
    BY <1>0, <1>2 DEF SyncSucceeds, Live
  <2>4. ProcessInv(r)
    BY <1>0
  <2> HIDE DEF r, s
  <2>5. s \in Process
    BY <2>1, <2>3, <2>4 DEF ProcessInv, Process, Contexts, Tasks
  <2>6. ContextInv(s) /\ ElectorInv(s) /\ LockInv(s)
    BY <2>1, <2>3, <2>4 DEF ProcessInv, Process, Contexts, ContextInv, ElectorInv,
       LockInv
  <2>7. StarterInv(s)
    BY <2>1, <2>3, <2>4 DEF ProcessInv, Process, StarterInv,
       Unused, Only, Started
  <2>8. StopInv(s)
    BY <2>1, <2>3, <2>4 DEF ProcessInv, Process, StarterInv, StopInv, ElectorInv,
       LockInv, Unused, Only, Started
  <2> QED
    BY <2>2, <2>5, <2>6, <2>7, <2>8 DEF Steps, ProcessInv, s
<1>3. CASE SyncFails(p)
  <2> DEFINE r == proc[p]
             s == proc'[p]
  <2>1. s = [r EXCEPT !.starter = "stop", !.err = TRUE]
    BY <1>0, <1>3 DEF SyncFails
  <2>2. proc' = [proc EXCEPT ![p] = s]
    BY <1>0, <1>3 DEF SyncFails
  <2>3. r.starter = "sync"
    BY <1>0, <1>3 DEF SyncFails
  <2>4. ProcessInv(r)
    BY <1>0
  <2> HIDE DEF r, s
  <2>5. s \in Process
    BY <2>1, <2>3, <2>4 DEF ProcessInv, Process, Contexts, Tasks
  <2>6. ContextInv(s) /\ ElectorInv(s) /\ LockInv(s)
    BY <2>1, <2>3, <2>4 DEF ProcessInv, Process, Contexts, ContextInv, ElectorInv,
       LockInv
  <2>7. StarterInv(s)
    BY <2>1, <2>3, <2>4 DEF ProcessInv, Process, StarterInv,
       Unused, Only, Started
  <2>8. StopInv(s)
    BY <2>1, <2>3, <2>4 DEF ProcessInv, Process, StarterInv, StopInv, ElectorInv,
       LockInv, Unused, Only, Started
  <2> QED
    BY <2>2, <2>5, <2>6, <2>7, <2>8 DEF Steps, ProcessInv, s
<1>4. CASE CancelStart(p)
  <2> DEFINE r == proc[p]
             s == proc'[p]
  <2>1. s = [r EXCEPT !.starter = "done", !.cancelled = @ \cup {"start", "lead"}]
    BY <1>0, <1>4 DEF CancelStart
  <2>2. proc' = [proc EXCEPT ![p] = s]
    BY <1>0, <1>4 DEF CancelStart
  <2>3. r.starter = "cancel"
    BY <1>0, <1>4 DEF CancelStart
  <2>4. ProcessInv(r)
    BY <1>0
  <2> HIDE DEF r, s
  <2>5. s \in Process
    BY <2>1, <2>3, <2>4 DEF ProcessInv, Process, Contexts, Tasks
  <2>6. ContextInv(s) /\ ElectorInv(s) /\ LockInv(s)
    BY <2>1, <2>3, <2>4 DEF ProcessInv, Process, Contexts, ContextInv, ElectorInv,
       LockInv
  <2>7. StarterInv(s)
    BY <2>1, <2>3, <2>4 DEF ProcessInv, Process, StarterInv,
       Unused, Only, Started
  <2>8. StopInv(s)
    BY <2>1, <2>3, <2>4 DEF ProcessInv, Process, StarterInv, StopInv, ElectorInv,
       LockInv, Unused, Only, Started
  <2> QED
    BY <2>2, <2>5, <2>6, <2>7, <2>8 DEF Steps, ProcessInv, s
<1>5. CASE \E w \in Workers : StartWorker(p, w)
  <2> DEFINE r == proc[p]
             s == proc'[p]
  <2>0. PICK w \in Workers : StartWorker(p, w)
    BY <1>5
  <2>1. s = [r EXCEPT !.worker[w] = "idle"]
    BY <1>0, <2>0 DEF StartWorker
  <2>2. proc' = [proc EXCEPT ![p] = s]
    BY <1>0, <2>0 DEF StartWorker
  <2>3. r.starter = "workers" /\ r.worker[w] = "none"
    BY <1>0, <2>0 DEF StartWorker
  <2>4. ProcessInv(r)
    BY <1>0
  <2> HIDE DEF r, s
  <2>5. s \in Process
    BY <2>1, <2>3, <2>4 DEF ProcessInv, Process, Contexts, Tasks
  <2>6. ContextInv(s) /\ ElectorInv(s) /\ LockInv(s)
    BY <2>1, <2>3, <2>4 DEF ProcessInv, Process, Contexts, ContextInv, ElectorInv,
       LockInv
  <2>7. StarterInv(s)
    BY <2>1, <2>3, <2>4 DEF ProcessInv, Process, StarterInv,
       Unused, Only, Started
  <2>8. StopInv(s)
    BY <2>1, <2>3, <2>4 DEF ProcessInv, Process, StarterInv, StopInv, ElectorInv,
       LockInv, Unused, Only, Started
  <2> QED
    BY <2>2, <2>5, <2>6, <2>7, <2>8 DEF Steps, ProcessInv, s
<1>6. CASE StartInformers(p)
  <2> DEFINE r == proc[p]
             s == proc'[p]
  <2>1. s = [r EXCEPT !.starter = IF r.stopper = "open" THEN "serve"
                                  ELSE "shutdown"]
    BY <1>0, <1>6 DEF StartInformers
  <2>2. proc' = [proc EXCEPT ![p] = s]
    BY <1>0, <1>6 DEF StartInformers
  <2>3. r.starter = "workers" /\ \A w \in Workers : r.worker[w] # "none"
    BY <1>0, <1>6 DEF StartInformers
  <2>4. ProcessInv(r)
    BY <1>0
  <2> HIDE DEF r, s
  <2>5. s \in Process
    BY <2>1, <2>3, <2>4 DEF ProcessInv, Process, Contexts, Tasks
  <2>6. ContextInv(s) /\ ElectorInv(s) /\ LockInv(s)
    BY <2>1, <2>3, <2>4 DEF ProcessInv, Process, Contexts, ContextInv, ElectorInv,
       LockInv
  <2>7. StarterInv(s)
    BY <2>1, <2>3, <2>4 DEF ProcessInv, Process, StarterInv,
       Unused, Only, Started
  <2>8. StopInv(s)
    BY <2>1, <2>3, <2>4 DEF ProcessInv, Process, StarterInv, StopInv, ElectorInv,
       LockInv, Unused, Only, Started
  <2> QED
    BY <2>2, <2>5, <2>6, <2>7, <2>8 DEF Steps, ProcessInv, s
<1>7. CASE ShutDownQueue(p)
  <2> DEFINE r == proc[p]
             s == proc'[p]
  <2>1. s = [r EXCEPT !.starter = "done", !.queue = "shut"]
    BY <1>0, <1>7 DEF ShutDownQueue
  <2>2. proc' = [proc EXCEPT ![p] = s]
    BY <1>0, <1>7 DEF ShutDownQueue
  <2>3. r.starter \in {"serve", "shutdown"} /\ r.stopper = "closed"
    BY <1>0, <1>7 DEF ShutDownQueue
  <2>4. ProcessInv(r)
    BY <1>0
  <2> HIDE DEF r, s
  <2>5. s \in Process
    BY <2>1, <2>3, <2>4 DEF ProcessInv, Process, Contexts, Tasks
  <2>6. ContextInv(s) /\ ElectorInv(s) /\ LockInv(s)
    BY <2>1, <2>3, <2>4 DEF ProcessInv, Process, Contexts, ContextInv, ElectorInv,
       LockInv
  <2>7. StarterInv(s)
    BY <2>1, <2>3, <2>4 DEF ProcessInv, Process, StarterInv,
       Unused, Only, Started
  <2>8. StopInv(s)
    BY <2>1, <2>3, <2>4 DEF ProcessInv, Process, StarterInv, StopInv, ElectorInv,
       LockInv, Unused, Only, Started
  <2> QED
    BY <2>2, <2>5, <2>6, <2>7, <2>8 DEF Steps, ProcessInv, s
<1> QED
  BY <1>1, <1>2, <1>3, <1>4, <1>5, <1>6, <1>7

\* Informers and workers.
LEMMA WorkerSteps ==
    ASSUME NEW p \in Processes, IInv,
           \/ Deliver(p)
           \/ \E w \in Workers : Get(p, w)
           \/ \E w \in Workers : Finish(p, w)
           \/ \E w \in Workers : WorkerEnds(p, w)
    PROVE  Steps(p)
<1>0. proc \in [Processes -> Process] /\ ProcessInv(proc[p])
  BY DEF IInv, TypeOK
<1>1. CASE Deliver(p)
  <2> DEFINE r == proc[p]
             s == proc'[p]
  <2>1. s = [r EXCEPT !.pending = @ + 1]
    BY <1>0, <1>1 DEF Deliver
  <2>2. proc' = [proc EXCEPT ![p] = s]
    BY <1>0, <1>1 DEF Deliver
  <2>3. r.starter = "serve" /\ r.pending < MaxPending
    BY <1>0, <1>1 DEF Deliver
  <2>4. ProcessInv(r)
    BY <1>0
  <2> HIDE DEF r, s
  <2>5. s \in Process
    BY <2>1, <2>3, <2>4, LifecycleAssumption DEF ProcessInv, Process, Contexts, Tasks
  <2>6. ContextInv(s) /\ ElectorInv(s) /\ LockInv(s)
    BY <2>1, <2>3, <2>4 DEF ProcessInv, Process, Contexts, ContextInv, ElectorInv,
       LockInv
  <2>7. StarterInv(s)
    BY <2>1, <2>3, <2>4 DEF ProcessInv, Process, StarterInv,
       Unused, Only, Started
  <2>8. StopInv(s)
    BY <2>1, <2>3, <2>4 DEF ProcessInv, Process, StarterInv, StopInv, ElectorInv,
       LockInv, Unused, Only, Started
  <2> QED
    BY <2>2, <2>5, <2>6, <2>7, <2>8 DEF Steps, ProcessInv, s
<1>2. CASE \E w \in Workers : Get(p, w)
  <2> DEFINE r == proc[p]
             s == proc'[p]
  <2>0. PICK w \in Workers : Get(p, w)
    BY <1>2
  <2>1. s = [r EXCEPT !.worker[w] = "busy", !.pending = @ - 1]
    BY <1>0, <2>0 DEF Get
  <2>2. proc' = [proc EXCEPT ![p] = s]
    BY <1>0, <2>0 DEF Get
  <2>3. r.worker[w] = "idle" /\ r.pending > 0
    BY <1>0, <2>0 DEF Get
  <2>4. ProcessInv(r)
    BY <1>0
  <2> HIDE DEF r, s
  <2>5. s \in Process
    <3>1. s.pending \in 0..MaxPending
      BY <2>1, <2>3, <2>4, LifecycleAssumption DEF ProcessInv, Process
    <3>2. s.worker \in [Workers -> {"none", "idle", "busy", "done"}]
      BY <2>1, <2>4 DEF ProcessInv, Process
    <3>3. s = [r EXCEPT !.worker = s.worker, !.pending = s.pending]
      BY <2>1, <2>4 DEF ProcessInv, Process
    <3> QED
      BY <2>4, <3>1, <3>2, <3>3 DEF ProcessInv, Process
  <2>6. ContextInv(s) /\ ElectorInv(s) /\ LockInv(s)
    BY <2>1, <2>3, <2>4 DEF ProcessInv, Process, Contexts, ContextInv, ElectorInv,
       LockInv
  <2>7. StarterInv(s)
    BY <2>1, <2>3, <2>4 DEF ProcessInv, Process, StarterInv,
       Unused, Only, Started
  <2>8. StopInv(s)
    BY <2>1, <2>3, <2>4 DEF ProcessInv, Process, StarterInv, StopInv, ElectorInv,
       LockInv, Unused, Only, Started
  <2> QED
    BY <2>2, <2>5, <2>6, <2>7, <2>8 DEF Steps, ProcessInv, s
<1>3. CASE \E w \in Workers : Finish(p, w)
  <2> DEFINE r == proc[p]
             s == proc'[p]
  <2>0. PICK w \in Workers : Finish(p, w)
    BY <1>3
  <2>1. s = [r EXCEPT !.worker[w] = "idle"]
    BY <1>0, <2>0 DEF Finish
  <2>2. proc' = [proc EXCEPT ![p] = s]
    BY <1>0, <2>0 DEF Finish
  <2>3. r.worker[w] = "busy"
    BY <1>0, <2>0 DEF Finish
  <2>4. ProcessInv(r)
    BY <1>0
  <2> HIDE DEF r, s
  <2>5. s \in Process
    BY <2>1, <2>3, <2>4 DEF ProcessInv, Process, Contexts, Tasks
  <2>6. ContextInv(s) /\ ElectorInv(s) /\ LockInv(s)
    BY <2>1, <2>3, <2>4 DEF ProcessInv, Process, Contexts, ContextInv, ElectorInv,
       LockInv
  <2>7. StarterInv(s)
    BY <2>1, <2>3, <2>4 DEF ProcessInv, Process, StarterInv,
       Unused, Only, Started
  <2>8. StopInv(s)
    BY <2>1, <2>3, <2>4 DEF ProcessInv, Process, StarterInv, StopInv, ElectorInv,
       LockInv, Unused, Only, Started
  <2> QED
    BY <2>2, <2>5, <2>6, <2>7, <2>8 DEF Steps, ProcessInv, s
<1>4. CASE \E w \in Workers : WorkerEnds(p, w)
  <2> DEFINE r == proc[p]
             s == proc'[p]
  <2>0. PICK w \in Workers : WorkerEnds(p, w)
    BY <1>4
  <2>1. s = [r EXCEPT !.worker[w] = "done"]
    BY <1>0, <2>0 DEF WorkerEnds
  <2>2. proc' = [proc EXCEPT ![p] = s]
    BY <1>0, <2>0 DEF WorkerEnds
  <2>3. r.worker[w] = "idle" /\ r.queue = "shut"
    BY <1>0, <2>0 DEF WorkerEnds
  <2>4. ProcessInv(r)
    BY <1>0
  <2> HIDE DEF r, s
  <2>5. s \in Process
    BY <2>1, <2>3, <2>4 DEF ProcessInv, Process, Contexts, Tasks
  <2>6. ContextInv(s) /\ ElectorInv(s) /\ LockInv(s)
    BY <2>1, <2>3, <2>4 DEF ProcessInv, Process, Contexts, ContextInv, ElectorInv,
       LockInv
  <2>7. StarterInv(s)
    BY <2>1, <2>3, <2>4 DEF ProcessInv, Process, StarterInv,
       Unused, Only, Started
  <2>8. StopInv(s)
    BY <2>1, <2>3, <2>4 DEF ProcessInv, Process, StarterInv, StopInv, ElectorInv,
       LockInv, Unused, Only, Started
  <2> QED
    BY <2>2, <2>5, <2>6, <2>7, <2>8 DEF Steps, ProcessInv, s
<1> QED
  BY <1>1, <1>2, <1>3, <1>4

-----------------------------------------------------------------------------
(* The steps of all *)

\* Next, for one process.
ProcessStep(p) ==
    \/ \E t \in Tasks : TaskFails(p, t) \/ TaskCancelled(p, t)
    \/ Restart(p) \/ Elect(p) \/ StartLeading(p) \/ Deliver(p)
    \/ \E w \in Workers : RunWorker(p, w)

\* Every step of a process keeps what holds of it.
LEMMA ProcessSteps ==
    ASSUME NEW p \in Processes, IInv, ProcessStep(p)
    PROVE  Steps(p)
BY TaskSteps, ElectorSteps, StopSteps, StarterSteps, WorkerSteps
   DEF ProcessStep, Elect, StartLeading, RunWorker

\* Every step of a process counts the faults.
LEMMA FaultsCounted ==
    ASSUME NEW p \in Processes, IInv, ProcessStep(p)
    PROVE  faults' \in 0..MaxFaults
<1>1. /\ faults \in 0..MaxFaults
      /\ MaxFaults \in Nat
  BY LifecycleAssumption DEF IInv, TypeOK
<1>2. faults' = faults \/ (faults < MaxFaults /\ faults' = faults + 1)
  BY DEF ProcessStep, Elect, StartLeading, RunWorker, Fault, TaskFails,
         TaskCancelled, Restart, Stop, Stopped, Acquire, GiveUp, StopRenewing,
         Release, CancelLead, Return, MakeStopper, SyncSucceeds, SyncFails,
         CancelStart, StartWorker, StartInformers, ShutDownQueue, Deliver,
         Get, Finish, WorkerEnds
<1> QED
  BY <1>1, <1>2

\* Nobody takes the lease from a process that renews it, and a process that
\* does so has got it by Acquire.
LEMMA LeaseSteps ==
    ASSUME NEW p \in Processes, IInv, ProcessStep(p)
    PROVE  LeaseInv' /\ lease' \in Processes \cup {None, Former}
<1>1. /\ proc \in [Processes -> Process]
      /\ lease \in Processes \cup {None, Former}
      /\ LeaseInv
      /\ proc' = [proc EXCEPT ![p] = proc'[p]]
  BY ProcessSteps DEF IInv, TypeOK, Steps
<1>2. CASE Acquire(p)
  <2>1. lease = None /\ lease' = p
    BY <1>2 DEF Acquire
  <2>2. \A q \in Processes : proc[q].elector # "renew"
    BY <2>1, <1>1, LifecycleAssumption DEF LeaseInv
  <2> QED
    BY <1>1, <2>1, <2>2 DEF LeaseInv
<1>3. CASE Release(p)
  <2>1. /\ proc[p].elector = "release" /\ proc'[p].elector = "cancel"
        /\ lease' = lease \/ (lease = p /\ lease' = None)
    BY <1>1, <1>3 DEF Release, Process
  <2> QED
    BY <1>1, <2>1 DEF LeaseInv
<1>4. CASE Restart(p)
  <2>1. /\ proc'[p].elector = "campaign"
        /\ lease' = IF lease = p THEN Former ELSE lease
    BY <1>1, <1>4 DEF Restart, NewProcess
  <2> QED
    BY <1>1, <2>1 DEF LeaseInv
<1>5. CASE ~Acquire(p) /\ ~Release(p) /\ ~Restart(p)
  <2>1. lease' = lease
    BY <1>5 DEF ProcessStep, Elect, StartLeading, RunWorker, TaskFails,
         TaskCancelled, Stop, Stopped, GiveUp, StopRenewing,
         CancelLead, Return, MakeStopper, SyncSucceeds, SyncFails,
         CancelStart, StartWorker, StartInformers, ShutDownQueue, Deliver,
         Get, Finish, WorkerEnds
  <2>2. proc'[p].elector = "renew" => proc[p].elector = "renew"
    <3>1. CASE \E t \in Tasks : TaskFails(p, t) \/ TaskCancelled(p, t)
      BY <1>1, <3>1 DEF TaskFails, TaskCancelled, TaskEnds, Process
    <3>2. CASE Elect(p) /\ ~Acquire(p) /\ ~Release(p)
      BY <1>1, <3>2 DEF Elect, Stop, Stopped, AfterStop, GiveUp, StopRenewing,
         CancelLead, Return, TaskEnds, Process
    <3>3. CASE StartLeading(p)
      <4>1. CASE Stop(p, "starter") \/ Stopped(p, "starter")
        BY <1>1, <4>1 DEF Stop, Stopped, AfterStop, Process
      <4>2. CASE \/ MakeStopper(p) \/ SyncSucceeds(p) \/ SyncFails(p)
                 \/ CancelStart(p)
        BY <1>1, <4>2 DEF MakeStopper, SyncSucceeds, SyncFails, CancelStart,
           Process
      <4>3. CASE \/ \E w \in Workers : StartWorker(p, w)
                 \/ StartInformers(p) \/ ShutDownQueue(p)
        BY <1>1, <4>3 DEF StartWorker, StartInformers, ShutDownQueue, Process
      <4> QED
        BY <3>3, <4>1, <4>2, <4>3 DEF StartLeading
    <3>4. CASE Deliver(p) \/ \E w \in Workers : RunWorker(p, w)
      <4>1. CASE Deliver(p)
        BY <1>1, <4>1 DEF Deliver, Process
      <4>2. CASE \E w \in Workers : RunWorker(p, w)
        <5> PICK w \in Workers : RunWorker(p, w)
          BY <4>2
        <5>1. CASE Get(p, w)
          BY <1>1, <5>1 DEF Get, Process
        <5>2. CASE Finish(p, w) \/ WorkerEnds(p, w)
          BY <1>1, <5>2 DEF Finish, WorkerEnds, Process
        <5> QED
          BY <5>1, <5>2 DEF RunWorker
      <4> QED
        BY <3>4, <4>1, <4>2
    <3> QED
      BY <1>5, <3>1, <3>2, <3>3, <3>4 DEF ProcessStep
  <2> QED
    BY <1>1, <2>1, <2>2 DEF LeaseInv
<1> QED
  BY <1>2, <1>3, <1>4, <1>5

\* The invariant holds of new processes.
LEMMA Initially == Init => IInv
<1> SUFFICES ASSUME Init PROVE IInv
  OBVIOUS
<1>1. ProcessInv(NewProcess)
  BY LifecycleAssumption DEF ProcessInv, NewProcess, Process, Tasks,
     ContextInv,
     ElectorInv, LockInv, StarterInv, StopInv, Unused, Only, Started
<1>2. \A p \in Processes : proc[p] = NewProcess
  BY DEF Init
<1>3. TypeOK
  BY <1>1, LifecycleAssumption DEF Init, TypeOK, ProcessInv
<1>4. LeaseInv
  BY <1>2 DEF LeaseInv, NewProcess
<1> QED
  BY <1>1, <1>2, <1>3, <1>4 DEF IInv

\* Every step keeps the invariant.
LEMMA Inductive == IInv /\ [Next]_vars => IInv'
<1> SUFFICES ASSUME IInv, [Next]_vars PROVE IInv'
  OBVIOUS
<1>1. CASE Expire
  <2>1. /\ proc' = proc /\ faults' = faults /\ lease' = None
        /\ \A p \in Processes : proc[p].elector # "renew"
    BY <1>1, LifecycleAssumption DEF Expire, IInv, LeaseInv
  <2> QED
    BY <2>1 DEF IInv, TypeOK, LeaseInv
<1>2. CASE \E p \in Processes : ProcessStep(p)
  <2> PICK p \in Processes : ProcessStep(p)
    BY <1>2
  <2>1. Steps(p) /\ LeaseInv' /\ lease' \in Processes \cup {None, Former}
          /\ faults' \in 0..MaxFaults
    BY ProcessSteps, FaultsCounted, LeaseSteps
  <2>2. proc' \in [Processes -> Process]
          /\ \A q \in Processes : ProcessInv(proc'[q])
    BY <2>1 DEF Steps, IInv, TypeOK, ProcessInv
  <2> QED
    BY <2>1, <2>2 DEF IInv, TypeOK
<1>3. CASE UNCHANGED vars
  BY <1>3 DEF vars, IInv, TypeOK, LeaseInv
<1> QED
  BY <1>1, <1>2, <1>3 DEF Next, ProcessStep

\* The invariant holds always.
LEMMA Invariance == Spec => []IInv
BY Initially, Inductive, PTL DEF Spec

-----------------------------------------------------------------------------
(* The theorems *)

\* Every variable has its type; above all, no worker takes a key that is not in
\* the queue of its process.
THEOREM TypeCorrect == Spec => []TypeOK
<1>1. IInv => TypeOK
  BY DEF IInv
<1> QED
  BY <1>1, Invariance, PTL

\* Two processes never work as leaders with live contexts, but for one that is
\* about to find out that it could not renew the lease: a process whose
\* startLeading runs with a live context either renews the lease, and then it
\* is the one the Lease object names, or it is that one.
THEOREM OneLiveLeader == Spec => []OneLeader
<1>1. ASSUME IInv, NEW p \in Processes, Leads(p), ~proc[p].expiring
      PROVE  lease = p
  <2>1. ProcessInv(proc[p]) /\ LeaseInv
    BY <1>1 DEF IInv
  <2>2. proc[p].elector = "renew"
    BY <1>1, <2>1 DEF Leads, Live, ProcessInv, Process, ElectorInv, StarterInv
  <2> QED
    BY <2>1, <2>2 DEF LeaseInv
<1>2. IInv => OneLeader
  BY <1>1 DEF OneLeader
<1> QED
  BY <1>2, Invariance, PTL

\* No process ends in the middle of a worker's key: run returns after the
\* operator's task, that one after stop(), and whoever closes the stopper first
\* waits for every worker that can still have a key.
THEOREM WorkersAwaited == Spec => []NoWorkerCutOff
<1>1. ASSUME IInv, NEW p \in Processes, NEW w \in Workers, ~Running(p)
      PROVE  proc[p].worker[w] # "busy"
  <2>1. ProcessInv(proc[p])
    BY <1>1 DEF IInv
  <2>2. proc[p].elector = "done"
    BY <1>1, <2>1 DEF Running, ProcessInv, ElectorInv
  <2> QED
    BY <2>1, <2>2 DEF ProcessInv, StopInv, Only
<1>2. IInv => NoWorkerCutOff
  BY <1>1 DEF NoWorkerCutOff
<1> QED
  BY <1>2, Invariance, PTL

\* Whoever calls stop() waits for workers that can go on, or for a startLeading
\* that can and will shut down the queue: there is no state in which stopLock is
\* held, or the stopper closed, and the workers wait for a queue that nobody shuts
\* down, whoever called stop() first and at whatever point of startLeading.
THEOREM NobodyWaitsInVain == Spec => []NobodyStuck
<1>1. ASSUME IInv, NEW p \in Processes, AtWork(p) # {},
             proc[p].stopper = "closed" \/ proc[p].stopLock # "free"
      PROVE  \/ \E w \in AtWork(p) : CanGoOn(p, w)
             \/ proc[p].starter = "workers"
             \/ /\ proc[p].starter \in {"serve", "shutdown"}
                /\ proc[p].stopper = "closed"
  <2> DEFINE r == proc[p]
  <2>1. ProcessInv(r)
    BY <1>1 DEF IInv
  <2>2. PICK w \in Workers : r.worker[w] \in {"idle", "busy"}
    BY <1>1 DEF AtWork
  <2>3. w \in AtWork(p)
    BY <2>2 DEF AtWork
  <2>4. r.starter \in {"workers", "serve", "shutdown", "done"}
    BY <2>1, <2>2 DEF ProcessInv, Process, StarterInv, Unused, Only
  <2>5. CASE r.starter \in {"serve", "shutdown"}
    <3>1. r.stopLock # "free" => r.elector = "stopping"
      BY <2>1, <2>5 DEF ProcessInv, Process, LockInv
    <3> QED
      BY <1>1, <2>1, <2>5, <3>1 DEF ProcessInv, StopInv
  <2>6. CASE r.starter = "done"
    <3>1. r.queue = "shut"
      BY <2>1, <2>2, <2>6 DEF ProcessInv, StarterInv, Unused, Only
    <3> QED
      BY <2>2, <2>3, <3>1 DEF CanGoOn
  <2> QED
    BY <2>4, <2>5, <2>6
<1>2. IInv => NobodyStuck
  BY <1>1 DEF NobodyStuck
<1> QED
  BY <1>2, Invariance, PTL

=============================================================================
