------------------------------- MODULE Upsert -------------------------------
(***************************************************************************)
(* upsertFilter and deleteFilter (cmd/transflect-operator/envoyfilter.go), *)
(* call by call.                                                           *)
(*                                                                         *)
(* An upsert creates a Service (and, from outside the cluster, an Ingress) *)
(* that leads to the new pods only, queries their gRPC reflection API, and *)
(* writes the EnvoyFilter.  The Service and the Ingress are temporary: two *)
(* deferred calls delete them.  Each of the three objects is created or,   *)
(* if there is one, read and updated.                                      *)
(*                                                                         *)
(* Callers are workers of one or of several processes.  Nothing here keeps *)
(* two of them from one Deployment: the lock in the process may have been  *)
(* removed (Operator.tla), and another process does not have it.  The API  *)
(* server is external: modelled as far as the calls meet it.               *)
(***************************************************************************)
EXTENDS Naturals

CONSTANTS
    Callers,       \* the workers
    Processes,     \* the operator processes
    ProcessOf,     \* ProcessOf[c]: the process that c is part of
    ReplicaSets,
    Deployments,
    Owner,         \* Owner[r]: the Deployment that owns r
    None,          \* no object, no ReplicaSet
    UseIngress,    \* the option of that name
    Faults,        \* which of FaultKinds may happen
    MaxCalls,      \* bound: calls of upsertFilter and deleteFilter, together
    MaxFaults      \* bound: faults, together

\* A call to the API server or a reflection query that has no effect; a call
\* whose effect is not reported; a signal that cancels the context; the end of
\* a process.
FaultKinds == {"call", "answer", "cancel", "crash"}

ASSUME UpsertAssumption ==
    /\ ProcessOf \in [Callers -> Processes]
    /\ Owner \in [ReplicaSets -> Deployments]
    /\ None \notin ReplicaSets \cup [op : {"upsert", "delete"}, rs : ReplicaSets]
    /\ UseIngress \in BOOLEAN
    /\ Faults \subseteq FaultKinds
    /\ {MaxCalls, MaxFaults} \subseteq Nat

VARIABLES
    store,      \* store[o]: the ReplicaSet that object o was made for, or None
    stage,      \* stage[c]: what c deals with, or "idle"
    call,       \* call[c]: the call that c is about to make for it
    rs,         \* rs[c]: the argument of upsertFilter or deleteFilter
    fresh,      \* the callers whose object is as they read it
    result,     \* result[c]: "none" as long as c has not decided
    cancelled,  \* the processes whose context is cancelled
    calls, faults,
    \* History
    spoilt,     \* temporary objects of an upsert that could not delete them
    excused     \* callers that met a fault, or another caller

apiVars == <<store, fresh>>
callerVars == <<stage, call, rs, result>>
vars == <<apiVars, callerVars, cancelled, calls, faults, spoilt, excused>>

-----------------------------------------------------------------------------
(* Objects and stages *)

\* Service and Ingress have the name of the ReplicaSet, the EnvoyFilter that of
\* the Deployment.
Temporary == {"Service", "Ingress"} \X ReplicaSets
Filters == {"EnvoyFilter"} \X Deployments
Objects == Temporary \cup Filters

ObjectOf(kind, r) == <<kind, IF kind = "EnvoyFilter" THEN Owner[r] ELSE r>>

Object(c) == ObjectOf(stage[c], rs[c])

Busy(c) == stage[c] # "idle"

NextStage ==
    [Service |-> IF UseIngress THEN "Ingress" ELSE "Reflection",
     Ingress |-> "Reflection",
     Reflection |-> "EnvoyFilter"]

\* Mutation: nothing is deferred before all is created.
FirstDeferredLate ==
    [Service |-> "idle",
     Ingress |-> "idle",
     Reflection |-> IF UseIngress THEN "Ingress" ELSE "Service",
     EnvoyFilter |-> IF UseIngress THEN "Ingress" ELSE "Service"]

\* The deferred calls when upsertFilter returns from a stage: the last that was
\* registered comes first.
FirstDeferred ==
    [Service |-> "idle",
     Ingress |-> "Service",
     Reflection |-> IF UseIngress THEN "Ingress" ELSE "Service",
     EnvoyFilter |-> IF UseIngress THEN "Ingress" ELSE "Service"]

NextDeferred == [Ingress |-> "Service", Service |-> "idle", EnvoyFilter |-> "idle"]

\* c has a deferred call to make that deletes o.
WillDelete(c, o) ==
    /\ rs[c] = o[2]
    /\ IF call[c] = "delete"
       THEN o[1] = stage[c] \/ (o[1] = "Service" /\ stage[c] = "Ingress")
       ELSE \/ o[1] = "Service" /\ stage[c] \in {"Ingress", "Reflection", "EnvoyFilter"}
            \/ /\ o[1] = "Ingress"
               /\ UseIngress
               /\ stage[c] \in {"Reflection", "EnvoyFilter"}

TypeOK ==
    /\ store \in [Objects -> ReplicaSets \cup {None}]
    /\ stage \in [Callers -> {"idle", "Service", "Ingress", "Reflection",
                              "EnvoyFilter"}]
    /\ call \in [Callers -> {"none", "create", "get", "update", "delete"}]
    /\ rs \in [Callers -> ReplicaSets \cup {None}]
    /\ fresh \subseteq Callers
    /\ result \in [Callers -> {"none", "ok", "error"}]
    /\ cancelled \subseteq Processes
    /\ calls \in 0..MaxCalls
    /\ faults \in 0..MaxFaults
    /\ spoilt \subseteq Temporary
    /\ excused \subseteq Callers
    /\ \A c \in Callers : Busy(c) <=> rs[c] # None

Init ==
    /\ store = [o \in Objects |-> None]
    /\ stage = [c \in Callers |-> "idle"]
    /\ call = [c \in Callers |-> "none"]
    /\ rs = [c \in Callers |-> None]
    /\ fresh = {}
    /\ result = [c \in Callers |-> "none"]
    /\ cancelled = {}
    /\ calls = 0
    /\ faults = 0
    /\ spoilt = {}
    /\ excused = {}

Fault(kind) ==
    /\ kind \in Faults
    /\ faults < MaxFaults
    /\ faults' = faults + 1

-----------------------------------------------------------------------------
(* The callers *)

\* Mutation: a worker keeps its ReplicaSet.
GoToKeeping(c, s, what) ==
    /\ stage' = [stage EXCEPT ![c] = s]
    /\ call' = [call EXCEPT ![c] = IF s = "idle" THEN "none" ELSE what]
    /\ rs' = rs

GoTo(c, s, what) ==
    /\ stage' = [stage EXCEPT ![c] = s]
    /\ call' = [call EXCEPT ![c] = IF s = "idle" THEN "none" ELSE what]
    /\ rs' = [rs EXCEPT ![c] = IF s = "idle" THEN None ELSE @]

\* upsertFilter is about to return res; the deferred calls come before.
Return(c, res) ==
    /\ GoTo(c, FirstDeferred[stage[c]], "delete")
    /\ result' = [result EXCEPT ![c] = res]

Proceed(c) ==
    IF stage[c] = "EnvoyFilter"
    THEN Return(c, "ok")
    ELSE GoTo(c, NextStage[stage[c]], "create") /\ result' = result

\* What a write of o does to the resource versions that callers remember.
Write(o, r) ==
    /\ store' = [store EXCEPT ![o] = r]
    /\ fresh' = {c \in fresh : Object(c) # o}

Others(c, r) ==
    {x \in Callers \ {c} : Busy(x) /\ Owner[rs[x]] = Owner[r]}

\* Mutation: a ReplicaSet is handed to two workers of one process.
StartAnyhow(c, r, kind, what) ==
    /\ ~Busy(c)
    /\ calls < MaxCalls
    /\ calls' = calls + 1
    /\ stage' = [stage EXCEPT ![c] = kind]
    /\ call' = [call EXCEPT ![c] = what]
    /\ rs' = [rs EXCEPT ![c] = r]
    /\ result' = [result EXCEPT ![c] = "none"]
    /\ excused' = IF Others(c, r) = {} THEN excused \ {c}
                  ELSE excused \cup Others(c, r) \cup {c}
    /\ UNCHANGED <<apiVars, cancelled, faults, spoilt>>

\* The work queue hands a ReplicaSet to one worker of a process at a time.
Start(c, r, kind, what) ==
    /\ ~Busy(c)
    /\ \A x \in Callers : rs[x] = r => ProcessOf[x] # ProcessOf[c]
    /\ calls < MaxCalls
    /\ calls' = calls + 1
    /\ stage' = [stage EXCEPT ![c] = kind]
    /\ call' = [call EXCEPT ![c] = what]
    /\ rs' = [rs EXCEPT ![c] = r]
    /\ result' = [result EXCEPT ![c] = "none"]
    /\ excused' = IF Others(c, r) = {} THEN excused \ {c}
                  ELSE excused \cup Others(c, r) \cup {c}
    /\ UNCHANGED <<apiVars, cancelled, faults, spoilt>>

StartUpsert(c, r) == Start(c, r, "Service", "create")

StartDelete(c, r) == Start(c, r, "EnvoyFilter", "delete")

\* c makes a call whose answer arrives.
Calls(c, what) ==
    /\ Busy(c)
    /\ call[c] = what
    /\ ProcessOf[c] \notin cancelled
    /\ UNCHANGED <<cancelled, calls, faults, excused>>

\* Mutation: an object that exists is an error.
CreateNew(c) ==
    /\ Calls(c, "create")
    /\ stage[c] # "Reflection"
    /\ IF store[Object(c)] = None
       THEN Write(Object(c), rs[c]) /\ Proceed(c)
       ELSE Return(c, "error") /\ UNCHANGED apiVars
    /\ spoilt' = spoilt

\* Mutation: an object that exists is taken for the one to create.
CreateOrKeep(c) ==
    /\ Calls(c, "create")
    /\ stage[c] # "Reflection"
    /\ IF store[Object(c)] = None
       THEN Write(Object(c), rs[c])
       ELSE UNCHANGED apiVars
    /\ Proceed(c)
    /\ spoilt' = spoilt

Create(c) ==
    /\ Calls(c, "create")
    /\ stage[c] # "Reflection"
    /\ IF store[Object(c)] = None
       THEN Write(Object(c), rs[c]) /\ Proceed(c)
       ELSE GoTo(c, stage[c], "get") /\ UNCHANGED <<apiVars, result>>
    /\ spoilt' = spoilt

Get(c) ==
    /\ Calls(c, "get")
    /\ IF store[Object(c)] = None
       THEN Return(c, "error") /\ fresh' = fresh
       ELSE /\ GoTo(c, stage[c], "update")
            /\ fresh' = fresh \cup {c}
            /\ result' = result
    /\ UNCHANGED <<store, spoilt>>

\* Refused if the object has changed, or gone, since c read it.
Update(c) ==
    /\ Calls(c, "update")
    /\ IF c \in fresh
       THEN Write(Object(c), rs[c]) /\ Proceed(c)
       ELSE Return(c, "error") /\ UNCHANGED apiVars
    /\ spoilt' = spoilt

\* GetFileDescriptorSet, with its retries.
Query(c) ==
    /\ Calls(c, "create")
    /\ stage[c] = "Reflection"
    /\ Proceed(c)
    /\ UNCHANGED <<apiVars, spoilt>>

\* After a deferred call, or deleteFilter's only call.
Deleted(c, res) ==
    /\ GoTo(c, NextDeferred[stage[c]], "delete")
    /\ result' = IF stage[c] = "EnvoyFilter" THEN [result EXCEPT ![c] = res]
                 ELSE result

\* That there is nothing to delete is logged.
Delete(c) ==
    /\ Calls(c, "delete")
    /\ Write(Object(c), None)
    /\ Deleted(c, "ok")
    /\ spoilt' = spoilt \ {Object(c)}

-----------------------------------------------------------------------------
(* Faults *)

\* A call without effect: it failed, or the context was cancelled before.
CallFails(c) ==
    /\ Busy(c)
    /\ \/ Fault("call")
       \/ ProcessOf[c] \in cancelled /\ faults' = faults
    /\ IF call[c] = "delete"
       THEN /\ Deleted(c, "error")
            /\ spoilt' = spoilt \cup {o \in Temporary \cap {Object(c)} : store[o] # None}
       ELSE Return(c, "error") /\ spoilt' = spoilt
    /\ fresh' = fresh \ {c}
    /\ excused' = excused \cup {c}
    /\ UNCHANGED <<store, cancelled, calls>>

\* The write that c is about to make will be accepted.
WillWrite(c) ==
    \/ call[c] = "create" /\ stage[c] # "Reflection" /\ store[Object(c)] = None
    \/ call[c] = "update" /\ c \in fresh

\* A write that was done although c gets an error.
AnswerLost(c) ==
    /\ Busy(c)
    /\ ProcessOf[c] \notin cancelled
    /\ Fault("answer")
    /\ \/ /\ WillWrite(c)
          /\ Write(Object(c), rs[c])
          /\ Return(c, "error")
          /\ spoilt' = spoilt \cup (Temporary \cap {Object(c)})
       \/ /\ call[c] = "delete"
          /\ Write(Object(c), None)
          /\ Deleted(c, "error")
          /\ spoilt' = spoilt \ {Object(c)}
    /\ excused' = excused \cup {c}
    /\ UNCHANGED <<cancelled, calls>>

\* SIGINT or SIGTERM, or the end of leadership.
Cancel(p) ==
    /\ p \notin cancelled
    /\ Fault("cancel")
    /\ cancelled' = cancelled \cup {p}
    /\ UNCHANGED <<apiVars, callerVars, calls, spoilt, excused>>

\* The process ends, by itself once its workers have finished or before that,
\* and another takes its place.
Restart(p) ==
    LET Mine == {c \in Callers : ProcessOf[c] = p} IN
    /\ \/ Fault("crash")
       \/ /\ p \in cancelled
          /\ \A c \in Mine : ~Busy(c)
          /\ faults' = faults
    /\ stage' = [c \in Callers |-> IF c \in Mine THEN "idle" ELSE stage[c]]
    /\ call' = [c \in Callers |-> IF c \in Mine THEN "none" ELSE call[c]]
    /\ rs' = [c \in Callers |-> IF c \in Mine THEN None ELSE rs[c]]
    /\ result' = [c \in Callers |-> IF c \in Mine THEN "none" ELSE result[c]]
    /\ fresh' = fresh \ Mine
    /\ cancelled' = cancelled \ {p}
    /\ spoilt' = spoilt \cup {o \in Temporary :
                     store[o] # None /\ \E c \in Mine : WillDelete(c, o)}
    /\ excused' = excused \ Mine
    /\ UNCHANGED <<store, calls>>

Next ==
    \/ \E c \in Callers :
          \/ \E r \in ReplicaSets : StartUpsert(c, r) \/ StartDelete(c, r)
          \/ Create(c) \/ Get(c) \/ Update(c) \/ Query(c) \/ Delete(c)
          \/ CallFails(c) \/ AnswerLost(c)
    \/ \E p \in Processes : Cancel(p) \/ Restart(p)

Spec == Init /\ [][Next]_vars

-----------------------------------------------------------------------------
(* Properties *)

\* A Service or Ingress exists only while somebody is going to delete it,
\* wherever the upsert fails and whoever else works on the same ReplicaSet;
\* except for those that a crash, a failed delete or a lost answer left, until
\* the next upsert has taken them over and deleted them.
NothingLeftBehind ==
    \A o \in Temporary :
        store[o] # None => o \in spoilt \/ \E c \in Callers : WillDelete(c, o)

\* A Service or Ingress that an upsert is still going to use is never taken from
\* it by its own process: not by an upsert of another ReplicaSet, not by a retry
\* of its own, not by what is left of an earlier one.  Only another process that
\* upserts the same ReplicaSet deletes it, since both give it the same name.
TakenByOtherProcess ==
    [][\A c \in Callers, o \in Temporary :
          /\ WillDelete(c, o) /\ call[c] # "delete"
          /\ store[o] # None /\ store'[o] = None
          => \E x \in Callers : /\ ProcessOf[x] # ProcessOf[c]
                                /\ call[x] = "delete" /\ Object(x) = o]_vars

\* An upsert that meets no fault and no other caller for its Deployment
\* succeeds, whatever earlier upserts, of any process, have left.
AloneSucceeds ==
    \A c \in Callers : result[c] = "error" => c \in excused

\* What callers report is true: the three calls that write an EnvoyFilter act
\* as one.
Task(c) ==
    IF ~Busy(c) \/ result[c] # "none" THEN None
    ELSE [op |-> IF call[c] = "delete" THEN "delete" ELSE "upsert", rs |-> rs[c]]

AU == INSTANCE AtomicUpsert
        WITH filter <- [d \in Deployments |-> store[<<"EnvoyFilter", d>>]],
             task <- [c \in Callers |-> Task(c)]

ImplementsAtomicUpsert == AU!Spec

\* "SIGINT will first clean up resources" (README.md:132): once the workers of a
\* cancelled process have finished, nothing temporary of theirs is left.
CleanedUp ==
    (\A c \in Callers : ~Busy(c)) => \A o \in Temporary : store[o] = None
=============================================================================
