---------------------------- MODULE AtomicUpsert ----------------------------
(***************************************************************************)
(* What upsertFilter and deleteFilter                                      *)
(* (cmd/transflect-operator/envoyfilter.go) promise to processReplicaset:  *)
(* each changes the Deployment's EnvoyFilter at one instant and reports    *)
(* success, or reports an error, and then the filter is as it was unless   *)
(* the answer of the API server was lost.  Operator's steps Upsert,        *)
(* UpsertFails, UpsertAnswerLost, Delete and DeleteFails assume no less.   *)
(***************************************************************************)
CONSTANTS Callers, ReplicaSets, Deployments, Owner, None

VARIABLES
    filter,    \* filter[d]: the ReplicaSet that d's EnvoyFilter was made from
    task,      \* task[c]: what c was asked for and has not decided yet
    result     \* result[c]: what c reports: "none", "ok" or "error"

vars == <<filter, task, result>>

Task == [op : {"upsert", "delete"}, rs : ReplicaSets]

Init ==
    /\ filter = [d \in Deployments |-> None]
    /\ task = [c \in Callers |-> None]
    /\ result = [c \in Callers |-> "none"]

Ask(c, t) ==
    /\ task[c] = None
    /\ task' = [task EXCEPT ![c] = t]
    /\ result' = [result EXCEPT ![c] = "none"]
    /\ filter' = filter

Decide(c, res) ==
    /\ task[c] # None
    /\ task' = [task EXCEPT ![c] = None]
    /\ result' = [result EXCEPT ![c] = res]

Effect(t) ==
    filter' = [filter EXCEPT ![Owner[t.rs]] =
                  IF t.op = "upsert" THEN t.rs ELSE None]

Succeed(c) == Decide(c, "ok") /\ Effect(task[c])

Fail(c) == Decide(c, "error") /\ filter' = filter

LoseAnswer(c) == Decide(c, "error") /\ Effect(task[c])

\* A process ends: nobody learns what its callers achieved.
Die(S) ==
    /\ task' = [c \in Callers |-> IF c \in S THEN None ELSE task[c]]
    /\ result' = [c \in Callers |-> IF c \in S THEN "none" ELSE result[c]]
    /\ filter' = filter

Next ==
    \/ \E c \in Callers :
          \/ \E t \in Task : Ask(c, t)
          \/ Succeed(c) \/ Fail(c) \/ LoseAnswer(c)
    \/ \E S \in SUBSET Callers : Die(S)

Spec == Init /\ [][Next]_vars
=============================================================================
