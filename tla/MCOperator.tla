----------------------------- MODULE MCOperator -----------------------------
(***************************************************************************)
(* Operator on small clusters.  9090 is a port; 65536 is the first integer *)
(* that is none, and stands for every annotation that turns transflect     *)
(* off.                                                                    *)
(***************************************************************************)
EXTENDS Operator, TLC

CONSTANTS d1, d2, r1, r2

\* A Deployment with two ReplicaSets: rollouts, and two workers for one lock.
TwoSets == [r \in {r1, r2} |-> d1]

\* A Deployment with one ReplicaSet.
OneSet == [r \in {r1} |-> d1]

\* Two Deployments with one ReplicaSet each: two pages of one filter.
TwoDeployments == (r1 :> d1) @@ (r2 :> d2)

WorkerSymmetry == Permutations(Threads)
=============================================================================
