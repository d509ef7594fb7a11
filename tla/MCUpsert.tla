------------------------------ MODULE MCUpsert ------------------------------
(***************************************************************************)
(* Upsert with two processes: one with two workers, and its successor.     *)
(***************************************************************************)
EXTENDS Upsert, TLC

CONSTANTS c1, c2, c3, p1, p2, d1, r1, r2

TwoProcesses == (c1 :> p1) @@ (c2 :> p1) @@ (c3 :> p2)

OneProcess == c1 :> p1

Symmetry == Permutations({c1, c2}) \cup Permutations({r1, r2})

OneOwner == [r \in {r1, r2} |-> d1]
=============================================================================
