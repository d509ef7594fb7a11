------------------------------ MODULE NamedLock ------------------------------
(***************************************************************************)
(* What MutexMap (pkg/transflect/mutexmap.go) promises to its users: one   *)
(* lock per name, whose owner alone can release it.  A name that somebody  *)
(* removes becomes void, and no promise is made about it any more; the     *)
(* locks of all other names are untouched by that.                         *)
(***************************************************************************)
CONSTANTS Threads, Names, NoThread

VARIABLES owner, void

vars == <<owner, void>>

Init ==
    /\ owner = [n \in Names |-> NoThread]
    /\ void = {}

Grab(t, n) ==
    /\ n \notin void
    /\ owner[n] = NoThread
    /\ owner' = [owner EXCEPT ![n] = t]
    /\ void' = void

Release(n) ==
    /\ owner[n] # NoThread
    /\ owner' = [owner EXCEPT ![n] = NoThread]
    /\ void' = void

MakeVoid(n) ==
    /\ void' = void \cup {n}
    /\ owner' = [owner EXCEPT ![n] = NoThread]

Next ==
    \E n \in Names :
        \/ \E t \in Threads : Grab(t, n)
        \/ Release(n)
        \/ MakeVoid(n)

Spec == Init /\ [][Next]_vars
=============================================================================
