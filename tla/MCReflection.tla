---------------------------- MODULE MCReflection ----------------------------
(***************************************************************************)
(* Servers of two services and four files that import each other.          *)
(***************************************************************************)
EXTENDS Reflection

CONSTANTS f1, f2, f3, f4, s1, s2, other

\* Import graphs without circles: chains, trees and diamonds.
Graphs ==
    {(f1 :> a) @@ (f2 :> b) @@ (f3 :> c) @@ (f4 :> <<>>) :
        a \in {<<>>, <<f3>>, <<f2, f3>>, <<f4, f3, f2>>},
        b \in {<<>>, <<f3>>, <<f4, f3>>},
        c \in {<<>>, <<f4>>}}

MCServers ==
    {[imports |-> g, home |-> (s1 :> a) @@ (s2 :> b), services |-> <<s1, s2>>] :
        g \in Graphs, a \in Files, b \in Files}

MCExcludes == {{s1}, {s1, s2}, {s1, s2, other}}
=============================================================================
