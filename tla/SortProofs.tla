----------------------------- MODULE SortProofs -----------------------------
(***************************************************************************)
(* Proof that a query's answer is complete, minimal and sorted, for any    *)
(* files, services and servers: what Reflection's addDependencies gathers  *)
(* and topoSort makes of it.                                               *)
(***************************************************************************)
EXTENDS ReflectionProofs

-----------------------------------------------------------------------------
(* The inductive invariant, beside that of ReflectionProofs *)

\* The files that the answer should hold.
Needed == Closure(Home)

\* The files that topoSort has moved to the result.
Out == ToSet(result)

\* An attempt begins with nothing, and only topoSort makes a result.
StartInv ==
    /\ phase \in {"dial", "list"} => names = <<>> /\ slice = <<>>
    /\ phase \in {"dial", "list", "symbols", "imports"} => result = <<>>

\* What a call of addDependencies has still to look at is needed.
Fits(frame) == ToSet(frame.deps) \cup ToSet(frame.slice) \subseteq Needed

\* No file is stored, or waits to be, that the services do not need.
NeededInv ==
    /\ Held \subseteq Needed
    /\ ToSet(names) \subseteq Needed
    /\ ToSet(slice) \subseteq Needed
    /\ phase = "symbols" => ToSet(left) \subseteq ToSet(services)
    /\ phase = "imports" =>
           /\ ToSet(left) \subseteq Needed
           /\ \A i \in DOMAIN stack : Fits(stack[i])

\* The files of the services are sorted by name, or will be.
HomeInv ==
    /\ phase = "imports" => Home \subseteq ToSet(names)
    /\ phase = "sort" => Home \subseteq Out \cup ToSet(left) \cup OpenFiles
    /\ phase \in {"filter", "ok"} => Home \subseteq Out

\* The result is sorted, with all that its files import.
Sorted(res) ==
    /\ IsInjective(res)
    /\ \A i, j \in DOMAIN res : res[i] \in Imports(res[j]) => i < j

OutInv == Sorted(result) /\ Closed(Out) /\ Out \subseteq Held

\* A call of topoSort, at depth i from the innermost, has not moved its file yet,
\* and of the file's imports only those that it has still to look at and the
\* one that it waits for.
Awaited(st, i) == IF i > 1 THEN {st[i - 1].file} ELSE {}

CallAt(st, i, done) ==
    /\ st[i].file \in Held \ done
    /\ ToSet(st[i].deps) \cup Awaited(st, i) \subseteq Imports(st[i].file)
    /\ Imports(st[i].file) \subseteq done \cup ToSet(st[i].deps) \cup Awaited(st, i)

\* No two calls are for the same file.
Distinct(st) == \A i, j \in DOMAIN st : st[i].file = st[j].file => i = j

CallInv ==
    phase = "sort" =>
        (\A i \in DOMAIN stack : CallAt(stack, i, Out)) /\ Distinct(stack)

SInv == StartInv /\ NeededInv /\ HomeInv /\ OutInv /\ CallInv

-----------------------------------------------------------------------------
(* What a file imports, and what that imports *)

\* What a file imports are files.
LEMMA ImportsAreFiles ==
    ASSUME TypeOK, NEW f \in Files
    PROVE  Imports(f) \subseteq Files /\ Imports(f) = ToSet(server.imports[f])
<1>1. server.imports[f] \in Seq(Files)
  BY ServerTyped
<1> QED
  BY <1>1 DEF Imports, ToSet

\* The services are defined in files.
LEMMA HomeIsFiles ==
    ASSUME TypeOK
    PROVE  Home \subseteq Files
<1>1. ToSet(services) \subseteq Services
  BY DEF TypeOK, ToSet
<1> QED
  BY <1>1, ServerTyped DEF Home

\* A closure holds the set and the imports of its members.
LEMMA ClosureIsClosed ==
    ASSUME TypeOK, NEW S, S \subseteq Files
    PROVE  /\ S \subseteq Closure(S)
           /\ Closure(S) \subseteq Files
           /\ \A f \in Closure(S) : Imports(f) \subseteq Closure(S)
<1>1. S \subseteq Closure(S) /\ Closure(S) \subseteq Files
  BY DEF Closure
<1>2. ASSUME NEW f \in Closure(S), NEW g \in Imports(f)
      PROVE  g \in Closure(S)
  <2>1. f \in Files /\ g \in Files
    BY <1>1, <1>2, ImportsAreFiles
  <2>2. ASSUME NEW T \in SUBSET Files, S \subseteq T, Closed(T)
        PROVE  g \in T
    <3>1. f \in T
      BY <2>2 DEF Closure
    <3> QED
      BY <2>2, <3>1 DEF Closed, Imports
  <2> QED
    BY <2>1, <2>2 DEF Closure
<1> QED
  BY <1>1, <1>2

\* It is the least set that does.
LEMMA ClosureIsLeast ==
    ASSUME NEW S, NEW T \in SUBSET Files, S \subseteq T, Closed(T)
    PROVE  Closure(S) \subseteq T
BY DEF Closure

\* What is needed: the files of the services, and the imports of what is needed.
LEMMA NeededFiles ==
    ASSUME TypeOK
    PROVE  /\ Home \subseteq Needed
           /\ Needed \subseteq Files
           /\ \A f \in Needed : Imports(f) \subseteq Needed
BY HomeIsFiles, ClosureIsClosed DEF Needed

\* Whatever the server sends for a file that is needed is needed.
LEMMA AnswerNeeded ==
    ASSUME TypeOK, NEW f \in Needed, NEW answer \in Answers(f)
    PROVE  answer \in Seq(Files) /\ ToSet(answer) \subseteq Needed
<1>1. Needed \in SUBSET Files /\ Closed(Needed)
  BY NeededFiles DEF Closed, Imports
<1>2. Closure({f}) \subseteq Needed
  BY <1>1, ClosureIsLeast
<1> QED
  BY <1>2, ListsAreSequences DEF Answers

\* None of this changes while the list of services stays.
LEMMA NeededStays ==
    ASSUME UNCHANGED <<server, services>>
    PROVE  /\ Home' = Home /\ Needed' = Needed
           /\ \A f : Imports(f)' = Imports(f)
           /\ \A res : Sorted(res)' <=> Sorted(res)
BY DEF Home, Needed, Closure, Closed, Imports, Sorted

-----------------------------------------------------------------------------
(* The loops over services and imports *)

\* Until topoSort begins there is no result.
LEMMA NoResultYet ==
    ASSUME StartInv, phase \in {"dial", "list", "symbols", "imports"}
    PROVE  result = <<>> /\ Out = {}
BY EmptySet DEF StartInv, Out

\* An empty result is sorted, and complete as far as it goes.
LEMMA EmptyResult ==
    ASSUME result' = <<>>
    PROVE  OutInv'
<1>1. Out' = {} /\ DOMAIN result' = {}
  BY EmptySet DEF Out
<1> QED
  BY <1>1 DEF OutInv, Sorted, IsInjective, Closed

\* The steps before addDependencies.
LEMMA SymbolsKeep ==
    ASSUME IInv, SInv,
           Dial \/ ListServices \/ AskSymbol \/ NextSymbolFile \/ BeginImports
    PROVE  SInv'
<1> USE DEF locals, answers
<1>0. /\ TypeOK /\ FreshInv /\ SymbolInv
      /\ StartInv /\ NeededInv
  BY DEF IInv, SInv
<1>1. /\ phase \in {"dial", "list", "symbols"} /\ result' = result
      /\ phase' \in {"list", "failed", "symbols", "imports"}
  BY DEF Dial, ListServices, AskSymbol, NextSymbolFile, BeginImports
<1>2. result' = <<>>
  BY <1>0, <1>1 DEF StartInv
<1>3. OutInv' /\ CallInv'
  BY <1>1, <1>2, EmptyResult DEF CallInv
<1>4. SUFFICES StartInv' /\ NeededInv' /\ HomeInv'
  BY <1>3 DEF SInv
<1>5. CASE Dial
  <2>1. /\ phase = "dial" /\ phase' \in {"list", "failed"}
        /\ UNCHANGED <<server, services, names, files, slice, result>>
    BY <1>5 DEF Dial
  <2>2. Held' = Held /\ Needed' = Needed
    BY <2>1, NeededStays DEF Held, Has
  <2> QED
    BY <1>0, <2>1, <2>2, <1>2 DEF StartInv, NeededInv, HomeInv
<1>6. CASE ListServices
  <2>1. /\ phase' = "symbols" /\ left' = services'
        /\ names' = <<>> /\ files' = NoFiles /\ slice' = <<>>
    BY <1>0, <1>6 DEF ListServices, FreshInv, StartInv
  <2>2. Held' = {} /\ ToSet(names') = {} /\ ToSet(slice') = {}
    BY <2>1, EmptySet DEF Held, Has, NoFiles
  <2> QED
    BY <2>1, <2>2, <1>2 DEF StartInv, NeededInv, HomeInv
<1>7. CASE AskSymbol
  <2>1. /\ phase = "symbols" /\ left # <<>> /\ left' = Tail(left)
        /\ slice' \in Answers(server.home[Head(left)])
        /\ UNCHANGED <<server, phase, services, names, files>>
    BY <1>7 DEF AskSymbol
  <2>2. ToSet(left) = {Head(left)} \cup ToSet(Tail(left))
    BY <1>0, <2>1, HeadAndTail DEF SymbolInv
  <2>3. server.home[Head(left)] \in Needed
    <3>1. Head(left) \in ToSet(services)
      BY <1>0, <2>1, <2>2 DEF NeededInv
    <3>2. server.home[Head(left)] \in Home
      BY <3>1 DEF Home
    <3> QED
      BY <1>0, <3>2, NeededFiles
  <2>4. ToSet(slice') \subseteq Needed
    BY <1>0, <2>1, <2>3, AnswerNeeded
  <2>5. Held' = Held /\ Needed' = Needed
    BY <2>1, NeededStays DEF Held, Has
  <2> QED
    BY <1>0, <1>2, <2>1, <2>2, <2>4, <2>5 DEF StartInv, NeededInv, HomeInv
<1>8. CASE NextSymbolFile
  <2> DEFINE f == Head(slice)
  <2>1. /\ phase = "symbols" /\ slice # <<>> /\ slice' = Tail(slice)
        /\ \/ UNCHANGED <<names, files>>
           \/ names' = Append(names, f) /\ files' = [files EXCEPT ![f] = "annotated"]
        /\ UNCHANGED <<server, phase, services, left>>
    BY <1>8 DEF NextSymbolFile
  <2>2. f \in Files /\ ToSet(slice) = {f} \cup ToSet(Tail(slice))
    BY <1>0, <2>1, HeadAndTail DEF TypeOK
  <2>3. f \in Needed /\ ToSet(slice') \subseteq Needed
    BY <1>0, <2>1, <2>2 DEF NeededInv
  <2> HIDE DEF f
  <2>4. ToSet(names') \subseteq ToSet(names) \cup {f}
    <3>1. ToSet(Append(names, f)) = ToSet(names) \cup {f}
      BY <1>0, <2>2, AppendSet DEF TypeOK
    <3> QED
      BY <2>1, <3>1
  <2>5. Held' \subseteq Held \cup {f}
    BY <1>0, <2>1, <2>2 DEF Held, Has, TypeOK
  <2>6. Needed' = Needed
    BY <2>1, NeededStays
  <2> QED
    BY <1>0, <1>2, <2>1, <2>3, <2>4, <2>5, <2>6 DEF StartInv, NeededInv, HomeInv
<1>9. CASE BeginImports
  <2>1. /\ phase = "symbols" /\ phase' = "imports" /\ slice = <<>> /\ left = <<>>
        /\ left' = names /\ UNCHANGED <<server, services, names, files, slice, stack>>
    BY <1>9 DEF BeginImports
  <2>2. Home \subseteq ToSet(names)
    <3> SUFFICES ASSUME NEW s \in ToSet(services)
                 PROVE  server.home[s] \in ToSet(names)
      BY DEF Home
    <3>1. files[server.home[s]] = "annotated"
      BY <1>0, <2>1, EmptySet DEF SymbolInv
    <3>2. server.home[s] \in Files
      BY <1>0, HomeIsFiles DEF Home
    <3> QED
      BY <1>0, <2>1, <3>1, <3>2 DEF SymbolInv, Has
  <2>3. Held' = Held /\ Needed' = Needed /\ Home' = Home
    BY <2>1, NeededStays DEF Held, Has
  <2>4. DOMAIN stack' = {}
    BY <1>0, <2>1 DEF SymbolInv
  <2> QED
    BY <1>0, <1>2, <2>1, <2>2, <2>3, <2>4 DEF StartInv, NeededInv, HomeInv
<1> QED
  BY <1>5, <1>6, <1>7, <1>8, <1>9

\* A step of addDependencies keeps the invariant if what the new stack has still to
\* look at is needed, and what it stores.
LEMMA GatherKeeps ==
    ASSUME IInv, SInv, phase = "imports",
           UNCHANGED <<server, phase, services, names, slice, result>>,
           Held' \subseteq Needed,
           ToSet(left') \subseteq Needed,
           \A i \in DOMAIN stack' : Fits(stack'[i])
    PROVE  SInv'
<1>1. StartInv /\ NeededInv /\ HomeInv
  BY DEF SInv
<1>2. result' = <<>>
  BY <1>1 DEF StartInv
<1>3. Needed' = Needed /\ Home' = Home
  BY NeededStays
<1>4. OutInv' /\ CallInv'
  BY <1>2, EmptyResult DEF CallInv
<1>5. NeededInv'
  BY <1>1, <1>3 DEF NeededInv, Fits
<1>6. StartInv' /\ HomeInv'
  BY <1>1, <1>2, <1>3 DEF StartInv, HomeInv
<1> QED
  BY <1>4, <1>5, <1>6 DEF SInv

\* The call of addDependencies for a file that is needed looks at what is needed.
LEMMA CallFits ==
    ASSUME TypeOK, NEW f \in Needed
    PROVE  Call(f) \in Frame /\ Fits(Call(f))
<1>1. f \in Files
  BY NeededFiles
<1>2. ToSet(Call(f).deps) \subseteq Needed /\ ToSet(Call(f).slice) = {}
  BY NeededFiles, EmptySet DEF Call, Imports
<1> QED
  BY <1>1, <1>2, CallIsFrame DEF Fits

\* The steps of addDependencies.
LEMMA ImportsKeep ==
    ASSUME IInv, SInv,
           AddDependencies \/ SkipImport \/ AskImport \/ NextFile \/ Return
    PROVE  SInv'
<1> USE DEF answers
<1>0. TypeOK /\ GatherInv /\ NeededInv
  BY DEF IInv, SInv
<1>1. CASE AddDependencies
  <2>1. /\ phase = "imports" /\ left # <<>>
        /\ stack' = <<Call(Head(left))>> /\ left' = Tail(left)
        /\ UNCHANGED <<server, phase, services, names, files, slice, result>>
    BY <1>1 DEF AddDependencies
  <2>2. ToSet(left) = {Head(left)} \cup ToSet(Tail(left))
    BY <1>0, <2>1, HeadAndTail DEF GatherInv
  <2>3. Head(left) \in Needed /\ ToSet(left') \subseteq Needed
    BY <1>0, <2>1, <2>2 DEF NeededInv
  <2>4. DOMAIN stack' = {1} /\ stack'[1] = Call(Head(left))
    BY <2>1
  <2>5. \A i \in DOMAIN stack' : Fits(stack'[i])
    BY <1>0, <2>3, <2>4, CallFits
  <2>6. Held' \subseteq Needed
    BY <1>0, <2>1 DEF NeededInv, Held, Has
  <2> QED
    BY <2>1, <2>3, <2>5, <2>6, GatherKeeps
<1>2. ASSUME InFrame
      PROVE  /\ phase = "imports" /\ ToSet(left) \subseteq Needed
             /\ stack # <<>> /\ stack \in Seq(Frame) /\ stack[1] \in Frame
             /\ ToSet(stack[1].deps) \subseteq Needed
             /\ ToSet(stack[1].slice) \subseteq Needed
             /\ \A i \in DOMAIN stack : Fits(stack[i])
  <2>1. phase = "imports" /\ stack # <<>>
    BY <1>2 DEF InFrame
  <2>2. 1 \in DOMAIN stack /\ stack[1] \in Frame /\ stack \in Seq(Frame)
    BY <1>0, <2>1, TopFrame DEF TypeOK
  <2> QED
    BY <1>0, <2>1, <2>2 DEF NeededInv, Fits
<1>3. CASE SkipImport \/ AskImport
  <2>1. /\ InFrame /\ stack[1].deps # <<>>
        /\ UNCHANGED <<server, phase, services, names, files, left, slice, result>>
    BY <1>3 DEF SkipImport, AskImport, NeedsImport
  <2>2. /\ Head(stack[1].deps) \in Needed
        /\ ToSet(Tail(stack[1].deps)) \subseteq Needed
    BY <1>2, <2>1, HeadAndTail DEF Frame
  <2>3. PICK t \in Frame : stack' = [stack EXCEPT ![1] = t] /\ Fits(t)
    <3>1. CASE SkipImport
      <4>1. <<>> \in Seq(Files)
        OBVIOUS
      <4>2. stack' = [stack EXCEPT ![1] = Skipping] /\ Skipping \in Frame
        BY <1>0, <1>2, <2>1, <3>1, <4>1, NextImport DEF SkipImport
      <4>3. /\ Skipping.deps = Tail(stack[1].deps)
            /\ Skipping.slice = stack[1].slice
        BY <1>2, <2>1 DEF Skipping, Frame
      <4> QED
        BY <1>2, <2>1, <2>2, <4>2, <4>3 DEF Fits
    <3>2. CASE AskImport
      <4>1. PICK answer \in Answers(Head(stack[1].deps)) :
               stack' = [stack EXCEPT ![1].deps = Tail(@), ![1].slice = answer]
        BY <3>2 DEF AskImport
      <4>2. answer \in Seq(Files) /\ ToSet(answer) \subseteq Needed
        BY <1>0, <2>2, AnswerNeeded
      <4>3. stack' = [stack EXCEPT ![1] = Asking(answer)] /\ Asking(answer) \in Frame
        BY <1>0, <1>2, <2>1, <4>1, <4>2, NextImport
      <4>4. /\ Asking(answer).deps = Tail(stack[1].deps)
            /\ Asking(answer).slice = answer
        BY <1>2, <2>1 DEF Asking, Frame
      <4> QED
        BY <2>2, <4>2, <4>3, <4>4 DEF Fits
    <3> QED
      BY <1>3, <3>1, <3>2
  <2>4. \A i \in DOMAIN stack' : Fits(stack'[i])
    BY <1>2, <2>1, <2>3, NewTop
  <2>5. Held' \subseteq Needed
    BY <1>0, <2>1 DEF NeededInv, Held, Has
  <2> QED
    BY <1>2, <2>1, <2>4, <2>5, GatherKeeps
<1>4. CASE NextFile
  <2> DEFINE f == Head(stack[1].slice)
             t == [stack[1] EXCEPT !.slice = Tail(stack[1].slice)]
  <2>1. /\ InFrame /\ stack[1].slice # <<>>
        /\ UNCHANGED <<server, phase, services, names, left, slice, result>>
        /\ \/ files' = files /\ stack' = RestOfSlice
           \/ /\ files' = [files EXCEPT ![f] = "plain"]
              /\ stack' = <<Call(f)>> \o RestOfSlice
    BY <1>4 DEF NextFile, RestOfSlice
  <2>2. ToSet(stack[1].slice) = {f} \cup ToSet(Tail(stack[1].slice))
    BY <1>2, <2>1, HeadAndTail DEF Frame
  <2>3. /\ f \in Files /\ t \in Frame /\ RestOfSlice = [stack EXCEPT ![1] = t]
        /\ RestOfSlice \in Seq(Frame)
    BY <1>0, <1>2, <2>1, RestIsStack
  <2>4. t.deps = stack[1].deps /\ t.slice = Tail(stack[1].slice)
    BY <1>2, <2>1 DEF Frame
  <2>5. f \in Needed /\ Fits(t)
    BY <1>2, <2>1, <2>2, <2>4 DEF Fits
  <2> HIDE DEF f, t
  <2>6. \A i \in DOMAIN RestOfSlice : Fits(RestOfSlice[i])
    BY <1>2, <2>1, <2>3, <2>5, NewTop
  <2>7. \A i \in DOMAIN stack' : Fits(stack'[i])
    <3>1. CASE stack' = RestOfSlice
      BY <2>6, <3>1
    <3>2. CASE stack' = <<Call(f)>> \o RestOfSlice
      <4>1. Call(f) \in Frame /\ Fits(Call(f))
        BY <1>0, <2>5, CallFits
      <4>2. /\ DOMAIN stack' = 1..(Len(RestOfSlice) + 1) /\ stack'[1] = Call(f)
            /\ \A i \in 2..(Len(RestOfSlice) + 1) :
                  i - 1 \in DOMAIN RestOfSlice /\ stack'[i] = RestOfSlice[i - 1]
        BY <2>3, <3>2, <4>1, Push
      <4>3. Len(RestOfSlice) \in Nat
        BY <2>3
      <4>4. \A i \in DOMAIN stack' : i = 1 \/ i \in 2..(Len(RestOfSlice) + 1)
        BY <4>2, <4>3
      <4> QED
        BY <2>6, <4>1, <4>2, <4>4
    <3> QED
      BY <2>1, <3>1, <3>2
  <2>8. Held' \subseteq Needed
    BY <1>0, <2>1, <2>3, <2>5 DEF NeededInv, Held, Has, TypeOK
  <2> QED
    BY <1>2, <2>1, <2>7, <2>8, GatherKeeps
<1>5. CASE Return
  <2>1. /\ InFrame /\ stack' = Tail(stack)
        /\ UNCHANGED <<server, phase, services, names, files, left, slice, result>>
    BY <1>5 DEF Return
  <2>2. \A i \in DOMAIN stack' : i + 1 \in DOMAIN stack /\ stack'[i] = stack[i + 1]
    BY <1>2, <2>1
  <2>3. \A i \in DOMAIN stack' : Fits(stack'[i])
    BY <1>2, <2>1, <2>2
  <2>4. Held' \subseteq Needed
    BY <1>0, <2>1 DEF NeededInv, Held, Has
  <2> QED
    BY <1>2, <2>1, <2>3, <2>4, GatherKeeps
<1> QED
  BY <1>1, <1>3, <1>4, <1>5

-----------------------------------------------------------------------------
(* topoSort *)

\* A file that is imported by the file of the innermost call is not the file of any
\* call: the calls' files import each other, and no files do so in a circle.
LEMMA NoCircle ==
    ASSUME TypeOK, 1 \in DOMAIN stack,
           \A i \in DOMAIN stack : CallAt(stack, i, Out),
           NEW f \in Imports(stack[1].file)
    PROVE  \A j \in DOMAIN stack : stack[j].file # f
<1> SUFFICES ASSUME NEW j \in DOMAIN stack, stack[j].file = f
             PROVE  FALSE
  OBVIOUS
<1> DEFINE S == {stack[i].file : i \in 1..j}
<1>1. /\ stack \in Seq(Frame) /\ Len(stack) \in Nat /\ DOMAIN stack = 1..Len(stack)
      /\ j \in Nat /\ 1..j \subseteq DOMAIN stack /\ 1 \in 1..j /\ j \in 1..j
  BY DEF TypeOK
<1>2. ASSUME NEW i \in 1..j
      PROVE  stack[i].file \in Files
  <2>1. i \in DOMAIN stack
    BY <1>1
  <2>2. stack[i] \in Frame
    BY <1>1, <2>1
  <2> QED
    BY <2>2 DEF Frame
<1>3. S \in (SUBSET Files) \ {{}}
  BY <1>1, <1>2
<1>4. PICK g \in S : ToSet(server.imports[g]) \cap S = {}
  <2>1. Acyclic(server)
    BY ReflectionAssumption DEF TypeOK
  <2> HIDE DEF S
  <2> QED
    BY <1>3, <2>1 DEF Acyclic
<1>5. PICK i \in 1..j : g = stack[i].file
  OBVIOUS
<1>6. CASE i = 1
  <2>1. f \in S /\ f \in ToSet(server.imports[g])
    BY <1>1, <1>5, <1>6 DEF Imports
  <2> QED
    BY <1>4, <2>1
<1>7. CASE i # 1
  <2>1. i > 1 /\ i - 1 \in 1..j /\ i \in DOMAIN stack
    BY <1>1, <1>5, <1>7
  <2>2. stack[i - 1].file \in Imports(g)
    BY <1>5, <2>1 DEF CallAt, Awaited
  <2>3. stack[i - 1].file \in S
    BY <2>1
  <2> QED
    BY <1>4, <2>2, <2>3 DEF Imports
<1> QED
  BY <1>6, <1>7

\* A file that comes to the result after all its imports, and for the first time,
\* leaves it sorted.
LEMMA ResultGrows ==
    ASSUME TypeOK, OutInv, NEW f \in Held \ Out, Imports(f) \subseteq Out,
           result' = Append(result, f), UNCHANGED <<server, services, files>>
    PROVE  OutInv' /\ Out' = Out \cup {f}
<1>1. f \in Files
  BY DEF Held
<1>2. Out' = Out \cup {f}
  BY <1>1, AppendSet DEF Out, TypeOK
<1>3. /\ Len(result) \in Nat /\ DOMAIN result = 1..Len(result)
      /\ DOMAIN result' = 1..(Len(result) + 1)
      /\ result'[Len(result) + 1] = f
      /\ \A i \in 1..Len(result) : result'[i] = result[i]
  BY <1>1 DEF TypeOK
<1>4. \A i \in DOMAIN result' : i \in DOMAIN result \/ i = Len(result) + 1
  BY <1>3
<1>5. \A i \in DOMAIN result : result[i] \in Out
  BY DEF Out, ToSet
<1>6. IsInjective(result')
  <2> SUFFICES ASSUME NEW i \in DOMAIN result', NEW j \in DOMAIN result',
                      result'[i] = result'[j]
               PROVE  i = j
    BY DEF IsInjective
  <2>1. CASE i \in DOMAIN result /\ j \in DOMAIN result
    BY <1>3, <2>1 DEF OutInv, Sorted, IsInjective
  <2>2. CASE i = Len(result) + 1 \/ j = Len(result) + 1
    BY <1>3, <1>4, <1>5, <2>2
  <2> QED
    BY <1>4, <2>1, <2>2
<1>7. ASSUME NEW i \in DOMAIN result', NEW j \in DOMAIN result',
             result'[i] \in Imports(result'[j])
      PROVE  i < j
  <2>1. CASE j \in DOMAIN result
    <3>1. Imports(result'[j]) \subseteq Out
      BY <1>3, <1>5, <2>1 DEF OutInv, Closed, Imports
    <3>2. i \in DOMAIN result
      BY <1>3, <1>4, <1>7, <3>1
    <3> QED
      BY <1>3, <1>7, <2>1, <3>2 DEF OutInv, Sorted
  <2>2. CASE j = Len(result) + 1
    <3>1. i \in DOMAIN result
      BY <1>3, <1>4, <1>7, <2>2
    <3> QED
      BY <1>3, <2>2, <3>1
  <2> QED
    BY <1>4, <2>1, <2>2
<1>8. Sorted(result')
  BY <1>6, <1>7 DEF Sorted
<1>9. Sorted(result)'
  BY <1>8, NeededStays
<1>10. \A g \in Out' : Imports(g) \subseteq Out'
  BY <1>2 DEF OutInv, Closed, Imports
<1>11. Closed(Out)'
  BY <1>10 DEF Closed, Imports
<1>12. Held' = Held
  BY DEF Held, Has
<1> QED
  BY <1>2, <1>9, <1>11, <1>12 DEF OutInv

\* A result that stays is as sorted as before.
LEMMA ResultStays ==
    ASSUME OutInv, UNCHANGED <<server, services, files, result>>
    PROVE  OutInv' /\ Out' = Out
<1>1. Held' = Held /\ Out' = Out
  BY DEF Held, Has, Out
<1>2. Sorted(result)'
  BY NeededStays DEF OutInv
<1>3. Closed(Out)'
  BY <1>1 DEF OutInv, Closed
<1> QED
  BY <1>1, <1>2, <1>3 DEF OutInv

\* A step of topoSort keeps the invariant if the new result and the new calls are
\* as they should be.
LEMMA SortKeeps ==
    ASSUME IInv, SInv, phase = "sort",
           UNCHANGED <<server, phase, services, names, files, slice>>,
           OutInv',
           Home \subseteq Out' \cup ToSet(left') \cup OpenFiles',
           \A i \in DOMAIN stack' : CallAt(stack', i, Out'),
           Distinct(stack')
    PROVE  SInv'
<1>1. Held' = Held /\ Needed' = Needed /\ Home' = Home
      /\ \A f : Imports(f)' = Imports(f)
  BY NeededStays DEF Held, Has
<1>2. CallInv'
  BY <1>1 DEF CallInv, CallAt, Awaited, Distinct
<1>3. StartInv' /\ NeededInv' /\ HomeInv'
  BY <1>1 DEF SInv, StartInv, NeededInv, HomeInv
<1> QED
  BY <1>2, <1>3 DEF SInv

\* The files of the services are in the map, and what it holds imports only what it
\* holds.
LEMMA MapIsComplete ==
    ASSUME IInv, phase = "sort"
    PROVE  /\ Home \subseteq Held
           /\ \A f \in Held : Imports(f) \subseteq Held
<1>1. TypeOK /\ AnnotatedInv /\ ResultInv
  BY DEF IInv
<1>2. ASSUME NEW s \in ToSet(services)
      PROVE  server.home[s] \in Held
  <2>1. server.home[s] \in Files
    BY <1>1, HomeIsFiles DEF Home
  <2> QED
    BY <1>1, <2>1 DEF AnnotatedInv, Held, Has
<1>3. Home \subseteq Held
  BY <1>2 DEF Home
<1> QED
  BY <1>1, <1>3 DEF ResultInv, Closed, Imports

\* The call for a file has still to look at all its imports.
LEMMA CallStarts ==
    ASSUME TypeOK, NEW f \in Held \ Out, NEW st, st[1] = Call(f)
    PROVE  Call(f) \in Frame /\ CallAt(st, 1, Out)
<1>1. f \in Files /\ f \in Held \ Out
  BY DEF Held
<1>2. st[1].file = f /\ ToSet(st[1].deps) = Imports(f) /\ Awaited(st, 1) = {}
  BY DEF Call, Imports, Awaited
<1> QED
  BY <1>1, <1>2, CallIsFrame DEF CallAt

\* The outermost loop of topoSort calls it for a name that is in the map.
LEMMA SortNameKeeps ==
    ASSUME IInv, SInv, SortName
    PROVE  SInv'
<1> USE DEF answers
<1> DEFINE f == Head(left)
<1>0. TypeOK /\ NamesInv /\ HomeInv /\ OutInv
  BY DEF IInv, SInv
<1>1. /\ phase = "sort" /\ stack = <<>> /\ left # <<>> /\ left' = Tail(left)
      /\ stack' = IF InMap(f) THEN <<Call(f)>> ELSE stack
      /\ UNCHANGED <<server, phase, services, names, files, slice, result>>
  BY DEF SortName
<1>2. f \in Files /\ ToSet(left) = {f} \cup ToSet(Tail(left))
  BY <1>0, <1>1, HeadAndTail DEF NamesInv
<1>3. OutInv' /\ Out' = Out
  BY <1>0, <1>1, ResultStays
<1>4. OpenFiles = {} /\ Home \subseteq Out \cup {f} \cup ToSet(left')
  BY <1>0, <1>1, <1>2 DEF OpenFiles, HomeInv
<1> HIDE DEF f
<1>5. CASE InMap(f)
  <2>1. f \in Held \ Out
    BY <1>2, <1>5 DEF InMap, Held, Out
  <2>2. DOMAIN stack' = {1} /\ stack'[1] = Call(f)
    BY <1>1, <1>5
  <2>3. OpenFiles' = {f} /\ Distinct(stack')
    BY <2>2 DEF OpenFiles, Call, Distinct
  <2>4. \A i \in DOMAIN stack' : CallAt(stack', i, Out')
    BY <1>0, <1>3, <2>1, <2>2, CallStarts
  <2> QED
    BY <1>1, <1>3, <1>4, <2>3, <2>4, SortKeeps
<1>6. CASE ~InMap(f)
  <2>1. f \in Out \/ f \notin Home
    BY <1>1, <1>2, <1>6, MapIsComplete DEF InMap, Held, Out
  <2>2. Home \subseteq Out' \cup ToSet(left') \cup OpenFiles'
    BY <1>3, <1>4, <2>1
  <2>3. DOMAIN stack' = {}
    BY <1>1, <1>6
  <2> QED
    BY <1>1, <1>3, <2>2, <2>3, SortKeeps DEF Distinct
<1> QED
  BY <1>5, <1>6

\* The calls, without the import that the innermost one looks at.
Looked == [stack EXCEPT ![1].deps = Tail(@)]

\* The innermost call goes on to its next import.
LEMMA LookedCalls ==
    ASSUME IInv, SInv, phase = "sort", stack # <<>>, stack[1].deps # <<>>
    PROVE  /\ Looked \in Seq(Frame) /\ 1 \in DOMAIN stack
           /\ DOMAIN Looked = DOMAIN stack
           /\ \A i \in DOMAIN stack : Looked[i].file = stack[i].file
           /\ ToSet(stack[1].deps) = {Head(stack[1].deps)} \cup ToSet(Looked[1].deps)
           /\ \A i \in DOMAIN stack : i # 1 => Looked[i] = stack[i]
<1>1. TypeOK
  BY DEF IInv
<1>2. 1 \in DOMAIN stack /\ stack[1] \in Frame
  BY <1>1, TopFrame DEF TypeOK
<1>3. <<>> \in Seq(Files)
  OBVIOUS
<1>4. /\ Looked = [stack EXCEPT ![1] = Skipping]
      /\ stack \in Seq(Frame) /\ Skipping \in Frame
  BY <1>1, <1>3, NextImport DEF Looked
<1>5. /\ Looked \in Seq(Frame) /\ DOMAIN Looked = DOMAIN stack
      /\ \A i \in DOMAIN stack : Looked[i] = IF i = 1 THEN Skipping ELSE stack[i]
  BY <1>4, NewTop
<1>6. Skipping.file = stack[1].file /\ Skipping.deps = Tail(stack[1].deps)
  BY <1>2 DEF Skipping, Frame
<1>7. ToSet(stack[1].deps) = {Head(stack[1].deps)} \cup ToSet(Tail(stack[1].deps))
  BY <1>2, HeadAndTail DEF Frame
<1> QED
  BY <1>2, <1>5, <1>6, <1>7

\* The loop of topoSort over the imports of a file.
LEMMA SortImportKeeps ==
    ASSUME IInv, SInv, SortImport
    PROVE  SInv'
<1> USE DEF answers
<1> DEFINE f == Head(stack[1].deps)
<1>0. TypeOK /\ HomeInv /\ OutInv /\ CallInv
  BY DEF IInv, SInv
<1>1. /\ phase = "sort" /\ stack # <<>> /\ stack[1].deps # <<>>
      /\ stack' = IF InMap(f) THEN <<Call(f)>> \o Looked ELSE Looked
      /\ UNCHANGED <<server, phase, services, names, files, left, slice, result>>
  BY DEF SortImport, Looked
<1>2. /\ Looked \in Seq(Frame) /\ 1 \in DOMAIN stack
      /\ DOMAIN Looked = DOMAIN stack
      /\ \A i \in DOMAIN stack : Looked[i].file = stack[i].file
      /\ ToSet(stack[1].deps) = {f} \cup ToSet(Looked[1].deps)
      /\ \A i \in DOMAIN stack : i # 1 => Looked[i] = stack[i]
  BY <1>1, LookedCalls
<1> HIDE DEF f
<1>3. OutInv' /\ Out' = Out
  BY <1>0, <1>1, ResultStays
<1>4. /\ \A i \in DOMAIN stack : CallAt(stack, i, Out)
      /\ Distinct(stack)
      /\ Home \subseteq Out \cup ToSet(left) \cup OpenFiles
  BY <1>0, <1>1 DEF CallInv, HomeInv
<1>5. f \in Imports(stack[1].file) /\ stack[1].file \in Held
  BY <1>2, <1>4 DEF CallAt
<1>6. f \in Held
  BY <1>1, <1>5, MapIsComplete
<1>7. ASSUME NEW i \in DOMAIN stack, i # 1
      PROVE  CallAt(Looked, i, Out)
  <2>1. CallAt(stack, i, Out) /\ Looked[i] = stack[i]
    BY <1>2, <1>4, <1>7
  <2>2. Awaited(Looked, i) = Awaited(stack, i)
    <3>1. i > 1 => i - 1 \in DOMAIN stack
      BY <1>0 DEF TypeOK
    <3> QED
      BY <1>2, <3>1 DEF Awaited
  <2> QED
    BY <2>1, <2>2 DEF CallAt
<1>8. /\ ToSet(Looked[1].deps) \subseteq Imports(stack[1].file)
      /\ Imports(stack[1].file) \subseteq Out \cup {f} \cup ToSet(Looked[1].deps)
  BY <1>2, <1>4 DEF CallAt, Awaited
<1>9. CASE ~InMap(f)
  <2>1. f \in Out /\ stack' = Looked
    BY <1>1, <1>6, <1>9 DEF InMap, Held, Out
  <2>2. CallAt(Looked, 1, Out)
    BY <1>2, <1>4, <1>8, <2>1 DEF CallAt, Awaited
  <2>3. OpenFiles' = OpenFiles /\ Distinct(stack')
    BY <1>2, <1>4, <2>1 DEF OpenFiles, Distinct
  <2>4. \A i \in DOMAIN stack' : CallAt(stack', i, Out')
    BY <1>2, <1>3, <1>7, <2>1, <2>2
  <2> QED
    BY <1>1, <1>3, <1>4, <2>3, <2>4, SortKeeps
<1>10. CASE InMap(f)
  <2>1. f \in Held \ Out /\ stack' = <<Call(f)>> \o Looked
    BY <1>1, <1>6, <1>10 DEF InMap, Out
  <2>2. Call(f) \in Frame
    BY <1>0, <1>6, CallIsFrame DEF Held
  <2>3. /\ DOMAIN stack' = 1..(Len(Looked) + 1) /\ stack'[1] = Call(f)
        /\ \A i \in DOMAIN Looked : stack'[i + 1] = Looked[i]
        /\ \A i \in 2..(Len(Looked) + 1) :
              i - 1 \in DOMAIN Looked /\ stack'[i] = Looked[i - 1]
    BY <1>2, <2>1, <2>2, Push
  <2>4. Len(Looked) \in Nat /\ DOMAIN Looked = 1..Len(Looked)
    BY <1>2
  <2>5. \A i \in DOMAIN stack' : i = 1 \/ i \in 2..(Len(Looked) + 1)
    BY <2>3, <2>4
  <2>6. CallAt(stack', 1, Out)
    BY <1>0, <2>1, <2>3, CallStarts
  <2>7. stack'[1].file = f
    BY <2>3 DEF Call
  <2>8. ASSUME NEW i \in 2..(Len(Looked) + 1)
        PROVE  /\ i - 1 \in DOMAIN stack /\ i > 1 /\ i # 1
               /\ stack'[i] = Looked[i - 1]
               /\ stack'[i].file = stack[i - 1].file
    BY <1>2, <2>3
  <2>9. ASSUME NEW i \in 2..(Len(Looked) + 1)
        PROVE  CallAt(stack', i, Out)
    <3>1. CASE i = 2
      <4>1. /\ stack'[i].file = stack[1].file /\ stack'[i].deps = Looked[1].deps
            /\ Awaited(stack', i) = {f}
        BY <2>7, <2>8, <3>1 DEF Awaited
      <4> QED
        BY <1>2, <1>4, <1>5, <1>8, <4>1 DEF CallAt
    <3>2. CASE i # 2
      <4>1. i - 1 \in 2..(Len(Looked) + 1) /\ i - 1 \in DOMAIN stack /\ i - 1 # 1
        BY <2>4, <2>8, <3>2
      <4>2. CallAt(Looked, i - 1, Out)
        BY <1>7, <4>1
      <4>3. stack'[i - 1] = Looked[(i - 1) - 1] /\ stack'[i] = Looked[i - 1]
        BY <2>8, <4>1
      <4>4. Awaited(stack', i) = Awaited(Looked, i - 1)
        BY <2>8, <4>1, <4>3 DEF Awaited
      <4> QED
        BY <4>2, <4>3, <4>4 DEF CallAt
    <3> QED
      BY <3>1, <3>2
  <2>10. \A i \in DOMAIN stack' : CallAt(stack', i, Out')
    BY <1>3, <2>5, <2>6, <2>9
  <2>11. \A i \in DOMAIN stack : stack[i].file # f
    BY <1>0, <1>2, <1>4, <1>5, NoCircle
  <2>12. Distinct(stack')
    <3> SUFFICES ASSUME NEW i \in DOMAIN stack', NEW j \in DOMAIN stack',
                        stack'[i].file = stack'[j].file
                 PROVE  i = j
      BY DEF Distinct
    <3>1. CASE i = 1 \/ j = 1
      BY <2>5, <2>7, <2>8, <2>11, <3>1
    <3>2. CASE i # 1 /\ j # 1
      <4>1. /\ i - 1 \in DOMAIN stack /\ j - 1 \in DOMAIN stack
            /\ stack[i - 1].file = stack[j - 1].file
        BY <2>5, <2>8, <3>2
      <4>2. i - 1 = j - 1 /\ i \in Int /\ j \in Int
        BY <1>4, <2>3, <2>4, <4>1 DEF Distinct
      <4> QED
        BY <4>2
    <3> QED
      BY <3>1, <3>2
  <2>13. OpenFiles \subseteq OpenFiles'
    <3> SUFFICES ASSUME NEW i \in DOMAIN stack
                 PROVE  stack[i].file \in OpenFiles'
      BY DEF OpenFiles
    <3>1. i + 1 \in DOMAIN stack' /\ stack'[i + 1] = Looked[i]
      BY <1>2, <2>3, <2>4
    <3> QED
      BY <1>2, <3>1 DEF OpenFiles
  <2> QED
    BY <1>1, <1>3, <1>4, <2>10, <2>12, <2>13, SortKeeps
<1> QED
  BY <1>9, <1>10

\* The file of a call comes to the result when the call has looked at all imports.
LEMMA EmitKeeps ==
    ASSUME IInv, SInv, Emit
    PROVE  SInv'
<1> DEFINE f == stack[1].file
<1>0. TypeOK /\ HomeInv /\ OutInv /\ CallInv
  BY DEF IInv, SInv
<1>1. /\ phase = "sort" /\ stack # <<>> /\ stack[1].deps = <<>>
      /\ result' = Append(result, f) /\ stack' = Tail(stack)
      /\ UNCHANGED <<server, phase, services, names, files, left, slice>>
  BY DEF Emit
<1>2. /\ 1 \in DOMAIN stack /\ Len(stack) \in Nat
      /\ DOMAIN stack = 1..Len(stack) /\ DOMAIN stack' = 1..(Len(stack) - 1)
      /\ \A i \in 1..(Len(stack) - 1) : stack'[i] = stack[i + 1]
  BY <1>0, <1>1 DEF TypeOK
<1>3. /\ \A i \in DOMAIN stack : CallAt(stack, i, Out)
      /\ Distinct(stack)
      /\ Home \subseteq Out \cup ToSet(left) \cup OpenFiles
  BY <1>0, <1>1 DEF CallInv, HomeInv
<1>4. f \in Held \ Out /\ Imports(f) \subseteq Out
  BY <1>1, <1>2, <1>3, EmptySet DEF CallAt, Awaited
<1>5. OutInv' /\ Out' = Out \cup {f}
  BY <1>0, <1>1, <1>4, ResultGrows
<1>6. ASSUME NEW i \in DOMAIN stack'
      PROVE  /\ i \in Int /\ i + 1 \in DOMAIN stack /\ i + 1 > 1
             /\ stack'[i] = stack[i + 1]
             /\ stack[i + 1].file # f
  <2>1. /\ i \in Int /\ i + 1 \in DOMAIN stack /\ i + 1 > 1 /\ i + 1 # 1
        /\ stack'[i] = stack[i + 1]
    BY <1>2
  <2> QED
    BY <1>2, <1>3, <2>1 DEF Distinct
<1>7. ASSUME NEW i \in DOMAIN stack'
      PROVE  CallAt(stack', i, Out')
  <2>1. CallAt(stack, i + 1, Out) /\ stack'[i] = stack[i + 1]
    BY <1>3, <1>6
  <2>2. Awaited(stack', i) = Awaited(stack, i + 1) \/
        (Awaited(stack', i) = {} /\ Awaited(stack, i + 1) = {f})
    <3>1. CASE i = 1
      BY <1>6, <3>1 DEF Awaited
    <3>2. CASE i # 1
      <4>1. i > 1 /\ i - 1 \in DOMAIN stack' /\ (i - 1) + 1 = (i + 1) - 1
        BY <1>2, <3>2
      <4>2. stack'[i - 1] = stack[(i + 1) - 1]
        BY <1>6, <4>1
      <4> QED
        BY <1>6, <4>1, <4>2 DEF Awaited
    <3> QED
      BY <3>1, <3>2
  <2> QED
    BY <1>5, <1>6, <2>1, <2>2 DEF CallAt
<1>8. Distinct(stack')
  <2> SUFFICES ASSUME NEW i \in DOMAIN stack', NEW j \in DOMAIN stack',
                      stack'[i].file = stack'[j].file
               PROVE  i = j
    BY DEF Distinct
  <2>1. i + 1 = j + 1 /\ i \in Int /\ j \in Int
    BY <1>3, <1>6 DEF Distinct
  <2> QED
    BY <2>1
<1>9. OpenFiles \subseteq OpenFiles' \cup {f}
  <2> SUFFICES ASSUME NEW i \in DOMAIN stack, i # 1
               PROVE  stack[i].file \in OpenFiles'
    BY DEF OpenFiles
  <2>1. i - 1 \in DOMAIN stack' /\ stack'[i - 1] = stack[i]
    BY <1>2
  <2> QED
    BY <2>1 DEF OpenFiles
<1>10. Home \subseteq Out' \cup ToSet(left') \cup OpenFiles'
  BY <1>1, <1>3, <1>5, <1>9
<1> QED
  BY <1>1, <1>5, <1>7, <1>8, <1>10, SortKeeps

-----------------------------------------------------------------------------
(* All steps *)

\* The loops give way to topoSort, and topoSort to the filter.
LEMMA SwitchesKeep ==
    ASSUME IInv, SInv, BeginSort \/ EndSort \/ FilterServices
    PROVE  SInv'
<1> USE DEF locals, answers
<1>0. /\ TypeOK /\ StartInv /\ NeededInv /\ HomeInv /\ OutInv
  BY DEF IInv, SInv
<1>1. UNCHANGED <<server, services, names, files, slice, result>>
  BY DEF BeginSort, EndSort, FilterServices
<1>2. OutInv' /\ Out' = Out
  BY <1>0, <1>1, ResultStays
<1>3. Held' = Held /\ Needed' = Needed /\ Home' = Home
  BY <1>1, NeededStays DEF Held, Has
<1>4. phase' \in {"sort", "filter", "slicepanic", "ok"}
  BY DEF BeginSort, EndSort, FilterServices
<1>5. StartInv' /\ NeededInv'
  BY <1>0, <1>1, <1>3, <1>4 DEF StartInv, NeededInv
<1>6. CASE BeginSort
  <2>1. /\ phase = "imports" /\ phase' = "sort" /\ left' = names
        /\ DOMAIN stack' = {}
    BY <1>6 DEF BeginSort
  <2>2. HomeInv' /\ CallInv'
    BY <1>0, <1>3, <2>1 DEF HomeInv, CallInv, Distinct
  <2> QED
    BY <1>2, <1>5, <2>2 DEF SInv
<1>7. CASE EndSort
  <2>1. /\ phase = "sort" /\ phase' = "filter" /\ left = <<>>
        /\ DOMAIN stack = {}
    BY <1>7 DEF EndSort
  <2>2. ToSet(left) = {} /\ OpenFiles = {}
    BY <2>1, EmptySet DEF OpenFiles
  <2>3. HomeInv' /\ CallInv'
    BY <1>0, <1>2, <1>3, <2>1, <2>2 DEF HomeInv, CallInv
  <2> QED
    BY <1>2, <1>5, <2>3 DEF SInv
<1>8. CASE FilterServices
  <2>1. phase = "filter" /\ phase' \in {"slicepanic", "ok"}
    BY <1>8 DEF FilterServices
  <2>2. HomeInv' /\ CallInv'
    BY <1>0, <1>2, <1>3, <2>1 DEF HomeInv, CallInv
  <2> QED
    BY <1>2, <1>5, <2>2 DEF SInv
<1> QED
  BY <1>6, <1>7, <1>8

\* A call that fails ends the query, or begins a new attempt with nothing.
LEMMA FailuresKeep ==
    ASSUME IInv, SInv, AskFails \/ AskRefused
    PROVE  SInv'
<1> USE DEF locals, answers
<1>0. FreshInv /\ StartInv /\ NeededInv
  BY DEF IInv, SInv
<1>1. phase \in {"list", "symbols", "imports"} /\ UNCHANGED <<server, result>>
  BY DEF AskFails, AskRefused, Asks, NeedsImport, InFrame
<1>2. result' = <<>>
  BY <1>0, <1>1 DEF StartInv
<1>3. OutInv'
  BY <1>2, EmptyResult
<1>4. CASE Again
  <2>1. /\ phase' \in {"list", "failed"} /\ files' = NoFiles
        /\ names' = <<>> /\ slice' = <<>>
    BY <1>4 DEF Again
  <2>2. Held' = {} /\ ToSet(names') = {} /\ ToSet(slice') = {}
    BY <2>1, EmptySet DEF Held, Has, NoFiles
  <2> QED
    BY <1>2, <1>3, <2>1, <2>2 DEF SInv, StartInv, NeededInv, HomeInv, CallInv
<1>5. CASE /\ UNCHANGED <<services, names, files, left, slice, stack>>
           /\ phase' \in {"failed", "nilpanic"} \/ (phase = "list" /\ phase' = "symbols")
  <2>1. Held' = Held /\ Needed' = Needed
    BY <1>1, <1>5, NeededStays DEF Held, Has
  <2>2. phase = "list" => left' = <<>> /\ ToSet(left') = {}
    BY <1>0, <1>5, EmptySet DEF FreshInv
  <2> QED
    BY <1>0, <1>2, <1>3, <1>5, <2>1, <2>2
       DEF SInv, StartInv, NeededInv, HomeInv, CallInv
<1> QED
  BY <1>4, <1>5 DEF AskFails, AskRefused

\* The invariant holds always.
LEMMA SortInvariance == Spec => []SInv
<1>1. Init => SInv
  <2> SUFFICES ASSUME Init
               PROVE  SInv
    OBVIOUS
  <2>1. /\ Held = {} /\ Out = {} /\ ToSet(names) = {} /\ ToSet(slice) = {}
        /\ DOMAIN result = {}
    BY EmptySet DEF Init, Held, Has, NoFiles, Out
  <2> QED
    BY <2>1 DEF Init, SInv, StartInv, NeededInv, HomeInv, OutInv, Sorted,
       IsInjective, Closed, CallInv
<1>2. IInv /\ SInv /\ [Next]_vars => SInv'
  <2> SUFFICES ASSUME IInv, SInv, [Next]_vars
               PROVE  SInv'
    OBVIOUS
  <2>1. CASE EndSort \/ BeginSort \/ FilterServices
    BY <2>1, SwitchesKeep
  <2>2. CASE Next /\ ~(EndSort \/ BeginSort \/ FilterServices)
    BY <2>2, SymbolsKeep, ImportsKeep, SortNameKeeps, SortImportKeeps, EmitKeeps,
       FailuresKeep DEF Next
  <2>3. CASE UNCHANGED vars
    <3>1. /\ UNCHANGED <<server, phase, services, names, files, left, slice>>
          /\ UNCHANGED <<stack, result>>
      BY <2>3 DEF vars
    <3>2. /\ Held' = Held /\ Needed' = Needed /\ Home' = Home /\ Out' = Out
          /\ OpenFiles' = OpenFiles /\ \A f : Imports(f)' = Imports(f)
      BY <3>1, NeededStays DEF Held, Has, Out, OpenFiles
    <3>3. OutInv'
      BY <3>1, ResultStays DEF SInv
    <3>4. CallInv'
      BY <3>1, <3>2 DEF SInv, CallInv, CallAt, Awaited, Distinct
    <3>5. StartInv' /\ NeededInv' /\ HomeInv'
      BY <3>1, <3>2 DEF SInv, StartInv, NeededInv, Fits, HomeInv
    <3> QED
      BY <3>3, <3>4, <3>5 DEF SInv
  <2> QED
    BY <2>1, <2>2, <2>3
<1> QED
  BY <1>1, <1>2, Inductive, PTL DEF Spec

-----------------------------------------------------------------------------
(* The theorem *)

\* What getFileDescriptorSet returns holds the files of the server's services and all
\* that they import, nothing else, each once and after its imports, whatever the
\* server sends with what, and whichever calls fail before.
THEOREM AnswerIsSorted == Spec => []SortedAndComplete
<1>1. IInv /\ SInv => SortedAndComplete
  <2> SUFFICES ASSUME IInv, SInv, phase = "ok"
               PROVE  /\ IsInjective(result)
                      /\ ToSet(result) = Closure(Home)
                      /\ \A i, j \in DOMAIN result :
                            result[i] \in ToSet(server.imports[result[j]]) => i < j
    BY DEF SortedAndComplete
  <2>1. NeededInv /\ HomeInv /\ OutInv
    BY DEF SInv
  <2>2. Out \subseteq Needed /\ Out \subseteq Files
    BY <2>1 DEF NeededInv, OutInv, Held
  <2>3. Needed \subseteq Out
    BY <2>1, <2>2, ClosureIsLeast DEF HomeInv, OutInv, Needed
  <2> QED
    BY <2>1, <2>2, <2>3 DEF OutInv, Sorted, Imports, Needed, Out
<1> QED
  BY <1>1, Inductive, SortInvariance, PTL

=============================================================================
