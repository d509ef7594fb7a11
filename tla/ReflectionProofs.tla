-------------------------- MODULE ReflectionProofs --------------------------
(***************************************************************************)
(* Proofs about Reflection, for any files, services and servers, any       *)
(* number of retries and any faults.                                       *)
(***************************************************************************)
EXTENDS Reflection, TLAPS

-----------------------------------------------------------------------------
(* Sequences *)

\* What taking the head off a sequence leaves.
LEMMA HeadAndTail ==
    ASSUME NEW S, NEW s \in Seq(S), s # <<>>
    PROVE  /\ Head(s) \in S
           /\ Tail(s) \in Seq(S)
           /\ ToSet(s) = {Head(s)} \cup ToSet(Tail(s))
<1>1. Head(s) \in S /\ Tail(s) \in Seq(S) /\ Len(s) \in Nat \ {0}
  OBVIOUS
<1>2. /\ DOMAIN s = 1..Len(s) /\ DOMAIN Tail(s) = 1..(Len(s) - 1)
      /\ Head(s) = s[1]
      /\ \A i \in 1..(Len(s) - 1) : Tail(s)[i] = s[i + 1]
  BY <1>1
<1>3. ToSet(s) \subseteq {Head(s)} \cup ToSet(Tail(s))
  <2> SUFFICES ASSUME NEW i \in 1..Len(s)
               PROVE  s[i] \in {Head(s)} \cup ToSet(Tail(s))
    BY <1>2 DEF ToSet
  <2>1. CASE i = 1
    BY <2>1, <1>2
  <2>2. CASE i # 1
    <3>1. i - 1 \in 1..(Len(s) - 1) /\ s[i] = Tail(s)[i - 1]
      BY <2>2, <1>1, <1>2
    <3> QED
      BY <3>1, <1>2 DEF ToSet
  <2> QED
    BY <2>1, <2>2
<1>4. {Head(s)} \cup ToSet(Tail(s)) \subseteq ToSet(s)
  <2>1. Head(s) \in ToSet(s)
    BY <1>1, <1>2 DEF ToSet
  <2>2. ASSUME NEW i \in 1..(Len(s) - 1)
        PROVE  Tail(s)[i] \in ToSet(s)
    <3>1. i + 1 \in 1..Len(s)
      BY <1>1
    <3> QED
      BY <3>1, <1>2 DEF ToSet
  <2> QED
    BY <2>1, <2>2, <1>2 DEF ToSet
<1> QED
  BY <1>1, <1>3, <1>4

\* What Append adds.
LEMMA AppendSet ==
    ASSUME NEW S, NEW s \in Seq(S), NEW e \in S
    PROVE  /\ Append(s, e) \in Seq(S)
           /\ ToSet(Append(s, e)) = ToSet(s) \cup {e}
<1>1. /\ Append(s, e) \in Seq(S) /\ Len(s) \in Nat
      /\ DOMAIN s = 1..Len(s) /\ DOMAIN Append(s, e) = 1..(Len(s) + 1)
      /\ Append(s, e)[Len(s) + 1] = e
      /\ \A i \in 1..Len(s) : Append(s, e)[i] = s[i]
  OBVIOUS
<1>2. \A i \in 1..(Len(s) + 1) : i \in 1..Len(s) \/ i = Len(s) + 1
  BY <1>1
<1>3. 1..Len(s) \subseteq 1..(Len(s) + 1) /\ Len(s) + 1 \in 1..(Len(s) + 1)
  BY <1>1
<1> QED
  BY <1>1, <1>2, <1>3 DEF ToSet

\* Nothing is in an empty sequence.
LEMMA EmptySet == ToSet(<<>>) = {}
BY DEF ToSet

\* A list of files is a sequence of files.
LEMMA ListsAreSequences == Lists \subseteq Seq(Files)
<1> SUFFICES ASSUME NEW n \in 0..Cardinality(Files), NEW s \in [1..n -> Files]
             PROVE  s \in Seq(Files)
  BY DEF Lists
<1>1. n \in Nat
  OBVIOUS
<1> QED
  BY <1>1

-----------------------------------------------------------------------------
(* Type correctness *)

\* The top of the stack, as a frame of its own.
LEMMA TopFrame ==
    ASSUME stack \in Seq(Frame), stack # <<>>
    PROVE  /\ 1 \in DOMAIN stack
           /\ stack[1] \in Frame
           /\ Tail(stack) \in Seq(Frame)
OBVIOUS

\* A frame may be replaced by another.
LEMMA NewTop ==
    ASSUME NEW s \in Seq(Frame), s # <<>>, NEW t \in Frame
    PROVE  /\ [s EXCEPT ![1] = t] \in Seq(Frame)
           /\ DOMAIN [s EXCEPT ![1] = t] = DOMAIN s
           /\ [s EXCEPT ![1] = t] # <<>>
           /\ \A i \in DOMAIN s : [s EXCEPT ![1] = t][i] = IF i = 1 THEN t ELSE s[i]
<1>1. Len(s) \in Nat /\ DOMAIN s = 1..Len(s) /\ 1 \in DOMAIN s
  OBVIOUS
<1>2. [s EXCEPT ![1] = t] \in [1..Len(s) -> Frame]
  BY <1>1
<1>3. [s EXCEPT ![1] = t] \in Seq(Frame)
  BY <1>1, <1>2
<1> QED
  BY <1>1, <1>2, <1>3

\* A call puts its frame on the stack.
LEMMA Push ==
    ASSUME NEW s \in Seq(Frame), NEW t \in Frame
    PROVE  /\ <<t>> \o s \in Seq(Frame)
           /\ DOMAIN (<<t>> \o s) = 1..(Len(s) + 1)
           /\ (<<t>> \o s)[1] = t
           /\ \A i \in DOMAIN s : (<<t>> \o s)[i + 1] = s[i]
           /\ \A i \in 2..(Len(s) + 1) :
                 i - 1 \in DOMAIN s /\ (<<t>> \o s)[i] = s[i - 1]
<1>1. /\ <<t>> \in Seq(Frame) /\ Len(<<t>>) = 1 /\ <<t>>[1] = t
      /\ Len(s) \in Nat /\ DOMAIN s = 1..Len(s)
  OBVIOUS
<1>2. <<t>> \o s \in Seq(Frame) /\ Len(<<t>> \o s) = Len(s) + 1
  BY <1>1
<1>3. DOMAIN (<<t>> \o s) = 1..(Len(s) + 1)
  BY <1>2
<1>4. (<<t>> \o s)[1] = t
  BY <1>1
<1>5. \A i \in 2..(Len(s) + 1) : i - 1 \in DOMAIN s /\ (<<t>> \o s)[i] = s[i - 1]
  BY <1>1
<1>6. \A i \in DOMAIN s : (<<t>> \o s)[i + 1] = s[i]
  <2> SUFFICES ASSUME NEW i \in 1..Len(s)
               PROVE  (<<t>> \o s)[i + 1] = s[i]
    BY <1>1
  <2>1. i + 1 \in 2..(Len(s) + 1) /\ (i + 1) - 1 = i
    BY <1>1
  <2> QED
    BY <2>1, <1>5
<1> QED
  BY <1>2, <1>3, <1>4, <1>5, <1>6

\* The frame of a call that begins.
LEMMA CallIsFrame ==
    ASSUME TypeOK, NEW f \in Files
    PROVE  Call(f) \in Frame
<1>1. server \in Server
  BY ReflectionAssumption DEF TypeOK
<1>2. server.imports[f] \in Seq(Files)
  BY <1>1, ListsAreSequences DEF Server
<1> QED
  BY <1>2 DEF Call, Frame

\* What the loop over an answer leaves of its frame.
RestOfSlice == [stack EXCEPT ![1].slice = Tail(@)]

\* Without its first file the slice is still a sequence of files, and the frame
\* and the stack around it are still a frame and a stack.
LEMMA RestIsStack ==
    ASSUME TypeOK, stack # <<>>, stack[1].slice # <<>>
    PROVE  /\ Head(stack[1].slice) \in Files
           /\ RestOfSlice = [stack EXCEPT ![1] =
                  [stack[1] EXCEPT !.slice = Tail(stack[1].slice)]]
           /\ [stack[1] EXCEPT !.slice = Tail(stack[1].slice)] \in Frame
           /\ RestOfSlice \in Seq(Frame)
<1>1. stack \in Seq(Frame) /\ stack[1] \in Frame
  BY TopFrame DEF TypeOK
<1>2. stack[1].slice \in Seq(Files)
  BY <1>1 DEF Frame
<1>3. Head(stack[1].slice) \in Files /\ Tail(stack[1].slice) \in Seq(Files)
  BY <1>2, HeadAndTail
<1>4. [stack[1] EXCEPT !.slice = Tail(stack[1].slice)] \in Frame
  BY <1>1, <1>3 DEF Frame
<1>5. RestOfSlice = [stack EXCEPT ![1] =
                  [stack[1] EXCEPT !.slice = Tail(stack[1].slice)]]
  BY DEF RestOfSlice
<1> QED
  BY <1>1, <1>3, <1>4, <1>5, NewTop

\* The top frame after an import that is there already, and after an answer.
Skipping == [stack[1] EXCEPT !.deps = Tail(stack[1].deps)]

Asking(answer) ==
    [stack[1] EXCEPT !.deps = Tail(stack[1].deps), !.slice = answer]

\* They are frames.
LEMMA NextImport ==
    ASSUME TypeOK, stack # <<>>, stack[1].deps # <<>>, NEW answer \in Seq(Files)
    PROVE  /\ stack \in Seq(Frame)
           /\ Skipping \in Frame /\ Asking(answer) \in Frame
           /\ [stack EXCEPT ![1].deps = Tail(@)] = [stack EXCEPT ![1] = Skipping]
           /\ [stack EXCEPT ![1].deps = Tail(@), ![1].slice = answer]
                = [stack EXCEPT ![1] = Asking(answer)]
<1>1. stack \in Seq(Frame) /\ stack[1] \in Frame /\ 1 \in DOMAIN stack
  BY TopFrame DEF TypeOK
<1>2. Tail(stack[1].deps) \in Seq(Files)
  BY <1>1, HeadAndTail DEF Frame
<1>3. Skipping \in Frame /\ Asking(answer) \in Frame
  BY <1>1, <1>2 DEF Skipping, Asking, Frame
<1>4. [stack EXCEPT ![1].deps = Tail(@)] = [stack EXCEPT ![1] = Skipping]
  BY DEF Skipping
<1>5. [stack EXCEPT ![1].deps = Tail(@), ![1].slice = answer]
        = [stack EXCEPT ![1] = Asking(answer)]
  BY <1>1 DEF Asking
<1> QED
  BY <1>1, <1>3, <1>4, <1>5

-----------------------------------------------------------------------------
(* The inductive invariant *)

Held == {f \in Files : Has(f)}

Imports(f) == ToSet(server.imports[f])

OpenFiles == {stack[i].file : i \in DOMAIN stack}

\* An attempt begins with nothing.
FreshInv ==
    phase \in {"dial", "list"} =>
        services = <<>> /\ files = NoFiles /\ left = <<>> /\ stack = <<>>

\* The loop over the services annotates all it stores, and has stored the file of
\* every service that it is done with.
SymbolInv ==
    phase = "symbols" =>
        /\ left \in Seq(Services)
        /\ stack = <<>>
        /\ \A f \in Files : files[f] # "plain" /\ (Has(f) => f \in ToSet(names))
        /\ \A s \in ToSet(services) :
               \/ s \in ToSet(left)
               \/ server.home[s] \in ToSet(slice)
               \/ files[server.home[s]] = "annotated"

\* Afterwards that stays.
AnnotatedInv ==
    phase \in {"imports", "sort", "filter", "ok"} =>
        \A s \in ToSet(services) : files[server.home[s]] = "annotated"

\* A file in the map is not followed yet, being followed, or done with.
GatherInv ==
    phase = "imports" =>
        /\ left \in Seq(Files)
        /\ \A f \in Held : f \in ToSet(left) \cup OpenFiles \/ Imports(f) \subseteq Held

\* A call of addDependencies has stored the imports that it has passed.
Covered(frame) ==
    Imports(frame.file) \subseteq Held \cup ToSet(frame.deps) \cup ToSet(frame.slice)

FrameInv == phase = "imports" => \A i \in DOMAIN stack : Covered(stack[i])

\* What topoSort is called for.
NamesInv == phase = "sort" => left \in Seq(Files)

ResultInv ==
    /\ phase \in {"sort", "filter"} => Closed(Held)
    /\ phase = "ok" => offered \subseteq ToSet(services)

IInv ==
    /\ TypeOK /\ FreshInv /\ SymbolInv /\ AnnotatedInv
    /\ GatherInv /\ FrameInv /\ NamesInv /\ ResultInv

\* The invariant, but for the types.
Rest ==
    /\ FreshInv /\ SymbolInv /\ AnnotatedInv
    /\ GatherInv /\ FrameInv /\ NamesInv /\ ResultInv

\* Every step keeps the types.
LEMMA TypeStep ==
    ASSUME IInv, Next
    PROVE  TypeOK'
<1> USE DEF locals, answers, Ended
<1>0. TypeOK
  BY DEF IInv
<1>1. server \in Server
  BY <1>0, ReflectionAssumption DEF TypeOK
<1>2. server.services \in Seq(Services) /\ server.home \in [Services -> Files]
  BY <1>1 DEF Server
<1>3. \A f : Answers(f) \subseteq Seq(Files)
  BY ListsAreSequences DEF Answers
<1>4. NoFiles \in [Files -> {"none", "plain", "annotated"}]
  BY DEF NoFiles
<1>5. /\ <<>> \in Seq(Files) /\ <<>> \in Seq(Services) /\ <<>> \in Seq(Frame)
      /\ <<>> \in Seq(Services \cup Files)
  OBVIOUS
<1>6. CASE Dial
  BY <1>0, <1>6 DEF Dial, TypeOK
<1>7. CASE ListServices
  <2>1. server.services \in Seq(Services \cup Files)
    BY <1>2
  <2> QED
    BY <1>0, <1>7, <1>2, <2>1 DEF ListServices, TypeOK
<1>8. CASE AskSymbol
  <2>1. slice' \in Seq(Files)
    BY <1>8, <1>3 DEF AskSymbol
  <2>2. left' \in Seq(Services \cup Files)
    BY <1>0, <1>8, HeadAndTail DEF AskSymbol, TypeOK
  <2> QED
    BY <1>0, <1>8, <2>1, <2>2 DEF AskSymbol, TypeOK
<1>9. CASE NextSymbolFile
  <2>1. Head(slice) \in Files /\ slice' \in Seq(Files)
    BY <1>0, <1>9, HeadAndTail DEF NextSymbolFile, TypeOK
  <2>2. Append(names, Head(slice)) \in Seq(Files)
    BY <1>0, <2>1, AppendSet DEF TypeOK
  <2>3. [files EXCEPT ![Head(slice)] = "annotated"]
            \in [Files -> {"none", "plain", "annotated"}]
    BY <1>0, <2>1 DEF TypeOK
  <2> QED
    BY <1>0, <1>9, <2>1, <2>2, <2>3 DEF NextSymbolFile, TypeOK
<1>10. CASE BeginImports
  <2>1. left' \in Seq(Services \cup Files)
    BY <1>0, <1>10 DEF BeginImports, TypeOK
  <2> QED
    BY <1>0, <1>10, <2>1 DEF BeginImports, TypeOK
<1>11. CASE AddDependencies
  <2>1. Head(left) \in Files /\ left' \in Seq(Services \cup Files)
    BY <1>0, <1>11, HeadAndTail DEF AddDependencies, TypeOK, IInv, GatherInv
  <2>2. stack' \in Seq(Frame)
    BY <1>0, <1>11, <2>1, CallIsFrame DEF AddDependencies
  <2> QED
    BY <1>0, <1>11, <2>1, <2>2 DEF AddDependencies, TypeOK
<1>12. CASE SkipImport
  <2>1. stack # <<>> /\ stack[1].deps # <<>>
    BY <1>12 DEF SkipImport, InFrame
  <2>2. stack' = [stack EXCEPT ![1] = Skipping] /\ Skipping \in Frame
    BY <1>0, <1>5, <1>12, <2>1, NextImport DEF SkipImport
  <2>3. stack' \in Seq(Frame)
    BY <1>0, <2>1, <2>2, NewTop DEF TypeOK
  <2> QED
    BY <1>0, <1>12, <2>3 DEF SkipImport, TypeOK, InFrame
<1>13. CASE AskImport
  <2>1. PICK answer \in Answers(Head(stack[1].deps)) :
           stack' = [stack EXCEPT ![1].deps = Tail(@), ![1].slice = answer]
    BY <1>13 DEF AskImport
  <2>2. answer \in Seq(Files) /\ stack # <<>> /\ stack[1].deps # <<>>
    BY <1>3, <1>13 DEF AskImport, NeedsImport, InFrame
  <2>3. stack' = [stack EXCEPT ![1] = Asking(answer)] /\ Asking(answer) \in Frame
    BY <1>0, <2>1, <2>2, NextImport
  <2>4. stack' \in Seq(Frame)
    BY <1>0, <2>2, <2>3, NewTop DEF TypeOK
  <2> QED
    BY <1>0, <1>13, <2>4 DEF AskImport, NeedsImport, TypeOK, InFrame
<1>14. CASE NextFile
  <2>1. Head(stack[1].slice) \in Files /\ RestOfSlice \in Seq(Frame)
    BY <1>0, <1>14, RestIsStack DEF NextFile, InFrame
  <2>2. <<Call(Head(stack[1].slice))>> \o RestOfSlice \in Seq(Frame)
    BY <1>0, <2>1, CallIsFrame, Push
  <2>3. stack' \in Seq(Frame)
    BY <1>14, <2>1, <2>2 DEF NextFile, RestOfSlice
  <2>4. [files EXCEPT ![Head(stack[1].slice)] = "plain"]
            \in [Files -> {"none", "plain", "annotated"}]
    BY <1>0, <2>1 DEF TypeOK
  <2> QED
    BY <1>0, <1>14, <2>3, <2>4 DEF NextFile, TypeOK, InFrame
<1>15. CASE Return
  <2>1. stack' \in Seq(Frame)
    BY <1>0, <1>15, TopFrame DEF TypeOK, Return, InFrame
  <2> QED
    BY <1>0, <1>15, <2>1 DEF Return, TypeOK, InFrame
<1>16. CASE BeginSort \/ EndSort
  <2>1. left' \in Seq(Services \cup Files)
    BY <1>0, <1>16 DEF BeginSort, EndSort, TypeOK
  <2> QED
    BY <1>0, <1>16, <2>1 DEF BeginSort, EndSort, TypeOK
<1>17. CASE AskFails
  <2>1. CASE Again /\ server' = server /\ answers' = answers
    BY <1>0, <1>4, <1>5, <2>1, ReflectionAssumption DEF Again, TypeOK
  <2>2. CASE phase' = "failed" /\ UNCHANGED <<server, attempt, locals, answers>>
    BY <1>0, <2>2 DEF TypeOK
  <2> QED
    BY <1>17, <2>1, <2>2 DEF AskFails
<1>18. CASE AskRefused
  BY <1>0, <1>18 DEF AskRefused, TypeOK
<1>19. CASE FilterServices
  <2>1. ToSet(services) \subseteq Services
    BY <1>0 DEF ToSet, TypeOK
  <2>2. offered' \subseteq Services
    BY <1>0, <1>19, <2>1 DEF FilterServices, TypeOK
  <2> QED
    BY <1>0, <1>19, <2>2 DEF FilterServices, TypeOK
<1>20. CASE SortName
  <2>1. Head(left) \in Files /\ left' \in Seq(Services \cup Files)
    BY <1>0, <1>20, HeadAndTail DEF SortName, TypeOK, IInv, NamesInv
  <2>2. stack' \in Seq(Frame)
    BY <1>0, <1>20, <2>1, CallIsFrame DEF SortName
  <2> QED
    BY <1>0, <1>20, <2>1, <2>2 DEF SortName, TypeOK
<1>21. CASE SortImport
  <2>1. stack # <<>> /\ stack[1].deps # <<>>
    BY <1>21 DEF SortImport
  <2>2. [stack EXCEPT ![1].deps = Tail(@)] \in Seq(Frame)
    BY <1>0, <1>5, <2>1, NextImport, NewTop
  <2>3. Head(stack[1].deps) \in Files
    BY <1>0, <2>1, TopFrame, HeadAndTail DEF TypeOK, Frame
  <2>4. <<Call(Head(stack[1].deps))>> \o [stack EXCEPT ![1].deps = Tail(@)]
          \in Seq(Frame)
    BY <1>0, <2>2, <2>3, CallIsFrame, Push
  <2>5. stack' \in Seq(Frame)
    BY <1>21, <2>2, <2>4 DEF SortImport
  <2> QED
    BY <1>0, <1>21, <2>5 DEF SortImport, TypeOK
<1>22. CASE Emit
  <2>1. stack[1].file \in Files /\ Tail(stack) \in Seq(Frame)
    BY <1>0, <1>22, TopFrame DEF Emit, TypeOK, Frame
  <2>2. Append(result, stack[1].file) \in Seq(Files)
    BY <1>0, <2>1, AppendSet DEF TypeOK
  <2> QED
    BY <1>0, <1>22, <2>1, <2>2 DEF Emit, TypeOK
<1> QED
  BY <1>6, <1>7, <1>8, <1>9, <1>10, <1>11, <1>12, <1>13, <1>14, <1>15, <1>16,
     <1>17, <1>18, <1>19, <1>20, <1>21, <1>22 DEF Next

-----------------------------------------------------------------------------
(* The steps *)

\* An answer holds the file that was asked for.
LEMMA AnswerHolds ==
    ASSUME NEW f, NEW answer \in Answers(f)
    PROVE  f \in ToSet(answer)
BY DEF Answers

\* What the server lists is typed.
LEMMA ServerTyped ==
    ASSUME TypeOK
    PROVE  /\ server.services \in Seq(Services)
           /\ server.home \in [Services -> Files]
           /\ \A f \in Files : server.imports[f] \in Seq(Files)
BY ReflectionAssumption, ListsAreSequences DEF TypeOK, Server

\* The steps before addDependencies.
LEMMA SymbolSteps ==
    ASSUME IInv, Dial \/ ListServices \/ AskSymbol \/ NextSymbolFile \/ BeginImports
    PROVE  Rest'
<1> USE DEF locals, answers, Ended
<1>0. TypeOK /\ SymbolInv /\ FreshInv
  BY DEF IInv
<1>1. CASE Dial
  BY <1>0, <1>1 DEF Dial, Rest, FreshInv, SymbolInv, AnnotatedInv, GatherInv,
     FrameInv, NamesInv, ResultInv
<1>2. CASE ListServices
  <2>1. /\ phase = "list" /\ phase' = "symbols"
        /\ services' = server.services /\ left' = server.services
        /\ UNCHANGED <<server, names, files, stack>>
    BY <1>2 DEF ListServices
  <2>2. SymbolInv'
    <3>1. server.services \in Seq(Services) /\ stack = <<>> /\ files = NoFiles
      BY <1>0, <2>1, ServerTyped DEF FreshInv
    <3>2. \A f \in Files : files'[f] = "none"
      BY <2>1, <3>1 DEF NoFiles
    <3> QED
      BY <2>1, <3>1, <3>2 DEF SymbolInv, Has
  <2> QED
    BY <2>1, <2>2 DEF Rest, FreshInv, AnnotatedInv, GatherInv, FrameInv,
       NamesInv, ResultInv
<1>3. CASE AskSymbol
  <2>1. /\ phase = "symbols" /\ slice = <<>> /\ left # <<>> /\ left' = Tail(left)
        /\ slice' \in Answers(server.home[Head(left)])
        /\ UNCHANGED <<server, phase, services, names, files, stack>>
    BY <1>3 DEF AskSymbol
  <2>2. /\ Tail(left) \in Seq(Services)
        /\ ToSet(left) = {Head(left)} \cup ToSet(Tail(left))
    BY <1>0, <2>1, HeadAndTail DEF SymbolInv
  <2>3. server.home[Head(left)] \in ToSet(slice')
    BY <2>1, AnswerHolds
  <2>4. SymbolInv'
    BY <1>0, <2>1, <2>2, <2>3, EmptySet DEF SymbolInv, Has
  <2> QED
    BY <2>1, <2>4 DEF Rest, FreshInv, AnnotatedInv, GatherInv, FrameInv,
       NamesInv, ResultInv
<1>4. CASE NextSymbolFile
  <2> DEFINE f == Head(slice)
  <2>1. /\ phase = "symbols" /\ slice # <<>> /\ slice' = Tail(slice)
        /\ IF Has(f) THEN UNCHANGED <<names, files>>
           ELSE names' = Append(names, f) /\ files' = [files EXCEPT ![f] = "annotated"]
        /\ UNCHANGED <<server, phase, services, left, stack>>
    BY <1>4 DEF NextSymbolFile
  <2>2. f \in Files /\ ToSet(slice) = {f} \cup ToSet(Tail(slice))
    BY <1>0, <2>1, HeadAndTail DEF TypeOK
  <2> HIDE DEF f
  <2>3. ToSet(Append(names, f)) = ToSet(names) \cup {f}
    BY <1>0, <2>2, AppendSet DEF TypeOK
  <2>4. files'[f] = "annotated" /\ \A g \in Files \ {f} : files'[g] = files[g]
    <3>1. CASE Has(f)
      BY <1>0, <2>1, <2>2, <3>1 DEF TypeOK, SymbolInv, Has
    <3>2. CASE ~Has(f)
      BY <1>0, <2>1, <2>2, <3>2 DEF TypeOK
    <3> QED
      BY <3>1, <3>2
  <2>5. \A g \in Files : files'[g] # "plain" /\ (Has(g)' => g \in ToSet(names'))
    <3>1. CASE Has(f)
      BY <1>0, <2>1, <2>2, <3>1 DEF SymbolInv, Has
    <3>2. CASE ~Has(f)
      BY <1>0, <2>1, <2>2, <2>3, <2>4, <3>2 DEF SymbolInv, Has
    <3> QED
      BY <3>1, <3>2
  <2>6. ToSet(services) \subseteq Services
    BY <1>0 DEF ToSet, TypeOK
  <2>7. ASSUME NEW s \in ToSet(services)
        PROVE  \/ s \in ToSet(left)
               \/ server.home[s] \in ToSet(slice')
               \/ files'[server.home[s]] = "annotated"
    <3>1. server.home[s] \in Files
      BY <1>0, <2>6, ServerTyped
    <3> QED
      BY <1>0, <2>1, <2>2, <2>4, <3>1 DEF SymbolInv
  <2>8. SymbolInv'
    BY <1>0, <2>1, <2>5, <2>7 DEF SymbolInv
  <2> QED
    BY <2>1, <2>8 DEF Rest, FreshInv, AnnotatedInv, GatherInv, FrameInv,
       NamesInv, ResultInv
<1>5. CASE BeginImports
  <2>1. /\ phase = "symbols" /\ phase' = "imports" /\ slice = <<>> /\ left = <<>>
        /\ left' = names /\ UNCHANGED <<server, services, names, files, stack>>
    BY <1>5 DEF BeginImports
  <2>2. AnnotatedInv'
    BY <1>0, <2>1, EmptySet DEF AnnotatedInv, SymbolInv
  <2>3. GatherInv'
    BY <1>0, <2>1 DEF GatherInv, SymbolInv, TypeOK, Held, Has
  <2>4. FrameInv'
    BY <1>0, <2>1 DEF FrameInv, SymbolInv
  <2> QED
    BY <2>1, <2>2, <2>3, <2>4 DEF Rest, FreshInv, SymbolInv, NamesInv, ResultInv
<1> QED
  BY <1>1, <1>2, <1>3, <1>4, <1>5

\* A step in a call of addDependencies that only replaces the top frame of the
\* stack keeps the invariant if the new frame is covered.
LEMMA TopReplaced ==
    ASSUME IInv, InFrame, NEW t \in Frame, t.file = stack[1].file,
           stack' = [stack EXCEPT ![1] = t],
           UNCHANGED <<server, phase, services, files, left>>,
           Covered(t)
    PROVE  Rest'
<1>1. /\ TypeOK /\ AnnotatedInv /\ GatherInv /\ FrameInv
      /\ phase = "imports" /\ stack # <<>>
  BY DEF IInv, InFrame
<1>2. /\ stack \in Seq(Frame) /\ DOMAIN stack' = DOMAIN stack
      /\ \A i \in DOMAIN stack : stack'[i] = IF i = 1 THEN t ELSE stack[i]
  BY <1>1, NewTop DEF TypeOK
<1>3. Held' = Held /\ \A f : Imports(f)' = Imports(f)
  BY DEF Held, Has, Imports
<1>4. OpenFiles' = OpenFiles
  BY <1>2 DEF OpenFiles
<1>5. GatherInv'
  BY <1>1, <1>3, <1>4 DEF GatherInv
<1>6. \A i \in DOMAIN stack' : Covered(stack'[i])
  BY <1>1, <1>2 DEF FrameInv
<1>7. FrameInv'
  BY <1>3, <1>6 DEF FrameInv, Covered
<1> QED
  BY <1>1, <1>5, <1>7 DEF Rest, FreshInv, SymbolInv, AnnotatedInv, NamesInv,
     ResultInv, Ended

\* The steps of addDependencies that store nothing.
LEMMA ImportSteps ==
    ASSUME IInv, AddDependencies \/ SkipImport \/ AskImport \/ Return
    PROVE  Rest'
<1> USE DEF answers
<1>0. TypeOK /\ AnnotatedInv /\ GatherInv /\ FrameInv
  BY DEF IInv
<1>1. CASE AddDependencies
  <2>1. /\ phase = "imports" /\ stack = <<>> /\ left # <<>>
        /\ stack' = <<Call(Head(left))>> /\ left' = Tail(left)
        /\ UNCHANGED <<server, phase, services, names, files>>
    BY <1>1 DEF AddDependencies
  <2>2. /\ Head(left) \in Files /\ Tail(left) \in Seq(Files)
        /\ ToSet(left) = {Head(left)} \cup ToSet(Tail(left))
    BY <1>0, <2>1, HeadAndTail DEF GatherInv
  <2>3. Held' = Held /\ \A f : Imports(f)' = Imports(f)
    BY <2>1 DEF Held, Has, Imports
  <2>4. DOMAIN stack' = {1} /\ stack'[1] = Call(Head(left))
    BY <2>1
  <2>5. OpenFiles = {} /\ OpenFiles' = {Head(left)}
    BY <2>1, <2>4 DEF OpenFiles, Call
  <2>6. GatherInv'
    BY <1>0, <2>1, <2>2, <2>3, <2>5 DEF GatherInv
  <2>7. Imports(stack'[1].file) \subseteq
            Held' \cup ToSet(stack'[1].deps) \cup ToSet(stack'[1].slice)
    BY <2>4 DEF Call, Imports
  <2>8. FrameInv'
    BY <2>3, <2>4, <2>7 DEF FrameInv, Covered
  <2> QED
    BY <1>0, <2>1, <2>6, <2>8 DEF Rest, FreshInv, SymbolInv, AnnotatedInv,
       NamesInv, ResultInv
<1>2. CASE SkipImport
  <2>1. /\ InFrame /\ stack[1].slice = <<>> /\ stack[1].deps # <<>>
        /\ Has(Head(stack[1].deps))
        /\ UNCHANGED <<server, phase, services, files, left>>
        /\ stack' = [stack EXCEPT ![1].deps = Tail(@)]
    BY <1>2 DEF SkipImport
  <2>2. stack \in Seq(Frame) /\ 1 \in DOMAIN stack /\ stack[1] \in Frame
    BY <1>0, <2>1, TopFrame DEF TypeOK, InFrame
  <2>3. <<>> \in Seq(Files)
    OBVIOUS
  <2>4. Skipping \in Frame /\ stack' = [stack EXCEPT ![1] = Skipping]
    BY <1>0, <2>1, <2>3, NextImport DEF InFrame
  <2>5. /\ Skipping.file = stack[1].file /\ Skipping.slice = stack[1].slice
        /\ Skipping.deps = Tail(stack[1].deps)
    BY <2>2 DEF Skipping, Frame
  <2>6. /\ Head(stack[1].deps) \in Held
        /\ ToSet(stack[1].deps) = {Head(stack[1].deps)} \cup ToSet(Tail(stack[1].deps))
    BY <2>1, <2>2, HeadAndTail DEF Frame, Held
  <2>7. Covered(stack[1])
    BY <1>0, <2>1, <2>2 DEF FrameInv, InFrame
  <2>8. Covered(Skipping)
    BY <2>5, <2>6, <2>7 DEF Covered
  <2> QED
    BY <2>1, <2>4, <2>5, <2>8, TopReplaced
<1>3. CASE AskImport
  <2>1. PICK answer \in Answers(Head(stack[1].deps)) :
           stack' = [stack EXCEPT ![1].deps = Tail(@), ![1].slice = answer]
    BY <1>3 DEF AskImport
  <2>2. /\ InFrame /\ stack[1].slice = <<>> /\ stack[1].deps # <<>>
        /\ UNCHANGED <<server, phase, services, files, left>>
    BY <1>3 DEF AskImport, NeedsImport
  <2>3. stack \in Seq(Frame) /\ 1 \in DOMAIN stack /\ stack[1] \in Frame
    BY <1>0, <2>2, TopFrame DEF TypeOK, InFrame
  <2>4. answer \in Seq(Files) /\ Head(stack[1].deps) \in ToSet(answer)
    BY AnswerHolds, ListsAreSequences DEF Answers
  <2>5. Asking(answer) \in Frame /\ stack' = [stack EXCEPT ![1] = Asking(answer)]
    BY <1>0, <2>1, <2>2, <2>4, NextImport DEF InFrame
  <2>6. /\ Asking(answer).file = stack[1].file /\ Asking(answer).slice = answer
        /\ Asking(answer).deps = Tail(stack[1].deps)
    BY <2>3 DEF Asking, Frame
  <2>7. ToSet(stack[1].deps) = {Head(stack[1].deps)} \cup ToSet(Tail(stack[1].deps))
    BY <2>2, <2>3, HeadAndTail DEF Frame
  <2>8. Covered(stack[1])
    BY <1>0, <2>2, <2>3 DEF FrameInv, InFrame
  <2>9. Covered(Asking(answer))
    BY <2>2, <2>4, <2>6, <2>7, <2>8, EmptySet DEF Covered
  <2> QED
    BY <2>2, <2>5, <2>6, <2>9, TopReplaced
<1>4. CASE Return
  <2>1. /\ InFrame /\ stack[1].slice = <<>> /\ stack[1].deps = <<>>
        /\ stack' = Tail(stack)
        /\ UNCHANGED <<server, phase, services, files, left>>
    BY <1>4 DEF Return
  <2>2. /\ stack \in Seq(Frame) /\ 1 \in DOMAIN stack /\ Len(stack) \in Nat
        /\ DOMAIN stack = 1..Len(stack) /\ DOMAIN stack' = 1..(Len(stack) - 1)
        /\ \A i \in 1..(Len(stack) - 1) : stack'[i] = stack[i + 1]
    BY <1>0, <2>1, TopFrame DEF TypeOK, InFrame
  <2>3. Imports(stack[1].file) \subseteq Held
    BY <1>0, <2>1, <2>2, EmptySet DEF FrameInv, InFrame, Covered
  <2>4. Held' = Held /\ \A f : Imports(f)' = Imports(f)
    BY <2>1 DEF Held, Has, Imports
  <2>5. OpenFiles \subseteq OpenFiles' \cup {stack[1].file}
    <3> SUFFICES ASSUME NEW i \in 1..Len(stack), i # 1
                 PROVE  stack[i].file \in OpenFiles'
      BY <2>2 DEF OpenFiles
    <3>1. i - 1 \in 1..(Len(stack) - 1) /\ stack'[i - 1] = stack[i]
      BY <2>2
    <3> QED
      BY <2>2, <3>1 DEF OpenFiles
  <2>6. GatherInv'
    BY <1>0, <2>1, <2>3, <2>4, <2>5 DEF GatherInv
  <2>7. \A i \in DOMAIN stack' : Covered(stack'[i])
    <3> SUFFICES ASSUME NEW i \in 1..(Len(stack) - 1)
                 PROVE  Covered(stack'[i])
      BY <2>2
    <3>1. i + 1 \in DOMAIN stack /\ stack'[i] = stack[i + 1]
      BY <2>2
    <3> QED
      BY <1>0, <2>1, <3>1 DEF FrameInv, InFrame
  <2>8. FrameInv'
    BY <2>4, <2>7 DEF FrameInv, Covered
  <2> QED
    BY <1>0, <2>1, <2>6, <2>8 DEF Rest, FreshInv, SymbolInv, AnnotatedInv,
       NamesInv, ResultInv,
       InFrame
<1> QED
  BY <1>1, <1>2, <1>3, <1>4

\* The step that stores an import, and follows it.
LEMMA StoreStep ==
    ASSUME IInv, NextFile
    PROVE  Rest'
<1> USE DEF answers
<1> DEFINE f == Head(stack[1].slice)
           t == [stack[1] EXCEPT !.slice = Tail(stack[1].slice)]
<1>0. TypeOK /\ AnnotatedInv /\ GatherInv /\ FrameInv
  BY DEF IInv
<1>1. /\ InFrame /\ stack[1].slice # <<>> /\ phase = "imports" /\ stack # <<>>
      /\ UNCHANGED <<server, phase, services, left>>
      /\ IF Has(f) THEN files' = files /\ stack' = RestOfSlice
         ELSE files' = [files EXCEPT ![f] = "plain"]
              /\ stack' = <<Call(f)>> \o RestOfSlice
  BY DEF NextFile, RestOfSlice, InFrame
<1>2. stack \in Seq(Frame) /\ 1 \in DOMAIN stack /\ stack[1] \in Frame
  BY <1>0, <1>1, TopFrame DEF TypeOK
<1>3. /\ f \in Files /\ t \in Frame /\ RestOfSlice = [stack EXCEPT ![1] = t]
      /\ RestOfSlice \in Seq(Frame)
  BY <1>0, <1>1, RestIsStack
<1>4. /\ t.file = stack[1].file /\ t.deps = stack[1].deps
      /\ t.slice = Tail(stack[1].slice)
  BY <1>2 DEF Frame
<1>5. ToSet(stack[1].slice) = {f} \cup ToSet(Tail(stack[1].slice))
  BY <1>1, <1>2, HeadAndTail DEF Frame
<1>6. Covered(stack[1])
  BY <1>0, <1>1, <1>2 DEF FrameInv
<1> HIDE DEF f, t
<1>7. CASE Has(f)
  <2>1. Covered(t)
    BY <1>3, <1>4, <1>5, <1>6, <1>7 DEF Covered, Held
  <2> QED
    BY <1>1, <1>3, <1>4, <1>7, <2>1, TopReplaced
<1>8. CASE ~Has(f)
  <2>1. /\ files' = [files EXCEPT ![f] = "plain"]
        /\ stack' = <<Call(f)>> \o RestOfSlice
    BY <1>1, <1>8
  <2>2. Held' = Held \cup {f} /\ f \notin Held
    BY <1>0, <1>3, <1>8, <2>1 DEF Held, Has, TypeOK
  <2>3. \A g : Imports(g)' = Imports(g)
    BY <1>1 DEF Imports
  <2>4. Call(f) \in Frame /\ Call(f).file = f /\ ToSet(Call(f).deps) = Imports(f)
    BY <1>0, <1>3, CallIsFrame DEF Call, Imports
  <2>5. /\ DOMAIN RestOfSlice = DOMAIN stack
        /\ \A i \in DOMAIN stack : RestOfSlice[i] = IF i = 1 THEN t ELSE stack[i]
    BY <1>1, <1>2, <1>3, NewTop
  <2>6. /\ DOMAIN stack' = 1..(Len(RestOfSlice) + 1) /\ stack'[1] = Call(f)
        /\ \A i \in DOMAIN RestOfSlice : stack'[i + 1] = RestOfSlice[i]
        /\ \A i \in 2..(Len(RestOfSlice) + 1) :
              i - 1 \in DOMAIN RestOfSlice /\ stack'[i] = RestOfSlice[i - 1]
        /\ Len(RestOfSlice) \in Nat /\ DOMAIN RestOfSlice = 1..Len(RestOfSlice)
    BY <1>3, <2>1, <2>4, Push
  <2>7. \A i \in DOMAIN RestOfSlice : RestOfSlice[i].file = stack[i].file
    BY <1>4, <2>5
  <2>8. OpenFiles \cup {f} \subseteq OpenFiles'
    <3>1. 1 \in DOMAIN stack' /\ \A i \in DOMAIN RestOfSlice : i + 1 \in DOMAIN stack'
      BY <2>6
    <3>2. f \in OpenFiles'
      BY <2>4, <2>6, <3>1 DEF OpenFiles
    <3>3. ASSUME NEW i \in DOMAIN stack
          PROVE  stack[i].file \in OpenFiles'
      BY <2>5, <2>6, <2>7, <3>1 DEF OpenFiles
    <3> QED
      BY <3>2, <3>3 DEF OpenFiles
  <2>9. GatherInv'
    <3> SUFFICES ASSUME NEW g \in Held'
                 PROVE  g \in ToSet(left) \cup OpenFiles' \/ Imports(g) \subseteq Held'
      BY <1>0, <1>1, <2>3 DEF GatherInv
    <3>1. CASE g = f
      BY <2>8, <3>1
    <3>2. CASE g \in Held
      BY <1>0, <1>1, <2>2, <2>8, <3>2 DEF GatherInv
    <3> QED
      BY <2>2, <3>1, <3>2
  <2>10. ASSUME NEW i \in DOMAIN RestOfSlice
         PROVE  Imports(RestOfSlice[i].file) \subseteq
                    Held' \cup ToSet(RestOfSlice[i].deps) \cup ToSet(RestOfSlice[i].slice)
    <3>1. CASE i = 1
      BY <1>4, <1>5, <1>6, <2>2, <2>5, <3>1 DEF Covered
    <3>2. CASE i # 1
      BY <1>0, <1>1, <2>2, <2>5, <3>2 DEF Covered, FrameInv
    <3> QED
      BY <3>1, <3>2
  <2>11. ASSUME NEW i \in DOMAIN stack'
         PROVE  Imports(stack'[i].file) \subseteq
                    Held' \cup ToSet(stack'[i].deps) \cup ToSet(stack'[i].slice)
    <3>1. CASE i = 1
      BY <2>4, <2>6, <3>1
    <3>2. CASE i # 1
      <4>1. i \in 2..(Len(RestOfSlice) + 1)
        BY <2>6, <3>2
      <4>2. i - 1 \in DOMAIN RestOfSlice /\ stack'[i] = RestOfSlice[i - 1]
        BY <2>6, <4>1
      <4> QED
        BY <2>10, <4>2
    <3> QED
      BY <3>1, <3>2
  <2>12. FrameInv'
    BY <2>3, <2>11 DEF FrameInv, Covered
  <2>13. AnnotatedInv'
    <3>1. ToSet(services) \subseteq Services
      BY <1>0 DEF ToSet, TypeOK
    <3> SUFFICES ASSUME NEW s \in ToSet(services)
                 PROVE  files'[server.home[s]] = "annotated"
      BY <1>1 DEF AnnotatedInv
    <3>2. files[server.home[s]] = "annotated" /\ server.home[s] \in Files
      BY <1>0, <1>1, <3>1, ServerTyped DEF AnnotatedInv
    <3> QED
      BY <1>0, <1>8, <2>1, <3>2 DEF Has, TypeOK
  <2> QED
    BY <1>1, <2>9, <2>12, <2>13 DEF Rest, FreshInv, SymbolInv, NamesInv, ResultInv
<1> QED
  BY <1>7, <1>8

\* The steps that end the gathering, and the failures.
LEMMA OtherSteps ==
    ASSUME IInv,
           \/ BeginSort \/ SortName \/ SortImport \/ Emit \/ EndSort
           \/ AskFails \/ AskRefused \/ FilterServices
    PROVE  Rest'
<1> USE DEF locals, answers, Ended
<1>0. TypeOK /\ FreshInv /\ AnnotatedInv /\ GatherInv /\ NamesInv /\ ResultInv
  BY DEF IInv
<1>1. CASE BeginSort
  <2>1. /\ phase = "imports" /\ phase' = "sort" /\ stack = <<>> /\ left = <<>>
        /\ left' = names /\ UNCHANGED <<server, services, files>>
    BY <1>1 DEF BeginSort
  <2>2. OpenFiles = {} /\ ToSet(left) = {}
    BY <2>1 DEF OpenFiles, ToSet
  <2>3. Closed(Held)
    BY <1>0, <2>1, <2>2 DEF GatherInv, Closed, Imports
  <2>4. Held' = Held
    BY <2>1 DEF Held, Has
  <2>5. Closed(Held)'
    BY <2>1, <2>3, <2>4 DEF Closed
  <2>6. left' \in Seq(Files)
    BY <1>0, <2>1 DEF TypeOK
  <2> QED
    BY <1>0, <2>1, <2>5, <2>6 DEF Rest, FreshInv, SymbolInv, AnnotatedInv,
       GatherInv, FrameInv, NamesInv, ResultInv
<1>2. CASE AskFails
  <2>1. CASE Again
    BY <2>1 DEF Again, Rest, FreshInv, SymbolInv, AnnotatedInv, GatherInv,
       FrameInv, NamesInv, ResultInv
  <2>2. CASE phase' = "failed"
    BY <2>2 DEF Rest, FreshInv, SymbolInv, AnnotatedInv, GatherInv, FrameInv,
       NamesInv, ResultInv
  <2> QED
    BY <1>2, <2>1, <2>2 DEF AskFails
<1>3. CASE AskRefused
  <2>1. CASE phase = "list"
    <3>1. /\ phase' = "symbols" /\ services = <<>> /\ files = NoFiles /\ stack = <<>>
          /\ left = <<>>
          /\ UNCHANGED <<server, services, files, stack, left, names, slice>>
      BY <1>0, <1>3, <2>1 DEF AskRefused, FreshInv
    <3>2. SymbolInv'
      <4>1. \A g \in Files : files'[g] = "none"
        BY <3>1 DEF NoFiles
      <4>2. ToSet(services') = {} /\ left' \in Seq(Services)
        BY <3>1, EmptySet
      <4> QED
        BY <3>1, <4>1, <4>2 DEF SymbolInv, Has
    <3> QED
      BY <3>1, <3>2 DEF Rest, FreshInv, AnnotatedInv, GatherInv, FrameInv,
         NamesInv, ResultInv
  <2>2. CASE phase # "list"
    <3>1. phase' = "nilpanic"
      BY <1>3, <2>2 DEF AskRefused
    <3> QED
      BY <3>1 DEF Rest, FreshInv, SymbolInv, AnnotatedInv, GatherInv, FrameInv,
         NamesInv, ResultInv
  <2> QED
    BY <2>1, <2>2
<1>4. CASE FilterServices
  <2>1. /\ phase = "filter" /\ UNCHANGED <<server, services, files>>
        /\ \/ phase' = "slicepanic"
           \/ phase' = "ok" /\ offered' \subseteq ToSet(services)
    BY <1>4 DEF FilterServices
  <2> QED
    BY <1>0, <2>1 DEF Rest, FreshInv, SymbolInv, AnnotatedInv, GatherInv, FrameInv,
       NamesInv, ResultInv
<1>5. CASE SortName \/ SortImport \/ Emit \/ EndSort
  <2>1. /\ phase = "sort" /\ phase' \in {"sort", "filter"}
        /\ left' = left \/ (left # <<>> /\ left' = Tail(left))
        /\ UNCHANGED <<server, services, files>>
    BY <1>5 DEF SortName, SortImport, Emit, EndSort
  <2>2. Held' = Held
    BY <2>1 DEF Held, Has
  <2>3. Closed(Held)'
    BY <1>0, <2>1, <2>2 DEF ResultInv, Closed
  <2>4. left' \in Seq(Files)
    BY <1>0, <2>1, HeadAndTail DEF NamesInv
  <2> QED
    BY <1>0, <2>1, <2>3, <2>4 DEF Rest, FreshInv, SymbolInv, AnnotatedInv,
       GatherInv, FrameInv, NamesInv, ResultInv
<1> QED
  BY <1>1, <1>2, <1>3, <1>4, <1>5

-----------------------------------------------------------------------------
(* Theorems *)

\* The invariant is inductive.
LEMMA Inductive == Spec => []IInv
<1>1. Init => IInv
  <2> SUFFICES ASSUME Init
               PROVE  IInv
    OBVIOUS
  <2>1. NoFiles \in [Files -> {"none", "plain", "annotated"}]
    BY DEF NoFiles
  <2>2. TypeOK
    BY <2>1, ReflectionAssumption DEF Init, TypeOK
  <2> QED
    BY <2>2 DEF Init, IInv, FreshInv, SymbolInv, AnnotatedInv, GatherInv, FrameInv,
       NamesInv, ResultInv
<1>2. IInv /\ [Next]_vars => IInv'
  <2> SUFFICES ASSUME IInv, [Next]_vars
               PROVE  IInv'
    OBVIOUS
  <2>1. CASE Next
    <3>1. TypeOK'
      BY <2>1, TypeStep
    <3>2. Rest'
      BY <2>1, SymbolSteps, ImportSteps, StoreStep, OtherSteps DEF Next
    <3> QED
      BY <3>1, <3>2 DEF Rest, IInv
  <2>2. CASE UNCHANGED vars
    <3>1. /\ UNCHANGED <<server, phase, attempt, services, names, files, left>>
          /\ UNCHANGED <<slice, stack, result, offered>>
      BY <2>2 DEF vars
    <3>2. TypeOK'
      BY <3>1 DEF IInv, TypeOK
    <3>3. Held' = Held /\ OpenFiles' = OpenFiles /\ \A f : Imports(f)' = Imports(f)
      BY <3>1 DEF Held, Has, OpenFiles, Imports
    <3>4. FreshInv' /\ SymbolInv' /\ AnnotatedInv'
      BY <3>1 DEF IInv, FreshInv, SymbolInv, AnnotatedInv, Has
    <3>5. GatherInv' /\ FrameInv'
      BY <3>1, <3>3 DEF IInv, GatherInv, FrameInv, Covered
    <3>6. NamesInv' /\ ResultInv'
      BY <3>1, <3>3 DEF IInv, NamesInv, ResultInv, Closed
    <3> QED
      BY <3>2, <3>4, <3>5, <3>6 DEF IInv
  <2> QED
    BY <2>1, <2>2
<1> QED
  BY <1>1, <1>2, PTL DEF Spec

\* The client's state is type-correct, and it makes no more than Retries + 2
\* attempts: getFileDescriptorSetWithRetry.
THEOREM TypeCorrect == Spec => []TypeOK
<1>1. IInv => TypeOK
  BY DEF IInv
<1> QED
  BY <1>1, Inductive, PTL

\* getFileDescriptorSet sorts a map that is closed under imports and has the
\* files of the services, whatever the server sends with them and whichever
\* calls fail.
THEOREM NothingMissing == Spec => []MapClosed
<1>1. IInv => MapClosed
  <2> SUFFICES ASSUME IInv, phase \in {"sort", "filter"}
               PROVE  Closed(Held) /\ Home \subseteq Held
    BY DEF MapClosed, Held
  <2>1. TypeOK /\ AnnotatedInv /\ ResultInv
    BY DEF IInv
  <2>2. ToSet(services) \subseteq Services
    BY <2>1 DEF ToSet, TypeOK
  <2>3. ASSUME NEW s \in ToSet(services)
        PROVE  server.home[s] \in Held
    <3>1. server.home[s] \in Files /\ files[server.home[s]] = "annotated"
      BY <2>1, <2>2, ServerTyped DEF AnnotatedInv
    <3> QED
      BY <3>1 DEF Held, Has
  <2> QED
    BY <2>1, <2>3 DEF ResultInv, Home
<1> QED
  BY <1>1, Inductive, PTL

\* Every service that filterGRPCServices lets through has its HTTP rules.
THEOREM RulesForAllOffered == Spec => []OfferedIsAnnotated
<1>1. IInv => OfferedIsAnnotated
  BY DEF IInv, OfferedIsAnnotated, AnnotatedInv, ResultInv
<1> QED
  BY <1>1, Inductive, PTL

=============================================================================
