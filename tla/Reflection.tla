----------------------------- MODULE Reflection -----------------------------
(***************************************************************************)
(* One query of a gRPC server's Reflection API: GetFileDescriptorSet and   *)
(* all it calls (pkg/transflect/transflect.go), and filterGRPCServices     *)
(* (cmd/transflect-operator/envoyfilter.go), which reads its answer.       *)
(*                                                                         *)
(* The client is sequential; what makes it hard is the server.  It may     *)
(* send any of a file's imports with the file, in any order, or none of    *)
(* them, and any call may fail.  Every call is a step, the recursion of    *)
(* addDependencies and topoSort an explicit stack.                         *)
(***************************************************************************)
EXTENDS Naturals, Sequences, FiniteSets, SequencesExt

CONSTANTS
    Files,       \* names of .proto files
    Services,    \* names of gRPC services
    Servers,     \* the servers that may be asked, see Server
    Excludes,    \* the sets of services that annotations may name
    Retries,     \* 15 in the code
    Faults       \* which of FaultKinds may happen

\* Lists of files without repetition.
Lists ==
    {s \in UNION {[1..n -> Files] : n \in 0..Cardinality(Files)} : IsInjective(s)}

\* A server: the imports of each file, in order, the file that defines a
\* service, and the services it lists.
Server ==
    [imports : [Files -> Lists],
     home : [Services -> Files],
     services : Seq(Services)]

\* No set of files imports itself in a circle; protoc refuses that.
Acyclic(s) ==
    \A S \in (SUBSET Files) \ {{}} :
        \E f \in S : ToSet(s.imports[f]) \cap S = {}

\* Unavailable; any other gRPC status, which a cancelled context gives too; an
\* error without a status, such as bytes that cannot be unmarshalled; an answer
\* that is an ErrorResponse.
FaultKinds == {"unavailable", "status", "local", "error"}

ASSUME ReflectionAssumption ==
    /\ Servers \subseteq Server
    /\ \A s \in Servers : Acyclic(s)
    /\ Retries \in Nat
    /\ Faults \subseteq FaultKinds

VARIABLES
    server,      \* whom the client asks
    phase,       \* "dial", a loop of getFileDescriptorSet, or how it ended
    attempt,     \* b.Attempt()
    services,    \* as listed by the server
    names,       \* files sent for symbols
    files,       \* files[f]: not in the map, or in it with or without HTTP rules
    left,        \* what remains of the loop's services or names
    slice,       \* what remains of the answer for a service
    stack,       \* the calls of addDependencies or topoSort, innermost first
    result,      \* the files of the FileDescriptorSet
    offered      \* the services of the EnvoyFilter

vars == <<server, phase, attempt, services, names, files, left, slice, stack,
          result, offered>>

locals == <<services, names, files, left, slice, stack>>

answers == <<result, offered>>

Ended == {"ok", "failed", "nilpanic", "slicepanic"}

\* What is left of a file's imports, and of the answer for the current one;
\* topoSort asks for none.
Frame == [file : Files, deps : Seq(Files), slice : Seq(Files)]

TypeOK ==
    /\ server \in Servers
    /\ phase \in {"dial", "list", "symbols", "imports", "sort", "filter"} \cup Ended
    /\ attempt \in 0..(Retries + 1)
    /\ services \in Seq(Services)
    /\ names \in Seq(Files)
    /\ files \in [Files -> {"none", "plain", "annotated"}]
    /\ left \in Seq(Services \cup Files)
    /\ slice \in Seq(Files)
    /\ stack \in Seq(Frame)
    /\ result \in Seq(Files)
    /\ offered \subseteq Services

NoFiles == [f \in Files |-> "none"]

Init ==
    /\ server \in Servers
    /\ phase = "dial"
    /\ attempt = 0
    /\ services = <<>> /\ names = <<>> /\ files = NoFiles
    /\ left = <<>> /\ slice = <<>> /\ stack = <<>>
    /\ result = <<>> /\ offered = {}

Has(f) == files[f] # "none"

-----------------------------------------------------------------------------
(* The server *)

\* The files in S and what they import, directly or not.
Closed(S) == \A f \in S : ToSet(server.imports[f]) \subseteq S

Closure(S) ==
    {f \in Files : \A T \in SUBSET Files : S \subseteq T /\ Closed(T) => f \in T}

\* It sends the file asked for, with any of the files it imports.
Answers(f) ==
    LET sendable == Closure({f})
    IN {s \in Lists : f \in ToSet(s) /\ ToSet(s) \subseteq sendable}

-----------------------------------------------------------------------------
(* Calls that succeed *)

Dial ==
    /\ phase = "dial"
    /\ phase' \in {"list", "failed"}
    /\ UNCHANGED <<server, attempt, locals, answers>>

\* getServices.
ListServices ==
    /\ phase = "list"
    /\ phase' = "symbols"
    /\ services' = server.services
    /\ left' = server.services
    /\ UNCHANGED <<server, attempt, names, files, slice, stack, answers>>

\* getFileDescriptorBySymbol.
AskSymbol ==
    /\ phase = "symbols"
    /\ slice = <<>>
    /\ left # <<>>
    /\ slice' \in Answers(server.home[Head(left)])
    /\ left' = Tail(left)
    /\ UNCHANGED <<server, phase, attempt, services, names, files, stack, answers>>

\* The loop over the answer; the file is annotated when it is stored.
NextSymbolFile ==
    /\ phase = "symbols"
    /\ slice # <<>>
    /\ slice' = Tail(slice)
    /\ LET f == Head(slice)
       IN IF Has(f)
          THEN UNCHANGED <<names, files>>
          ELSE /\ names' = Append(names, f)
               /\ files' = [files EXCEPT ![f] = "annotated"]
    /\ UNCHANGED <<server, phase, attempt, services, left, stack, answers>>

BeginImports ==
    /\ phase = "symbols"
    /\ slice = <<>>
    /\ left = <<>>
    /\ phase' = "imports"
    /\ left' = names
    /\ UNCHANGED <<server, attempt, services, names, files, slice, stack, answers>>

-----------------------------------------------------------------------------
(* addDependencies *)

Call(f) == [file |-> f, deps |-> server.imports[f], slice |-> <<>>]

AddDependencies ==
    /\ phase = "imports"
    /\ stack = <<>>
    /\ left # <<>>
    /\ stack' = <<Call(Head(left))>>
    /\ left' = Tail(left)
    /\ UNCHANGED <<server, phase, attempt, services, names, files, slice,
                   answers>>

InFrame ==
    /\ phase = "imports"
    /\ stack # <<>>

\* The loop over deps: the import is there already.
SkipImport ==
    /\ InFrame
    /\ stack[1].slice = <<>>
    /\ stack[1].deps # <<>>
    /\ Has(Head(stack[1].deps))
    /\ stack' = [stack EXCEPT ![1].deps = Tail(@)]
    /\ UNCHANGED <<server, phase, attempt, services, names, files, left, slice,
                   answers>>

NeedsImport ==
    /\ InFrame
    /\ stack[1].slice = <<>>
    /\ stack[1].deps # <<>>
    /\ ~Has(Head(stack[1].deps))

\* getFileDescriptorByFilename.
AskImport ==
    /\ NeedsImport
    /\ \E answer \in Answers(Head(stack[1].deps)) :
         stack' = [stack EXCEPT ![1].deps = Tail(@), ![1].slice = answer]
    /\ UNCHANGED <<server, phase, attempt, services, names, files, left, slice,
                   answers>>

\* Mutation: a file that is there already is not followed, but stored again.
NextFileOverwriting ==
    /\ InFrame
    /\ stack[1].slice # <<>>
    /\ LET f == Head(stack[1].slice)
           rest == [stack EXCEPT ![1].slice = Tail(@)]
       IN /\ files' = [files EXCEPT ![f] = "plain"]
          /\ stack' = IF Has(f) THEN rest ELSE <<Call(f)>> \o rest
    /\ UNCHANGED <<server, phase, attempt, services, names, left, slice, answers>>

\* The loop over an answer.  A file is stored before its imports are followed.
NextFile ==
    /\ InFrame
    /\ stack[1].slice # <<>>
    /\ LET f == Head(stack[1].slice)
           rest == [stack EXCEPT ![1].slice = Tail(@)]
       IN IF Has(f)
          THEN /\ files' = files
               /\ stack' = rest
          ELSE /\ files' = [files EXCEPT ![f] = "plain"]
               /\ stack' = <<Call(f)>> \o rest
    /\ UNCHANGED <<server, phase, attempt, services, names, left, slice, answers>>

Return ==
    /\ InFrame
    /\ stack[1].slice = <<>>
    /\ stack[1].deps = <<>>
    /\ stack' = Tail(stack)
    /\ UNCHANGED <<server, phase, attempt, services, names, files, left, slice,
                   answers>>

-----------------------------------------------------------------------------
(* topoSort *)

\* Mutation: files are not deleted from the map.
InMapForEver(f) == Has(f)

\* topoSort moves a file from the map to the result; files still says what the
\* file is like.
InMap(f) == Has(f) /\ f \notin ToSet(result)

BeginSort ==
    /\ phase = "imports"
    /\ stack = <<>>
    /\ left = <<>>
    /\ phase' = "sort"
    /\ left' = names
    /\ UNCHANGED <<server, attempt, services, names, files, slice, stack, answers>>

\* The outermost loop.
SortName ==
    /\ phase = "sort"
    /\ stack = <<>>
    /\ left # <<>>
    /\ left' = Tail(left)
    /\ stack' = IF InMap(Head(left)) THEN <<Call(Head(left))>> ELSE stack
    /\ UNCHANGED <<server, phase, attempt, services, names, files, slice,
                   answers>>

\* The loop of a call over the imports of a file.
SortImport ==
    /\ phase = "sort"
    /\ stack # <<>>
    /\ stack[1].deps # <<>>
    /\ LET f == Head(stack[1].deps)
           rest == [stack EXCEPT ![1].deps = Tail(@)]
       IN stack' = IF InMap(f) THEN <<Call(f)>> \o rest ELSE rest
    /\ UNCHANGED <<server, phase, attempt, services, names, files, left, slice,
                   answers>>

\* The call for a file's imports has returned, and what it has sorted comes
\* before the file.
Emit ==
    /\ phase = "sort"
    /\ stack # <<>>
    /\ stack[1].deps = <<>>
    /\ result' = Append(result, stack[1].file)
    /\ stack' = Tail(stack)
    /\ UNCHANGED <<server, phase, attempt, services, names, files, left, slice,
                   offered>>

EndSort ==
    /\ phase = "sort"
    /\ stack = <<>>
    /\ left = <<>>
    /\ phase' = "filter"
    /\ UNCHANGED <<server, attempt, locals, answers>>

-----------------------------------------------------------------------------
(* Calls that fail *)

Asks ==
    \/ phase = "list"
    \/ phase = "symbols" /\ slice = <<>> /\ left # <<>>
    \/ NeedsImport

\* Mutation: the files of the attempt that failed are kept.
AgainWithFiles ==
    /\ IF attempt > Retries
       THEN phase' = "failed" /\ attempt' = attempt
       ELSE phase' = "list" /\ attempt' = attempt + 1
    /\ services' = <<>> /\ names' = <<>> /\ left' = <<>> /\ slice' = <<>>
    /\ stack' = <<>>
    /\ files' = files

\* Mutation: attempts are not counted.
AgainForEver ==
    /\ phase' = "list"
    /\ attempt' = attempt
    /\ services' = <<>> /\ names' = <<>> /\ left' = <<>> /\ slice' = <<>>
    /\ stack' = <<>>
    /\ files' = NoFiles

\* Mutation: one attempt more.
AgainOnceMore ==
    /\ phase' = "list"
    /\ attempt' = attempt + 1
    /\ services' = <<>> /\ names' = <<>> /\ left' = <<>> /\ slice' = <<>>
    /\ stack' = <<>>
    /\ files' = NoFiles

\* The loop of getFileDescriptorSetWithRetry.
Again ==
    /\ IF attempt > Retries
       THEN phase' = "failed" /\ attempt' = attempt
       ELSE phase' = "list" /\ attempt' = attempt + 1
    /\ services' = <<>> /\ names' = <<>> /\ left' = <<>> /\ slice' = <<>>
    /\ stack' = <<>>
    /\ files' = NoFiles

AskFails ==
    /\ Asks
    /\ \/ /\ Faults \cap {"unavailable", "local"} # {}
          /\ Again
       \/ /\ "status" \in Faults
          /\ phase' = "failed"
          /\ UNCHANGED <<attempt, locals>>
    /\ UNCHANGED <<server, answers>>

\* An ErrorResponse is an empty list of services to getServices, and a nil
\* pointer to decodeResponse.
AskRefused ==
    /\ Asks
    /\ "error" \in Faults
    /\ phase' = IF phase = "list" THEN "symbols" ELSE "nilpanic"
    /\ UNCHANGED <<server, attempt, locals, answers>>

-----------------------------------------------------------------------------
(* upsertFilter, after the query *)

\* filterGRPCServices makes room for Len(services) - Cardinality(exclude) names,
\* which panics when that is negative.  It reads include only without exclude.
FilterServices ==
    /\ phase = "filter"
    /\ \E ex, in \in Excludes \cup {{}} :
         IF Cardinality(ex) > Len(services)
         THEN phase' = "slicepanic" /\ offered' = offered
         ELSE /\ phase' = "ok"
              /\ offered' = {s \in ToSet(services) :
                     IF ex # {} THEN s \notin ex ELSE in = {} \/ s \in in}
    /\ UNCHANGED <<server, attempt, locals, result>>

-----------------------------------------------------------------------------
Next ==
    \/ Dial \/ ListServices \/ AskSymbol \/ NextSymbolFile \/ BeginImports
    \/ AddDependencies \/ SkipImport \/ AskImport \/ NextFile \/ Return
    \/ BeginSort \/ SortName \/ SortImport \/ Emit \/ EndSort
    \/ AskFails \/ AskRefused \/ FilterServices

\* Every call is answered or fails.
Spec == Init /\ [][Next]_vars /\ WF_vars(Next)

-----------------------------------------------------------------------------
(* Properties *)

Home == {server.home[s] : s \in ToSet(services)}

\* What the client returns holds the files that define the server's services and
\* all that they import, nothing else, each file once and after its imports,
\* whatever the server sent with what, and whichever calls failed before.
SortedAndComplete ==
    phase = "ok" =>
        /\ IsInjective(result)
        /\ ToSet(result) = Closure(Home)
        /\ \A i, j \in DOMAIN result :
               result[i] \in ToSet(server.imports[result[j]]) => i < j

\* The methods of every service that the EnvoyFilter offers have HTTP rules: its
\* file is stored neither before, nor again after, the loop over the services,
\* the only one that annotates, although other files import it.
OfferedIsAnnotated ==
    phase = "ok" => \A s \in offered : files[server.home[s]] = "annotated"

\* When the files are sorted, the map is closed under imports and has the files
\* of the services: none was taken for done because another call, or an attempt
\* that failed, had stored it without having followed its imports.
MapClosed ==
    phase \in {"sort", "filter"} =>
        /\ Closed({f \in Files : Has(f)})
        /\ Home \subseteq {f \in Files : Has(f)}

\* The query ends: no server makes addDependencies go round in circles, and
\* there is a last attempt.
QueryEnds == <>(phase \in Ended)

=============================================================================
