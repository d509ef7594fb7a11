---------------------------- MODULE UpsertProofs ----------------------------
(***************************************************************************)
(* Theorems about Upsert for any number of callers, processes, ReplicaSets *)
(* and Deployments, and any faults.                                        *)
(***************************************************************************)
EXTENDS Upsert, TLAPS

\* Which calls a stage has.
CallerInv ==
    \A c \in Callers :
        /\ Busy(c) <=> call[c] # "none"
        /\ stage[c] = "Ingress" => UseIngress
        /\ stage[c] = "Reflection" => call[c] = "create"

\* Callers that are busy with one Deployment at the same time know it.
OverlapInv ==
    \A c, x \in Callers :
        c # x /\ Busy(c) /\ Busy(x) /\ Owner[rs[c]] = Owner[rs[x]]
            => {c, x} \subseteq excused

\* What a caller that is alone has seen is still so.
AloneInv ==
    \A c \in Callers \ excused :
        /\ result[c] # "error"
        /\ call[c] = "get" => store[Object(c)] # None
        /\ call[c] = "update" => c \in fresh

CallerType == TypeOK /\ CallerInv

USE DEF CallerType

\* What a busy caller deals with is an object.
LEMMA ObjectType ==
    ASSUME CallerType, NEW c \in Callers, Busy(c), stage[c] # "Reflection"
    PROVE  /\ Object(c) \in Objects
           /\ rs[c] \in ReplicaSets
           /\ Object(c) \in Temporary <=> stage[c] # "EnvoyFilter"
           /\ stage[c] # "EnvoyFilter" => Object(c) = <<stage[c], rs[c]>>
           /\ stage[c] = "EnvoyFilter" => Object(c) = <<"EnvoyFilter", Owner[rs[c]]>>
  <1>1. rs[c] \in ReplicaSets /\ Owner[rs[c]] \in Deployments
    BY UpsertAssumption DEF TypeOK
  <1>2. CASE stage[c] = "EnvoyFilter"
    BY <1>1, <1>2 DEF Object, ObjectOf, Objects, Filters, Temporary
  <1>3. CASE stage[c] # "EnvoyFilter"
    <2>1. stage[c] \in {"Service", "Ingress"}
      BY <1>3 DEF TypeOK, Busy
    <2> QED BY <1>1, <1>3, <2>1 DEF Object, ObjectOf, Objects, Filters, Temporary
  <1> QED BY <1>2, <1>3

\* A move to another stage keeps a caller's variables in shape.
LEMMA GoToType ==
    ASSUME CallerType, NEW c \in Callers, Busy(c),
           NEW s \in {"idle", "Service", "Ingress", "Reflection", "EnvoyFilter"},
           NEW what \in {"create", "get", "update", "delete"},
           s = "Ingress" => UseIngress,
           s = "Reflection" => what = "create",
           GoTo(c, s, what)
    PROVE  /\ stage' \in [Callers -> {"idle", "Service", "Ingress", "Reflection",
                                      "EnvoyFilter"}]
           /\ call' \in [Callers -> {"none", "create", "get", "update", "delete"}]
           /\ rs' \in [Callers -> ReplicaSets \cup {None}]
           /\ (\A x \in Callers : Busy(x) <=> rs[x] # None)'
           /\ CallerInv'
           /\ rs'[c] \in {rs[c], None}
           /\ \A x \in Callers \ {c} :
                 stage'[x] = stage[x] /\ call'[x] = call[x] /\ rs'[x] = rs[x]
  BY DEF TypeOK, CallerInv, GoTo, Busy

\* What a step of c does to the callers' variables.
StepOf(c) ==
    /\ stage' \in [Callers -> {"idle", "Service", "Ingress", "Reflection",
                               "EnvoyFilter"}]
    /\ call' \in [Callers -> {"none", "create", "get", "update", "delete"}]
    /\ rs' \in [Callers -> ReplicaSets \cup {None}]
    /\ result' \in [Callers -> {"none", "ok", "error"}]
    /\ (\A x \in Callers : Busy(x) <=> rs[x] # None)'
    /\ CallerInv'
    /\ rs'[c] \in {rs[c], None}
    /\ \A x \in Callers \ {c} :
          /\ stage'[x] = stage[x] /\ call'[x] = call[x]
          /\ rs'[x] = rs[x] /\ result'[x] = result[x]

\* upsertFilter returns only through its deferred calls.
LEMMA ReturnKeeps ==
    ASSUME CallerType, NEW c \in Callers, Busy(c), call[c] # "delete",
           NEW res \in {"ok", "error"}, Return(c, res)
    PROVE  /\ StepOf(c)
           /\ \A x \in Callers, o \in Temporary :
                 WillDelete(x, o) => WillDelete(x, o)'
  <1>1. FirstDeferred[stage[c]] \in {"idle", "Service", "Ingress"}
        /\ (FirstDeferred[stage[c]] = "Ingress" => UseIngress)
    BY DEF TypeOK, Busy, FirstDeferred
  <1>2. result' \in [Callers -> {"none", "ok", "error"}]
    BY DEF TypeOK, Return
  <1>3. StepOf(c)
    BY <1>1, <1>2, GoToType DEF Return, StepOf, TypeOK
  <1>4. ASSUME NEW x \in Callers, NEW o \in Temporary, WillDelete(x, o)
        PROVE  WillDelete(x, o)'
    <2>1. CASE x # c
      BY <2>1, <1>4 DEF WillDelete, Return, GoTo, TypeOK
    <2>2. CASE x = c
      BY <2>2, <1>4 DEF WillDelete, Return, GoTo, TypeOK, FirstDeferred, Temporary
    <2> QED BY <2>1, <2>2
  <1> QED BY <1>3, <1>4

\* A stage that created an object leaves its deletion to a deferred call.
LEMMA ProceedKeeps ==
    ASSUME CallerType, NEW c \in Callers, Busy(c), call[c] # "delete", Proceed(c)
    PROVE  /\ StepOf(c)
           /\ \A x \in Callers, o \in Temporary :
                 WillDelete(x, o) => WillDelete(x, o)'
           /\ \A o \in Temporary : o = Object(c) => WillDelete(c, o)'
  <1>1. CASE stage[c] = "EnvoyFilter"
    <2>1. Object(c) \notin Temporary
      BY <1>1 DEF Object, ObjectOf, Temporary
    <2> QED BY <1>1, <2>1, ReturnKeeps DEF Proceed
  <1>2. CASE stage[c] # "EnvoyFilter"
    <2>1. /\ NextStage[stage[c]] \in {"Ingress", "Reflection", "EnvoyFilter"}
          /\ NextStage[stage[c]] = "Ingress" => UseIngress
      BY <1>2 DEF TypeOK, Busy, NextStage
    <2>2. GoTo(c, NextStage[stage[c]], "create") /\ result' = result
      BY <1>2 DEF Proceed
    <2>3. StepOf(c)
      BY <2>1, <2>2, GoToType DEF StepOf, TypeOK
    <2>4. ASSUME NEW x \in Callers, NEW o \in Temporary, WillDelete(x, o)
          PROVE  WillDelete(x, o)'
      <3>1. CASE x # c
        BY <3>1, <2>2, <2>4 DEF WillDelete, GoTo, TypeOK
      <3>2. CASE x = c
        BY <3>2, <2>2, <2>4, <1>2 DEF WillDelete, GoTo, TypeOK, NextStage, Temporary
      <3> QED BY <3>1, <3>2
    <2>5. ASSUME NEW o \in Temporary, o = Object(c)
          PROVE  WillDelete(c, o)'
      <3>1. o = <<stage[c], rs[c]>> /\ stage[c] \in {"Service", "Ingress"}
        BY <1>2, <2>5 DEF Object, ObjectOf, Temporary
      <3> QED
        BY <2>2, <3>1 DEF WillDelete, GoTo, TypeOK, NextStage, CallerInv
    <2> QED BY <2>3, <2>4, <2>5
  <1> QED BY <1>1, <1>2

\* A deferred call gives up its own object only.
LEMMA DeletedKeeps ==
    ASSUME CallerType, NEW c \in Callers, Busy(c), call[c] = "delete",
           NEW res \in {"ok", "error"}, Deleted(c, res)
    PROVE  /\ StepOf(c)
           /\ \A x \in Callers, o \in Temporary \ {Object(c)} :
                 WillDelete(x, o) => WillDelete(x, o)'
  <1>1. stage[c] \in {"Service", "Ingress", "EnvoyFilter"}
    BY DEF TypeOK, Busy, CallerInv
  <1>2. NextDeferred[stage[c]] \in {"idle", "Service"}
    BY <1>1 DEF NextDeferred
  <1>3. result' \in [Callers -> {"none", "ok", "error"}]
    BY DEF TypeOK, Deleted
  <1>4. StepOf(c)
    BY <1>2, <1>3, GoToType DEF Deleted, StepOf, TypeOK
  <1>5. ASSUME NEW x \in Callers, NEW o \in Temporary, o # Object(c),
               WillDelete(x, o)
        PROVE  WillDelete(x, o)'
    <2>1. CASE x # c
      BY <2>1, <1>5 DEF WillDelete, Deleted, GoTo, TypeOK
    <2>2. CASE x = c
      <3>1. stage[c] # "EnvoyFilter" => Object(c) = <<stage[c], rs[c]>>
        BY DEF Object, ObjectOf
      <3> QED
        BY <2>2, <3>1, <1>1, <1>5
        DEF WillDelete, Deleted, GoTo, TypeOK, NextDeferred, Temporary
    <2> QED BY <2>1, <2>2
  <1> QED BY <1>4, <1>5

\* Two callers meet at one object only if they work on one Deployment.
LEMMA SameObject ==
    ASSUME CallerType, NEW c \in Callers, NEW x \in Callers, Busy(c), Busy(x),
           stage[c] # "Reflection", stage[x] # "Reflection", Object(c) = Object(x)
    PROVE  Owner[rs[c]] = Owner[rs[x]]
  <1>1. CASE stage[c] = "EnvoyFilter"
    BY <1>1, ObjectType
  <1>2. CASE stage[c] # "EnvoyFilter"
    BY <1>2, ObjectType
  <1> QED BY <1>1, <1>2

\* A write changes one object, and outdates what callers have read of it.
LEMMA WriteType ==
    ASSUME CallerType, NEW o \in Objects, NEW r \in ReplicaSets \cup {None},
           Write(o, r)
    PROVE  /\ store' \in [Objects -> ReplicaSets \cup {None}]
           /\ fresh' \subseteq fresh
           /\ store'[o] = r
           /\ \A p \in Objects \ {o} : store'[p] = store[p]
           /\ \A x \in fresh : Object(x) # o => x \in fresh'
  BY DEF TypeOK, Write

\* Busy callers of one Deployment keep knowing it through a step of c.
LEMMA OverlapKept ==
    ASSUME CallerType, NEW c \in Callers, Busy(c), OverlapInv, StepOf(c),
           excused \subseteq excused'
    PROVE  OverlapInv'
  <1>1. \A x \in Callers : Busy(x)' => Busy(x) /\ rs'[x] = rs[x]
    BY DEF StepOf, TypeOK, Busy
  <1> QED BY <1>1 DEF OverlapInv

\* What c does to its object disturbs no caller that is alone.
LEMMA OthersKept ==
    ASSUME CallerType, NEW c \in Callers, Busy(c), StepOf(c), OverlapInv, AloneInv,
           NEW x \in Callers \ excused, x # c,
           \/ \E r \in ReplicaSets \cup {None} :
                 stage[c] # "Reflection" /\ Write(Object(c), r)
           \/ store' = store /\ fresh \ {c} \subseteq fresh'
    PROVE  /\ result'[x] # "error"
           /\ call'[x] = "get" => store'[Object(x)'] # None
           /\ call'[x] = "update" => x \in fresh'
  <1>1. /\ stage'[x] = stage[x] /\ call'[x] = call[x]
        /\ rs'[x] = rs[x] /\ result'[x] = result[x]
    BY DEF StepOf
  <1>2. Object(x)' = Object(x)
    BY <1>1 DEF Object, ObjectOf
  <1>3. ASSUME call[x] \in {"get", "update"}
        PROVE  /\ store'[Object(x)] = store[Object(x)]
               /\ x \in fresh => x \in fresh'
    <2>1. Busy(x) /\ stage[x] # "Reflection"
      BY <1>3 DEF CallerInv, Busy
    <2>2. Object(x) \in Objects
      BY <2>1, ObjectType
    <2>3. CASE store' = store /\ fresh \ {c} \subseteq fresh'
      BY <2>3
    <2>4. ASSUME stage[c] # "Reflection", NEW r \in ReplicaSets \cup {None},
                 Write(Object(c), r)
          PROVE  /\ store'[Object(x)] = store[Object(x)]
                 /\ x \in fresh => x \in fresh'
      <3>1. Object(c) # Object(x)
        BY <2>1, <2>4, SameObject DEF OverlapInv
      <3>2. Object(c) \in Objects
        BY <2>4, ObjectType
      <3> QED BY <2>2, <2>4, <3>1, <3>2, WriteType
    <2> QED BY <2>3, <2>4
  <1> QED BY <1>1, <1>2, <1>3 DEF AloneInv

Inv == CallerType /\ NothingLeftBehind /\ OverlapInv /\ AloneInv

\* The invariant holds at first.
LEMMA InitInv == Init => Inv
  <1> SUFFICES ASSUME Init PROVE Inv
    OBVIOUS
  <1>1. TypeOK
    BY UpsertAssumption DEF Init, TypeOK, Busy
  <1>2. CallerInv /\ OverlapInv /\ AloneInv
    BY DEF Init, CallerInv, OverlapInv, AloneInv, Busy
  <1>3. NothingLeftBehind
    BY DEF Init, NothingLeftBehind, Objects
  <1> QED BY <1>1, <1>2, <1>3 DEF Inv

\* A successful write of a caller's own object, and the next stage.
LEMMA WriteProceedInv ==
    ASSUME Inv, NEW c \in Callers, Busy(c), call[c] # "delete",
           stage[c] # "Reflection",
           Write(Object(c), rs[c]), Proceed(c),
           UNCHANGED <<cancelled, calls, faults, spoilt, excused>>
    PROVE  Inv'
  <1> USE DEF Inv
  <1>1. Object(c) \in Objects /\ rs[c] \in ReplicaSets
    BY ObjectType
  <1>2. StepOf(c)
    BY ProceedKeeps
  <1>3. TypeOK'
    BY <1>1, <1>2, WriteType DEF TypeOK, StepOf
  <1>4. NothingLeftBehind'
    <2> SUFFICES ASSUME NEW o \in Temporary, store'[o] # None, o \notin spoilt
                 PROVE  \E x \in Callers : WillDelete(x, o)'
      BY DEF NothingLeftBehind
    <2>1. CASE o = Object(c)
      BY <2>1, ProceedKeeps
    <2>2. CASE o # Object(c)
      <3>1. store[o] # None
        BY <1>1, <2>2, WriteType DEF Objects
      <3> QED BY <3>1, ProceedKeeps DEF NothingLeftBehind
    <2> QED BY <2>1, <2>2
  <1>5. OverlapInv'
    BY <1>2, OverlapKept
  <1>6. AloneInv'
    <2> SUFFICES ASSUME NEW x \in Callers \ excused
                 PROVE  /\ result'[x] # "error"
                        /\ call'[x] = "get" => store'[Object(x)'] # None
                        /\ call'[x] = "update" => x \in fresh'
      BY DEF AloneInv
    <2>1. CASE x # c
      BY <1>1, <1>2, <2>1, OthersKept
    <2>2. CASE x = c
      BY <2>2 DEF Proceed, Return, GoTo, TypeOK, AloneInv
    <2> QED BY <2>1, <2>2
  <1> QED BY <1>2, <1>3, <1>4, <1>5, <1>6 DEF StepOf

\* A step that touches no object, after which c is excused or has not failed.
LEMMA QuietInv ==
    ASSUME Inv, NEW c \in Callers, Busy(c), StepOf(c),
           \A x \in Callers, o \in Temporary :
              WillDelete(x, o) => WillDelete(x, o)' \/ o \in spoilt',
           spoilt \subseteq spoilt', spoilt' \subseteq Temporary,
           excused \subseteq excused', excused' \subseteq Callers,
           store' = store, fresh \ {c} \subseteq fresh', fresh' \subseteq Callers,
           \/ c \in excused'
           \/ /\ result'[c] # "error"
              /\ call'[c] = "get" => store[Object(c)'] # None
              /\ call'[c] = "update" => c \in fresh',
           faults' \in 0..MaxFaults, UNCHANGED <<cancelled, calls>>
    PROVE  Inv'
  <1> USE DEF Inv
  <1>1. TypeOK'
    BY DEF TypeOK, StepOf
  <1>2. NothingLeftBehind'
    <2> SUFFICES ASSUME NEW o \in Temporary, store'[o] # None, o \notin spoilt'
                 PROVE  \E x \in Callers : WillDelete(x, o)'
      BY DEF NothingLeftBehind
    <2> QED BY DEF NothingLeftBehind
  <1>3. OverlapInv'
    BY OverlapKept
  <1>4. AloneInv'
    <2> SUFFICES ASSUME NEW x \in Callers \ excused'
                 PROVE  /\ result'[x] # "error"
                        /\ call'[x] = "get" => store'[Object(x)'] # None
                        /\ call'[x] = "update" => x \in fresh'
      BY DEF AloneInv
    <2>1. CASE x # c
      BY <2>1, OthersKept
    <2>2. CASE x = c
      BY <2>2 DEF Object
    <2> QED BY <2>1, <2>2
  <1> QED BY <1>1, <1>2, <1>3, <1>4 DEF StepOf

-----------------------------------------------------------------------------
(* One lemma per action *)

\* One lemma for each call: the invariant is kept.
LEMMA CreateInv ==
    ASSUME Inv, NEW c \in Callers, Create(c)
    PROVE  Inv'
  <1> USE DEF Inv
  <1>1. Busy(c) /\ call[c] = "create" /\ stage[c] # "Reflection"
    BY DEF Create, Calls
  <1>2. CASE store[Object(c)] = None
    BY <1>1, <1>2, WriteProceedInv DEF Create, Calls
  <1>3. CASE store[Object(c)] # None
    <2>1. GoTo(c, stage[c], "get") /\ UNCHANGED <<store, fresh, result>>
      BY <1>3 DEF Create, apiVars
    <2>2. StepOf(c)
      BY <1>1, <2>1, GoToType DEF StepOf, TypeOK, CallerInv
    <2>3. \A x \in Callers, o \in Temporary : WillDelete(x, o) => WillDelete(x, o)'
      BY <1>1, <2>1 DEF WillDelete, GoTo, TypeOK, Busy
    <2>4. stage'[c] = stage[c] /\ rs'[c] = rs[c] /\ call'[c] = "get"
      BY <1>1, <2>1 DEF GoTo, TypeOK, Busy
    <2>5. Object(c)' = Object(c)
      BY <2>4 DEF Object, ObjectOf
    <2>6. c \in excused \/ result'[c] # "error"
      BY <2>1 DEF AloneInv
    <2> QED
      BY <1>1, <1>3, <2>1, <2>2, <2>3, <2>4, <2>5, <2>6, QuietInv
      DEF Create, Calls, TypeOK
  <1> QED BY <1>2, <1>3

\* The read of the object that a creation met keeps the invariant.
LEMMA GetInv ==
    ASSUME Inv, NEW c \in Callers, Get(c)
    PROVE  Inv'
  <1> USE DEF Inv
  <1>1. Busy(c) /\ call[c] = "get" /\ stage[c] # "Reflection"
    BY DEF Get, Calls, CallerInv
  <1>2. CASE store[Object(c)] = None
    <2>1. Return(c, "error") /\ fresh' = fresh
      BY <1>2 DEF Get
    <2>2. c \in excused
      BY <1>1, <1>2 DEF AloneInv
    <2> QED
      BY <1>1, <2>1, <2>2, ReturnKeeps, QuietInv DEF Get, Calls, TypeOK
  <1>3. CASE store[Object(c)] # None
    <2>1. /\ GoTo(c, stage[c], "update")
          /\ fresh' = fresh \cup {c}
          /\ UNCHANGED <<store, result>>
      BY <1>3 DEF Get
    <2>2. StepOf(c)
      BY <1>1, <2>1, GoToType DEF StepOf, TypeOK, CallerInv
    <2>3. \A x \in Callers, o \in Temporary : WillDelete(x, o) => WillDelete(x, o)'
      BY <1>1, <2>1 DEF WillDelete, GoTo, TypeOK, Busy
    <2>4. call'[c] = "update"
      BY <1>1, <2>1 DEF GoTo, TypeOK, Busy
    <2>5. c \in excused \/ result'[c] # "error"
      BY <2>1 DEF AloneInv
    <2> QED
      BY <1>1, <2>1, <2>2, <2>3, <2>4, <2>5, QuietInv DEF Get, Calls, TypeOK
  <1> QED BY <1>2, <1>3

\* The write of the object that was read keeps the invariant.
LEMMA UpdateInv ==
    ASSUME Inv, NEW c \in Callers, Update(c)
    PROVE  Inv'
  <1> USE DEF Inv
  <1>1. Busy(c) /\ call[c] = "update" /\ stage[c] # "Reflection"
    BY DEF Update, Calls, CallerInv
  <1>2. CASE c \in fresh
    BY <1>1, <1>2, WriteProceedInv DEF Update, Calls
  <1>3. CASE c \notin fresh
    <2>1. Return(c, "error") /\ UNCHANGED <<store, fresh>>
      BY <1>3 DEF Update, apiVars
    <2>2. c \in excused
      BY <1>1, <1>3 DEF AloneInv
    <2> QED
      BY <1>1, <2>1, <2>2, ReturnKeeps, QuietInv DEF Update, Calls, TypeOK
  <1> QED BY <1>2, <1>3

\* The query of the server by reflection keeps the invariant.
LEMMA QueryInv ==
    ASSUME Inv, NEW c \in Callers, Query(c)
    PROVE  Inv'
  <1> USE DEF Inv
  <1>1. Busy(c) /\ call[c] = "create" /\ Proceed(c) /\ UNCHANGED <<store, fresh, spoilt>>
    BY DEF Query, Calls, apiVars
  <1>2. c \in excused \/ result'[c] # "error"
    BY DEF Query, Proceed, AloneInv
  <1>3. call'[c] \notin {"get", "update"}
    BY DEF Query, Proceed, GoTo, TypeOK
  <1> QED
    BY <1>1, <1>2, <1>3, ProceedKeeps, QuietInv DEF Query, Calls, TypeOK

\* An object is deleted, with or without an answer.
LEMMA EraseInv ==
    ASSUME Inv, NEW c \in Callers, Busy(c), call[c] = "delete",
           NEW res \in {"ok", "error"}, Write(Object(c), None), Deleted(c, res),
           spoilt' = spoilt \ {Object(c)},
           excused \subseteq excused', excused' \subseteq Callers,
           res = "error" => c \in excused',
           faults' \in 0..MaxFaults, UNCHANGED <<cancelled, calls>>
    PROVE  Inv'
  <1> USE DEF Inv
  <1>1. StepOf(c)
    BY DeletedKeeps
  <1>2. stage[c] # "Reflection"
    BY DEF CallerInv
  <1>3. Object(c) \in Objects
    BY <1>2, ObjectType
  <1>4. TypeOK'
    BY <1>1, <1>3, WriteType DEF TypeOK, StepOf
  <1>5. NothingLeftBehind'
    <2> SUFFICES ASSUME NEW o \in Temporary, store'[o] # None, o \notin spoilt'
                 PROVE  \E x \in Callers : WillDelete(x, o)'
      BY DEF NothingLeftBehind
    <2>1. o # Object(c)
      BY <1>3, WriteType
    <2>2. store[o] # None /\ o \notin spoilt
      BY <1>3, <2>1, WriteType DEF Objects
    <2> QED BY <2>1, <2>2, DeletedKeeps DEF NothingLeftBehind
  <1>6. OverlapInv'
    BY <1>1, OverlapKept
  <1>7. AloneInv'
    <2> SUFFICES ASSUME NEW x \in Callers \ excused'
                 PROVE  /\ result'[x] # "error"
                        /\ call'[x] = "get" => store'[Object(x)'] # None
                        /\ call'[x] = "update" => x \in fresh'
      BY DEF AloneInv
    <2>1. CASE x # c
      BY <1>1, <1>2, <2>1, OthersKept
    <2>2. CASE x = c
      BY <2>2 DEF Deleted, GoTo, TypeOK, AloneInv
    <2> QED BY <2>1, <2>2
  <1> QED BY <1>1, <1>4, <1>5, <1>6, <1>7 DEF StepOf

\* A deletion, deferred or of deleteFilter, keeps the invariant.
LEMMA DeleteInv ==
    ASSUME Inv, NEW c \in Callers, Delete(c)
    PROVE  Inv'
  BY EraseInv DEF Delete, Calls, Inv, TypeOK

\* Faults are counted up to their bound.
LEMMA FaultType ==
    ASSUME TypeOK, NEW kind, Fault(kind)
    PROVE  faults' \in 0..MaxFaults
  BY UpsertAssumption DEF Fault, TypeOK

\* The same for the faults.
LEMMA CallFailsInv ==
    ASSUME Inv, NEW c \in Callers, CallFails(c)
    PROVE  Inv'
  <1> USE DEF Inv
  <1>1. /\ Busy(c)
        /\ fresh' = fresh \ {c}
        /\ excused' = excused \cup {c}
        /\ UNCHANGED <<store, cancelled, calls>>
    BY DEF CallFails
  <1>2. faults' \in 0..MaxFaults
    BY FaultType DEF CallFails, TypeOK
  <1>3. CASE call[c] = "delete"
    <2>1. /\ Deleted(c, "error")
          /\ spoilt' = spoilt \cup {o \in Temporary \cap {Object(c)} : store[o] # None}
      BY <1>3 DEF CallFails
    <2>2. StepOf(c)
      BY <1>1, <1>3, <2>1, DeletedKeeps
    <2>3. TypeOK'
      BY <1>1, <1>2, <2>1, <2>2 DEF TypeOK, StepOf
    <2>4. NothingLeftBehind'
      <3> SUFFICES ASSUME NEW o \in Temporary, store'[o] # None, o \notin spoilt'
                   PROVE  \E x \in Callers : WillDelete(x, o)'
        BY DEF NothingLeftBehind
      <3>1. store[o] # None /\ o \notin spoilt /\ o # Object(c)
        BY <1>1, <2>1
      <3> QED BY <1>1, <1>3, <2>1, <3>1, DeletedKeeps DEF NothingLeftBehind
    <2>5. OverlapInv'
      BY <1>1, <2>2, OverlapKept
    <2>6. AloneInv'
      BY <1>1, <2>2, OthersKept DEF AloneInv
    <2> QED BY <2>2, <2>3, <2>4, <2>5, <2>6 DEF StepOf
  <1>4. CASE call[c] # "delete"
    <2>1. Return(c, "error") /\ spoilt' = spoilt
      BY <1>4 DEF CallFails
    <2> QED BY <1>1, <1>2, <1>4, <2>1, ReturnKeeps, QuietInv DEF TypeOK
  <1> QED BY <1>3, <1>4

\* A call that is carried out and answered by an error keeps the invariant.
LEMMA AnswerLostInv ==
    ASSUME Inv, NEW c \in Callers, AnswerLost(c)
    PROVE  Inv'
  <1> USE DEF Inv
  <1>1. /\ Busy(c)
        /\ excused' = excused \cup {c}
        /\ faults' \in 0..MaxFaults
        /\ UNCHANGED <<cancelled, calls>>
    BY FaultType DEF AnswerLost
  <1>2. CASE /\ WillWrite(c)
             /\ Write(Object(c), rs[c])
             /\ Return(c, "error")
             /\ spoilt' = spoilt \cup (Temporary \cap {Object(c)})
    <2>1. call[c] # "delete" /\ stage[c] # "Reflection"
      BY <1>2 DEF WillWrite, CallerInv
    <2>2. Object(c) \in Objects /\ rs[c] \in ReplicaSets
      BY <1>1, <2>1, ObjectType
    <2>3. StepOf(c)
      BY <1>1, <1>2, <2>1, ReturnKeeps
    <2>4. TypeOK'
      BY <1>1, <1>2, <2>2, <2>3, WriteType DEF TypeOK, StepOf
    <2>5. NothingLeftBehind'
      <3> SUFFICES ASSUME NEW o \in Temporary, store'[o] # None, o \notin spoilt'
                   PROVE  \E x \in Callers : WillDelete(x, o)'
        BY DEF NothingLeftBehind
      <3>1. o # Object(c) /\ o \notin spoilt
        BY <1>2
      <3>2. store[o] # None
        BY <1>2, <2>2, <3>1, WriteType DEF Objects
      <3> QED BY <1>1, <1>2, <2>1, <3>1, <3>2, ReturnKeeps DEF NothingLeftBehind
    <2>6. OverlapInv'
      BY <1>1, <2>3, OverlapKept
    <2>7. AloneInv'
      BY <1>1, <1>2, <2>1, <2>2, <2>3, OthersKept DEF AloneInv
    <2> QED BY <2>3, <2>4, <2>5, <2>6, <2>7 DEF StepOf
  <1>3. CASE /\ call[c] = "delete"
             /\ Write(Object(c), None)
             /\ Deleted(c, "error")
             /\ spoilt' = spoilt \ {Object(c)}
    BY <1>1, <1>3, EraseInv DEF TypeOK
  <1> QED BY <1>2, <1>3 DEF AnswerLost

\* Both upsertFilter and deleteFilter start this way.
LEMMA StartInv ==
    ASSUME Inv, NEW c \in Callers, NEW r \in ReplicaSets,
           NEW kind, NEW what,
           \/ kind = "Service" /\ what = "create"
           \/ kind = "EnvoyFilter" /\ what = "delete",
           Start(c, r, kind, what)
    PROVE  Inv'
  <1> USE DEF Inv
  <1>1. TypeOK' /\ CallerInv'
    <2>1. r # None /\ calls' \in 0..MaxCalls
      BY UpsertAssumption DEF Start, TypeOK
    <2>2. excused' \subseteq Callers
      BY DEF Start, Others, TypeOK
    <2> QED BY <2>1, <2>2 DEF Start, TypeOK, CallerInv, apiVars, Busy
  <1>2. NothingLeftBehind'
    <2>1. \A x \in Callers, o \in Temporary : WillDelete(x, o) => WillDelete(x, o)'
      <3> SUFFICES ASSUME NEW x \in Callers, NEW o \in Temporary, WillDelete(x, o)
                   PROVE  WillDelete(x, o)'
        OBVIOUS
      <3>1. x # c
        BY DEF WillDelete, Start, Busy, TypeOK, Temporary
      <3> QED BY <3>1 DEF WillDelete, Start, TypeOK
    <2> QED BY <2>1 DEF NothingLeftBehind, Start, apiVars
  <1>3. OverlapInv'
    <2> SUFFICES ASSUME NEW x \in Callers, NEW y \in Callers, x # y,
                        Busy(x)', Busy(y)', Owner[rs'[x]] = Owner[rs'[y]]
                 PROVE  {x, y} \subseteq excused'
      BY DEF OverlapInv
    <2>1. \A z \in Callers \ {c} : rs'[z] = rs[z] /\ (Busy(z)' <=> Busy(z))
      BY DEF Start, TypeOK, Busy
    <2>2. rs'[c] = r
      BY DEF Start, TypeOK
    <2>3. CASE x # c /\ y # c
      <3>1. {x, y} \subseteq excused
        BY <2>1, <2>3 DEF OverlapInv
      <3> QED BY <3>1, <2>3 DEF Start
    <2>4. CASE x = c \/ y = c
      <3>1. Others(c, r) # {} /\ {x, y} \subseteq Others(c, r) \cup {c}
        BY <2>1, <2>2, <2>4 DEF Others
      <3> QED BY <3>1 DEF Start
    <2> QED BY <2>3, <2>4
  <1>4. AloneInv'
    <2> SUFFICES ASSUME NEW x \in Callers \ excused'
                 PROVE  /\ result'[x] # "error"
                        /\ call'[x] = "get" => store'[Object(x)'] # None
                        /\ call'[x] = "update" => x \in fresh'
      BY DEF AloneInv
    <2>1. CASE x = c
      BY <2>1 DEF Start, TypeOK
    <2>2. CASE x # c
      <3>1. x \notin excused
        BY <2>2 DEF Start
      <3>2. /\ stage'[x] = stage[x] /\ call'[x] = call[x]
            /\ rs'[x] = rs[x] /\ result'[x] = result[x]
        BY <2>2 DEF Start, TypeOK
      <3>3. Object(x)' = Object(x)
        BY <3>2 DEF Object, ObjectOf
      <3> QED BY <3>1, <3>2, <3>3 DEF AloneInv, Start, apiVars
    <2> QED BY <2>1, <2>2
  <1> QED BY <1>1, <1>2, <1>3, <1>4

\* The end of a process's context keeps the invariant.
LEMMA CancelInv ==
    ASSUME Inv, NEW p \in Processes, Cancel(p)
    PROVE  Inv'
  <1> USE DEF Inv
  <1>1. UNCHANGED <<store, fresh, stage, call, rs, result, calls, spoilt, excused>>
    BY DEF Cancel, apiVars, callerVars
  <1>2. TypeOK'
    BY <1>1, FaultType DEF Cancel, TypeOK, Busy
  <1>3. CallerInv' /\ OverlapInv'
    BY <1>1 DEF CallerInv, OverlapInv, Busy
  <1>4. NothingLeftBehind'
    BY <1>1 DEF NothingLeftBehind, WillDelete
  <1>5. AloneInv'
    BY <1>1 DEF AloneInv, Object, ObjectOf
  <1> QED BY <1>2, <1>3, <1>4, <1>5

\* A restart of a process between any two calls keeps the invariant.
LEMMA RestartInv ==
    ASSUME Inv, NEW p \in Processes, Restart(p)
    PROVE  Inv'
  <1> USE DEF Inv
  <1> DEFINE Mine == {c \in Callers : ProcessOf[c] = p}
  <1>1. \A c \in Mine : /\ stage'[c] = "idle" /\ call'[c] = "none"
                        /\ rs'[c] = None /\ result'[c] = "none"
    BY DEF Restart
  <1>2. \A c \in Callers \ Mine :
            /\ stage'[c] = stage[c] /\ call'[c] = call[c]
            /\ rs'[c] = rs[c] /\ result'[c] = result[c]
    BY DEF Restart
  <1>3. UNCHANGED <<store, calls>> /\ fresh' = fresh \ Mine /\ excused' = excused \ Mine
    BY DEF Restart
  <1>4. TypeOK'
    <2>1. /\ stage' \in [Callers -> {"idle", "Service", "Ingress", "Reflection",
                                     "EnvoyFilter"}]
          /\ call' \in [Callers -> {"none", "create", "get", "update", "delete"}]
          /\ rs' \in [Callers -> ReplicaSets \cup {None}]
          /\ result' \in [Callers -> {"none", "ok", "error"}]
      BY DEF Restart, TypeOK
    <2>2. (\A c \in Callers : Busy(c) <=> rs[c] # None)'
      BY <1>1, <1>2 DEF TypeOK, Busy
    <2>3. /\ faults' \in 0..MaxFaults /\ cancelled' \subseteq Processes
          /\ spoilt' \subseteq Temporary
      BY FaultType DEF Restart, TypeOK
    <2> QED BY <1>3, <2>1, <2>2, <2>3 DEF TypeOK
  <1>5. CallerInv' /\ OverlapInv'
    BY <1>1, <1>2, <1>3 DEF CallerInv, OverlapInv, Busy
  <1>6. NothingLeftBehind'
    <2> SUFFICES ASSUME NEW o \in Temporary, store'[o] # None, o \notin spoilt'
                 PROVE  \E x \in Callers : WillDelete(x, o)'
      BY DEF NothingLeftBehind
    <2>1. PICK x \in Callers : WillDelete(x, o) /\ x \notin Mine
      BY <1>3 DEF NothingLeftBehind, Restart
    <2> QED BY <1>2, <2>1 DEF WillDelete
  <1>7. AloneInv'
    <2> SUFFICES ASSUME NEW x \in Callers \ excused'
                 PROVE  /\ result'[x] # "error"
                        /\ call'[x] = "get" => store'[Object(x)'] # None
                        /\ call'[x] = "update" => x \in fresh'
      BY DEF AloneInv
    <2>1. CASE x \in Mine
      BY <1>1, <2>1
    <2>2. CASE x \notin Mine
      <3>1. Object(x)' = Object(x)
        BY <1>2, <2>2 DEF Object, ObjectOf
      <3> QED BY <1>2, <1>3, <2>2, <3>1 DEF AloneInv
    <2> QED BY <2>1, <2>2
  <1> QED BY <1>4, <1>5, <1>6, <1>7

-----------------------------------------------------------------------------
(* Theorems *)

\* The inductive invariant that the theorems below rest on: where a caller is,
\* what it is going to delete, and what it can rely on while it is alone.
THEOREM Invariance == Spec => []Inv
  <1>1. Inv /\ [Next]_vars => Inv'
    <2> SUFFICES ASSUME Inv, [Next]_vars PROVE Inv'
      OBVIOUS
    <2>1. ASSUME NEW c \in Callers, NEW r \in ReplicaSets, StartUpsert(c, r)
          PROVE  Inv'
      BY <2>1, StartInv DEF StartUpsert
    <2>2. ASSUME NEW c \in Callers, NEW r \in ReplicaSets, StartDelete(c, r)
          PROVE  Inv'
      BY <2>2, StartInv DEF StartDelete
    <2>3. ASSUME NEW c \in Callers,
                 \/ Create(c) \/ Get(c) \/ Update(c) \/ Query(c) \/ Delete(c)
                 \/ CallFails(c) \/ AnswerLost(c)
          PROVE  Inv'
      BY <2>3, CreateInv, GetInv, UpdateInv, QueryInv, DeleteInv, CallFailsInv,
         AnswerLostInv
    <2>4. ASSUME NEW p \in Processes, Cancel(p) \/ Restart(p)
          PROVE  Inv'
      BY <2>4, CancelInv, RestartInv
    <2>5. CASE UNCHANGED vars
      <3>1. UNCHANGED <<store, fresh, stage, call, rs, result, cancelled, calls,
                        faults, spoilt, excused>>
        BY <2>5 DEF vars, apiVars, callerVars
      <3>2. TypeOK' /\ CallerInv' /\ OverlapInv'
        BY <3>1 DEF Inv, TypeOK, CallerInv, OverlapInv, Busy
      <3>3. NothingLeftBehind' /\ AloneInv'
        BY <3>1 DEF Inv, NothingLeftBehind, WillDelete, AloneInv, Object, ObjectOf
      <3> QED BY <3>2, <3>3 DEF Inv
    <2> QED BY <2>1, <2>2, <2>3, <2>4, <2>5 DEF Next
  <1> QED BY <1>1, InitInv, PTL DEF Spec

\* Type correctness of upsertFilter's and deleteFilter's calls.
THEOREM TypeCorrect == Spec => []TypeOK
  <1>1. Inv => TypeOK
    BY DEF Inv
  <1> QED BY <1>1, Invariance, PTL

\* The deferred calls of upsertFilter leave no Service and no Ingress behind,
\* but for crashes, failed deletes and lost answers.
THEOREM NoLeftovers == Spec => []NothingLeftBehind
  <1>1. Inv => NothingLeftBehind
    BY DEF Inv
  <1> QED BY <1>1, Invariance, PTL

\* An upsert or delete fails only because of a fault or another caller that
\* works on the same Deployment.
THEOREM FailuresHaveCauses == Spec => []AloneSucceeds
  <1>1. Inv => AloneSucceeds
    BY DEF Inv, AloneInv, AloneSucceeds
  <1> QED BY <1>1, Invariance, PTL

-----------------------------------------------------------------------------
(* Who deletes what another is going to use *)

\* Two callers have one ReplicaSet only in two processes.
KeyInv ==
    \A c, x \in Callers :
        c # x /\ rs[c] # None /\ rs[c] = rs[x] => ProcessOf[c] # ProcessOf[x]

\* Callers that do not start keep their ReplicaSets or give them up.
LEMMA RsKept ==
    ASSUME TypeOK, NEW c \in Callers, NEW s, NEW what, GoTo(c, s, what)
    PROVE  \A y \in Callers : rs'[y] \in {rs[y], None}
  BY DEF TypeOK, GoTo

\* The work queue hands out a ReplicaSet once per process.
LEMMA KeyKept ==
    ASSUME TypeOK, KeyInv, [Next]_vars
    PROVE  KeyInv'
  <1>1. ASSUME \A y \in Callers : rs'[y] \in {rs[y], None}
        PROVE  KeyInv'
    BY <1>1 DEF KeyInv
  <1>2. ASSUME NEW c \in Callers, NEW r \in ReplicaSets, NEW kind, NEW what,
               Start(c, r, kind, what)
        PROVE  KeyInv'
    <2>1. \A x \in Callers : rs'[x] = IF x = c THEN r ELSE rs[x]
      BY <1>2 DEF Start, TypeOK
    <2>2. \A x \in Callers : rs[x] = r => ProcessOf[x] # ProcessOf[c]
      BY <1>2 DEF Start
    <2> QED BY <2>1, <2>2 DEF KeyInv
  <1>3. ASSUME NEW c \in Callers,
               \/ Create(c) \/ Get(c) \/ Update(c) \/ Query(c) \/ Delete(c)
               \/ CallFails(c) \/ AnswerLost(c)
        PROVE  KeyInv'
    <2>1. \E s, what : GoTo(c, s, what)
      BY <1>3 DEF Create, Get, Update, Query, Delete, CallFails, AnswerLost,
                  Proceed, Return, Deleted
    <2> QED BY <1>1, <2>1, RsKept
  <1>4. ASSUME NEW p \in Processes, Cancel(p) \/ Restart(p)
        PROVE  KeyInv'
    BY <1>1, <1>4 DEF Cancel, Restart, callerVars
  <1>5. CASE UNCHANGED vars
    BY <1>1, <1>5 DEF vars, callerVars
  <1> QED BY <1>2, <1>3, <1>4, <1>5 DEF Next, StartUpsert, StartDelete

\* An object goes only by somebody's call to delete it.
LEMMA ErasedBy ==
    ASSUME CallerType, [Next]_vars, NEW o \in Objects,
           store[o] # None, store'[o] = None
    PROVE  \E x \in Callers : /\ Busy(x) /\ stage[x] # "Reflection"
                              /\ call[x] = "delete" /\ Object(x) = o
  <1>1. ASSUME NEW x \in Callers, Busy(x), stage[x] # "Reflection",
               Write(Object(x), rs[x])
        PROVE  FALSE
    <2>1. Object(x) \in Objects /\ rs[x] \in ReplicaSets
      BY <1>1, ObjectType
    <2> QED BY <1>1, <2>1, WriteType, UpsertAssumption
  <1>2. ASSUME NEW x \in Callers, Busy(x), call[x] = "delete",
               Write(Object(x), None)
        PROVE  Object(x) = o /\ stage[x] # "Reflection"
    <2>1. stage[x] # "Reflection"
      BY <1>2 DEF CallerInv
    <2>2. Object(x) \in Objects
      BY <1>2, <2>1, ObjectType
    <2> QED BY <1>2, <2>1, <2>2, WriteType
  <1>3. ASSUME store' = store
        PROVE  FALSE
    BY <1>3
  <1>4. ASSUME NEW c \in Callers, NEW r \in ReplicaSets,
               StartUpsert(c, r) \/ StartDelete(c, r)
        PROVE  FALSE
    BY <1>3, <1>4 DEF StartUpsert, StartDelete, Start, apiVars
  <1>5. ASSUME NEW c \in Callers, Create(c) \/ Update(c)
        PROVE  FALSE
    <2>1. Busy(c) /\ stage[c] # "Reflection"
      BY <1>5 DEF Create, Update, Calls, CallerInv
    <2> QED BY <1>1, <1>3, <1>5, <2>1 DEF Create, Update, apiVars
  <1>6. ASSUME NEW c \in Callers, Get(c) \/ Query(c) \/ CallFails(c)
        PROVE  FALSE
    BY <1>3, <1>6 DEF Get, Query, CallFails, apiVars
  <1>7. ASSUME NEW c \in Callers, Delete(c) \/ AnswerLost(c)
        PROVE  /\ Busy(c) /\ stage[c] # "Reflection"
               /\ call[c] = "delete" /\ Object(c) = o
    <2>1. Busy(c)
      BY <1>7 DEF Delete, AnswerLost, Calls
    <2>2. CASE call[c] = "delete" /\ Write(Object(c), None)
      BY <1>2, <2>1, <2>2
    <2>3. CASE WillWrite(c) /\ Write(Object(c), rs[c])
      <3>1. stage[c] # "Reflection"
        BY <2>3 DEF WillWrite, CallerInv
      <3> QED BY <1>1, <2>1, <2>3, <3>1
    <2> QED BY <1>7, <2>2, <2>3 DEF Delete, AnswerLost, Calls
  <1>8. ASSUME NEW p \in Processes, Cancel(p) \/ Restart(p)
        PROVE  FALSE
    BY <1>3, <1>8 DEF Cancel, Restart, apiVars
  <1>9. CASE UNCHANGED vars
    BY <1>3, <1>9 DEF vars, apiVars
  <1> QED BY <1>4, <1>5, <1>6, <1>7, <1>8, <1>9 DEF Next

\* A Service or Ingress that an upsert is going to use is deleted under it by a
\* worker of another process, or not at all.
THEOREM TakenFromOutside == Spec => TakenByOtherProcess
  <1>1. Init => KeyInv
    BY DEF Init, KeyInv
  <1>2. Inv /\ KeyInv /\ [Next]_vars => KeyInv'
    BY KeyKept DEF Inv, CallerType
  <1>3. ASSUME Inv, KeyInv, [Next]_vars, NEW c \in Callers, NEW o \in Temporary,
               WillDelete(c, o), call[c] # "delete",
               store[o] # None, store'[o] = None
        PROVE  \E x \in Callers : /\ ProcessOf[x] # ProcessOf[c]
                                  /\ call[x] = "delete" /\ Object(x) = o
    <2>1. PICK x \in Callers : /\ Busy(x) /\ stage[x] # "Reflection"
                               /\ call[x] = "delete" /\ Object(x) = o
      BY <1>3, ErasedBy DEF Inv, Objects
    <2>2. Object(x) = <<stage[x], rs[x]>> /\ rs[x] \in ReplicaSets
      BY <1>3, <2>1, ObjectType DEF Inv
    <2>3. rs[c] = rs[x] /\ rs[x] # None
      BY <1>3, <2>1, <2>2, UpsertAssumption DEF WillDelete
    <2> QED BY <1>3, <2>1, <2>3 DEF KeyInv
  <1>4. Inv /\ KeyInv /\ [Next]_vars
          => [\A c \in Callers, o \in Temporary :
                 /\ WillDelete(c, o) /\ call[c] # "delete"
                 /\ store[o] # None /\ store'[o] = None
                 => \E x \in Callers : /\ ProcessOf[x] # ProcessOf[c]
                                       /\ call[x] = "delete" /\ Object(x) = o]_vars
    BY <1>3
  <1> QED BY <1>1, <1>2, <1>4, Invariance, PTL DEF Spec, TakenByOtherProcess

-----------------------------------------------------------------------------
(* Refinement *)

\* The refinement mapping.
FilterMap == [d \in Deployments |-> store[<<"EnvoyFilter", d>>]]
TaskMap == [c \in Callers |-> Task(c)]

\* A caller has decided once it makes its deferred calls.
ResultInv ==
    \A c \in Callers : Busy(c) =>
        (result[c] = "none" <=> call[c] # "delete" \/ stage[c] = "EnvoyFilter")

\* What a caller has been asked for and not decided.
LEMMA TaskOf ==
    ASSUME CallerType, ResultInv, NEW c \in Callers, Busy(c)
    PROVE  /\ call[c] # "delete" => Task(c) = [op |-> "upsert", rs |-> rs[c]]
           /\ call[c] = "delete" /\ stage[c] = "EnvoyFilter"
                => Task(c) = [op |-> "delete", rs |-> rs[c]]
           /\ call[c] = "delete" /\ stage[c] # "EnvoyFilter" => Task(c) = None
           /\ rs[c] \in ReplicaSets
           /\ \A op \in {"upsert", "delete"} : [op |-> op, rs |-> rs[c]] # None
  <1>1. rs[c] \in ReplicaSets
    BY DEF TypeOK
  <1> QED BY <1>1, UpsertAssumption DEF ResultInv, Task

\* Only a write to an EnvoyFilter changes the abstract filter.
LEMMA FilterWrite ==
    ASSUME CallerType, NEW c \in Callers, Busy(c), stage[c] # "Reflection",
           NEW r \in ReplicaSets \cup {None}, Write(Object(c), r)
    PROVE  FilterMap' = IF stage[c] = "EnvoyFilter"
                        THEN [FilterMap EXCEPT ![Owner[rs[c]]] = r]
                        ELSE FilterMap
  <1>1. Object(c) \in Objects
    BY ObjectType
  <1>2. /\ store'[Object(c)] = r
        /\ \A p \in Objects \ {Object(c)} : store'[p] = store[p]
    BY <1>1, WriteType
  <1>3. \A d \in Deployments : <<"EnvoyFilter", d>> \in Objects
    BY DEF Objects, Filters
  <1>4. CASE stage[c] = "EnvoyFilter"
    <2>1. Object(c) = <<"EnvoyFilter", Owner[rs[c]]>>
      BY <1>4, ObjectType
    <2>2. \A d \in Deployments : store'[<<"EnvoyFilter", d>>] =
              IF d = Owner[rs[c]] THEN r ELSE store[<<"EnvoyFilter", d>>]
      <3> TAKE d \in Deployments
      <3>1. CASE d = Owner[rs[c]]
        BY <1>2, <2>1, <3>1
      <3>2. CASE d # Owner[rs[c]]
        <4>1. <<"EnvoyFilter", d>> # <<"EnvoyFilter", Owner[rs[c]]>>
          BY <3>2
        <4> QED BY <1>2, <1>3, <2>1, <3>2, <4>1
      <3> QED BY <3>1, <3>2
    <2> QED BY <1>4, <2>2 DEF FilterMap
  <1>5. CASE stage[c] # "EnvoyFilter"
    <2>1. \A d \in Deployments : <<"EnvoyFilter", d>> # Object(c)
      BY <1>5, ObjectType
    <2> QED BY <1>2, <1>3, <1>5, <2>1 DEF FilterMap
  <1> QED BY <1>4, <1>5

\* A step of c changes no task but c's.
LEMMA TaskChange ==
    ASSUME CallerType, NEW c \in Callers, NEW t,
           \A x \in Callers \ {c} :
               /\ stage'[x] = stage[x] /\ call'[x] = call[x]
               /\ rs'[x] = rs[x] /\ result'[x] = result[x],
           Task(c)' = t
    PROVE  TaskMap' = [TaskMap EXCEPT ![c] = t]
  <1>1. \A x \in Callers \ {c} : Task(x)' = Task(x)
    BY DEF Task, Busy
  <1> QED BY <1>1 DEF TaskMap

\* Returning decides an upsert.
LEMMA ReturnMaps ==
    ASSUME CallerType, ResultInv, NEW c \in Callers, Busy(c), call[c] # "delete",
           NEW res \in {"ok", "error"}, Return(c, res)
    PROVE  /\ ResultInv'
           /\ Task(c) = [op |-> "upsert", rs |-> rs[c]]
           /\ Task(c) # None
           /\ TaskMap' = [TaskMap EXCEPT ![c] = None]
           /\ result' = [result EXCEPT ![c] = res]
  <1>1. /\ stage' = [stage EXCEPT ![c] = FirstDeferred[stage[c]]]
        /\ call' = [call EXCEPT ![c] =
                       IF FirstDeferred[stage[c]] = "idle" THEN "none" ELSE "delete"]
        /\ rs' = [rs EXCEPT ![c] =
                     IF FirstDeferred[stage[c]] = "idle" THEN None ELSE @]
        /\ result' = [result EXCEPT ![c] = res]
    BY DEF Return, GoTo
  <1>2. FirstDeferred[stage[c]] \in {"idle", "Service", "Ingress"}
    BY DEF FirstDeferred, TypeOK, Busy
  <1>3. result'[c] = res
    BY <1>1 DEF TypeOK
  <1>4. Task(c)' = None
    BY <1>3 DEF Task
  <1>5. ResultInv'
    BY <1>1, <1>2 DEF ResultInv, Busy, TypeOK
  <1>6. TaskMap' = [TaskMap EXCEPT ![c] = None]
    BY <1>1, <1>4, TaskChange DEF TypeOK
  <1> QED BY <1>1, <1>5, <1>6, TaskOf

\* Going on with the same ReplicaSet, without a delete, decides nothing.
LEMMA GoOnMaps ==
    ASSUME CallerType, ResultInv, NEW c \in Callers, Busy(c), call[c] # "delete",
           NEW s \in {"Service", "Ingress", "Reflection", "EnvoyFilter"},
           NEW what \in {"create", "get", "update"},
           GoTo(c, s, what), result' = result
    PROVE  ResultInv' /\ TaskMap' = TaskMap
  <1>1. /\ stage' = [stage EXCEPT ![c] = s]
        /\ call' = [call EXCEPT ![c] = what]
        /\ rs' = rs
    BY DEF GoTo, TypeOK
  <1>2. ResultInv'
    BY <1>1 DEF ResultInv, Busy, TypeOK
  <1>3. \A x \in Callers : Task(x)' = Task(x)
    BY <1>1 DEF Task, Busy, TypeOK
  <1> QED BY <1>2, <1>3 DEF TaskMap

\* A delete decides if it is deleteFilter's.
LEMMA DeletedMaps ==
    ASSUME CallerType, ResultInv, NEW c \in Callers, Busy(c), call[c] = "delete",
           NEW res \in {"ok", "error"}, Deleted(c, res)
    PROVE  /\ ResultInv'
           /\ stage[c] = "EnvoyFilter" =>
                 /\ Task(c) = [op |-> "delete", rs |-> rs[c]]
                 /\ Task(c) # None
                 /\ TaskMap' = [TaskMap EXCEPT ![c] = None]
                 /\ result' = [result EXCEPT ![c] = res]
           /\ stage[c] # "EnvoyFilter" => TaskMap' = TaskMap /\ result' = result
  <1>1. stage[c] \in {"Service", "Ingress", "EnvoyFilter"}
    BY DEF TypeOK, CallerInv, Busy
  <1>2. NextDeferred[stage[c]] \in {"idle", "Service"}
    BY <1>1 DEF NextDeferred
  <1>3. /\ stage' = [stage EXCEPT ![c] = NextDeferred[stage[c]]]
        /\ call' = [call EXCEPT ![c] =
                       IF NextDeferred[stage[c]] = "idle" THEN "none" ELSE "delete"]
        /\ rs' = [rs EXCEPT ![c] =
                     IF NextDeferred[stage[c]] = "idle" THEN None ELSE @]
    BY DEF Deleted, GoTo
  <1>4. CASE stage[c] = "EnvoyFilter"
    <2>1. /\ stage'[c] = "idle"
          /\ result' = [result EXCEPT ![c] = res]
      BY <1>3, <1>4 DEF NextDeferred, Deleted, TypeOK
    <2>2. ResultInv'
      BY <1>3, <2>1 DEF ResultInv, Busy, TypeOK
    <2>3. Task(c)' = None
      BY <2>1 DEF Task, Busy
    <2>4. TaskMap' = [TaskMap EXCEPT ![c] = None]
      BY <1>3, <2>1, <2>3, TaskChange DEF TypeOK
    <2> QED BY <1>4, <2>1, <2>2, <2>4, TaskOf
  <1>5. CASE stage[c] # "EnvoyFilter"
    <2>1. result' = result /\ result[c] # "none"
      BY <1>5 DEF Deleted, ResultInv
    <2>2. ResultInv'
      BY <1>2, <1>3, <2>1 DEF ResultInv, Busy, TypeOK
    <2>3. Task(c)' = None /\ Task(c) = None
      BY <2>1 DEF Task
    <2>4. \A x \in Callers \ {c} : Task(x)' = Task(x)
      BY <1>3, <2>1 DEF Task, Busy, TypeOK
    <2> QED BY <1>5, <2>1, <2>2, <2>3, <2>4 DEF TaskMap
  <1> QED BY <1>4, <1>5

-----------------------------------------------------------------------------
(* The steps of the abstract specification *)

\* A step of Upsert is one of AtomicUpsert, or stutters there.
Maps == ResultInv' /\ [AU!Next]_(AU!vars)

\* Which steps do.
LEMMA StepMaps ==
    ASSUME NEW c \in Callers, ResultInv',
           \/ FilterMap' = FilterMap /\ TaskMap' = TaskMap /\ result' = result
           \/ \E t \in AU!Task : AU!Ask(c, t)
           \/ AU!Succeed(c) \/ AU!Fail(c) \/ AU!LoseAnswer(c)
    PROVE  Maps
  BY DEF Maps, AU!Next, AU!vars, FilterMap, TaskMap

\* An upsert that returns res, with or without its effect on the filter.
LEMMA ReturnSteps ==
    ASSUME CallerType, ResultInv, NEW c \in Callers, Busy(c), call[c] # "delete",
           NEW res \in {"ok", "error"}, Return(c, res),
           \/ FilterMap' = FilterMap /\ res = "error"
           \/ FilterMap' = [FilterMap EXCEPT ![Owner[rs[c]]] = rs[c]]
    PROVE  Maps
  <1>1. /\ ResultInv'
        /\ TaskMap[c] = [op |-> "upsert", rs |-> rs[c]]
        /\ TaskMap[c] # None
        /\ TaskMap' = [TaskMap EXCEPT ![c] = None]
        /\ result' = [result EXCEPT ![c] = res]
    BY ReturnMaps DEF TaskMap
  <1>2. AU!Decide(c, res)
    BY <1>1 DEF AU!Decide, TaskMap
  <1>3. CASE FilterMap' = FilterMap /\ res = "error"
    <2>1. AU!Fail(c)
      BY <1>2, <1>3 DEF AU!Fail, FilterMap
    <2> QED BY <1>1, <2>1, StepMaps
  <1>4. CASE FilterMap' = [FilterMap EXCEPT ![Owner[rs[c]]] = rs[c]]
    <2>1. AU!Effect(TaskMap[c])
      BY <1>1, <1>4 DEF AU!Effect, FilterMap
    <2>2. AU!Succeed(c) \/ AU!LoseAnswer(c)
      BY <1>2, <2>1 DEF AU!Succeed, AU!LoseAnswer, TaskMap
    <2> QED BY <1>1, <2>2, StepMaps
  <1> QED BY <1>3, <1>4

\* A write of c's object, and what follows if it is reported.
LEMMA WriteSteps ==
    ASSUME CallerType, ResultInv, NEW c \in Callers, Busy(c), call[c] # "delete",
           stage[c] # "Reflection", Write(Object(c), rs[c]),
           Proceed(c) \/ Return(c, "error")
    PROVE  Maps
  <1>1. rs[c] \in ReplicaSets
    BY TaskOf
  <1>2. CASE stage[c] = "EnvoyFilter"
    <2>1. FilterMap' = [FilterMap EXCEPT ![Owner[rs[c]]] = rs[c]]
      BY <1>1, <1>2, FilterWrite
    <2>2. Return(c, "ok") \/ Return(c, "error")
      BY <1>2 DEF Proceed
    <2> QED BY <2>1, <2>2, ReturnSteps
  <1>3. CASE stage[c] # "EnvoyFilter"
    <2>1. FilterMap' = FilterMap
      BY <1>1, <1>3, FilterWrite
    <2>2. CASE Proceed(c)
      <3>1. GoTo(c, NextStage[stage[c]], "create") /\ result' = result
        BY <1>3, <2>2 DEF Proceed
      <3>2. NextStage[stage[c]] \in {"Ingress", "Reflection"}
        BY <1>3 DEF NextStage, TypeOK, Busy
      <3> QED BY <2>1, <3>1, <3>2, GoOnMaps, StepMaps
    <2>3. CASE Return(c, "error")
      BY <2>1, <2>3, ReturnSteps
    <2> QED BY <2>2, <2>3
  <1> QED BY <1>2, <1>3

\* A delete of c's object, reported or not.
LEMMA DeleteSteps ==
    ASSUME CallerType, ResultInv, NEW c \in Callers, Busy(c), call[c] = "delete",
           NEW res \in {"ok", "error"}, Deleted(c, res),
           \/ Write(Object(c), None)
           \/ store' = store /\ res = "error"
    PROVE  Maps
  <1>1. stage[c] # "Reflection"
    BY DEF CallerInv
  <1>2. store' = store => FilterMap' = FilterMap
    BY DEF FilterMap
  <1>3. CASE stage[c] # "EnvoyFilter"
    <2>1. FilterMap' = FilterMap
      BY <1>1, <1>2, <1>3, FilterWrite
    <2> QED BY <1>3, <2>1, DeletedMaps, StepMaps
  <1>4. CASE stage[c] = "EnvoyFilter"
    <2>1. /\ ResultInv'
          /\ TaskMap[c] = [op |-> "delete", rs |-> rs[c]]
          /\ TaskMap[c] # None
          /\ TaskMap' = [TaskMap EXCEPT ![c] = None]
          /\ result' = [result EXCEPT ![c] = res]
      BY <1>4, DeletedMaps DEF TaskMap
    <2>2. AU!Decide(c, res)
      BY <2>1 DEF AU!Decide, TaskMap
    <2>3. CASE Write(Object(c), None)
      <3>1. FilterMap' = [FilterMap EXCEPT ![Owner[rs[c]]] = None]
        BY <1>1, <1>4, <2>3, FilterWrite
      <3>2. AU!Effect(TaskMap[c])
        BY <2>1, <3>1 DEF AU!Effect, FilterMap
      <3>3. AU!Succeed(c) \/ AU!LoseAnswer(c)
        BY <2>2, <3>2 DEF AU!Succeed, AU!LoseAnswer, TaskMap
      <3> QED BY <2>1, <3>3, StepMaps
    <2>4. CASE store' = store /\ res = "error"
      <3>1. AU!Fail(c)
        BY <1>2, <2>2, <2>4 DEF AU!Fail, FilterMap
      <3> QED BY <2>1, <3>1, StepMaps
    <2> QED BY <2>3, <2>4
  <1> QED BY <1>3, <1>4

\* A new call asks.
LEMMA StartMaps ==
    ASSUME CallerType, ResultInv, NEW c \in Callers, NEW r \in ReplicaSets,
           StartUpsert(c, r) \/ StartDelete(c, r)
    PROVE  Maps
  <1>1. PICK kind \in {"Service", "EnvoyFilter"}, what \in {"create", "delete"} :
            Start(c, r, kind, what) /\ (what = "delete" <=> kind = "EnvoyFilter")
    BY DEF StartUpsert, StartDelete
  <1>2. /\ ~Busy(c) /\ store' = store
        /\ stage' = [stage EXCEPT ![c] = kind]
        /\ call' = [call EXCEPT ![c] = what]
        /\ rs' = [rs EXCEPT ![c] = r]
        /\ result' = [result EXCEPT ![c] = "none"]
    BY <1>1 DEF Start, apiVars
  <1>3. ResultInv'
    BY <1>1, <1>2 DEF ResultInv, Busy, TypeOK
  <1> DEFINE t == [op |-> IF what = "delete" THEN "delete" ELSE "upsert", rs |-> r]
  <1>4. Task(c) = None /\ Task(c)' = t
    BY <1>1, <1>2 DEF Task, Busy, TypeOK
  <1>5. TaskMap' = [TaskMap EXCEPT ![c] = t] /\ TaskMap[c] = None
    BY <1>2, <1>4, TaskChange DEF TaskMap, TypeOK
  <1>6. FilterMap' = FilterMap
    BY <1>2 DEF FilterMap
  <1>7. t \in AU!Task
    BY DEF AU!Task
  <1>8. AU!Ask(c, t)
    BY <1>2, <1>5, <1>6 DEF AU!Ask, TaskMap, FilterMap
  <1> QED BY <1>3, <1>7, <1>8, StepMaps

\* Calls to the API server and the query, whether they succeed or not.
LEMMA CallMaps ==
    ASSUME CallerType, ResultInv, NEW c \in Callers,
           \/ Create(c) \/ Get(c) \/ Update(c) \/ Query(c) \/ Delete(c)
           \/ CallFails(c) \/ AnswerLost(c)
    PROVE  Maps
  <1>1. Busy(c)
    BY DEF Create, Get, Update, Query, Delete, CallFails, AnswerLost, Calls
  <1>2. store' = store => FilterMap' = FilterMap
    BY DEF FilterMap
  <1>3. stage[c] \in {"Service", "Ingress", "Reflection", "EnvoyFilter"}
    BY <1>1 DEF TypeOK, Busy
  <1>4. CASE Create(c)
    <2>1. call[c] = "create" /\ stage[c] # "Reflection"
      BY <1>4 DEF Create, Calls
    <2>2. \/ Write(Object(c), rs[c]) /\ Proceed(c)
          \/ GoTo(c, stage[c], "get") /\ store' = store /\ result' = result
      BY <1>4 DEF Create, apiVars
    <2> QED BY <1>1, <1>2, <1>3, <2>1, <2>2, WriteSteps, GoOnMaps, StepMaps
  <1>5. CASE Get(c)
    <2>1. /\ call[c] = "get" /\ store' = store
          /\ \/ Return(c, "error")
             \/ GoTo(c, stage[c], "update") /\ result' = result
      BY <1>5 DEF Get, Calls
    <2> QED BY <1>1, <1>2, <1>3, <2>1, ReturnSteps, GoOnMaps, StepMaps
  <1>6. CASE Update(c)
    <2>1. /\ call[c] = "update"
          /\ \/ Write(Object(c), rs[c]) /\ Proceed(c)
             \/ Return(c, "error") /\ store' = store
      BY <1>6 DEF Update, Calls, apiVars
    <2>2. stage[c] # "Reflection"
      BY <2>1 DEF CallerInv
    <2> QED BY <1>1, <1>2, <2>1, <2>2, WriteSteps, ReturnSteps
  <1>7. CASE Query(c)
    <2>1. /\ call[c] = "create" /\ store' = store /\ result' = result
          /\ GoTo(c, "EnvoyFilter", "create")
      BY <1>7 DEF Query, Calls, apiVars, Proceed, NextStage
    <2> QED BY <1>1, <1>2, <2>1, GoOnMaps, StepMaps
  <1>8. CASE Delete(c)
    BY <1>1, <1>8, DeleteSteps DEF Delete, Calls
  <1>9. CASE CallFails(c)
    BY <1>1, <1>2, <1>9, DeleteSteps, ReturnSteps DEF CallFails
  <1>10. CASE AnswerLost(c)
    <2>1. \/ WillWrite(c) /\ Write(Object(c), rs[c]) /\ Return(c, "error")
          \/ call[c] = "delete" /\ Write(Object(c), None) /\ Deleted(c, "error")
      BY <1>10 DEF AnswerLost
    <2>2. WillWrite(c) => call[c] # "delete" /\ stage[c] # "Reflection"
      BY DEF WillWrite, CallerInv
    <2> QED BY <1>1, <2>1, <2>2, WriteSteps, DeleteSteps
  <1> QED BY <1>4, <1>5, <1>6, <1>7, <1>8, <1>9, <1>10

\* With its process, a caller's task dies.
LEMMA RestartMaps ==
    ASSUME CallerType, ResultInv, NEW p \in Processes, Restart(p)
    PROVE  Maps
  <1> DEFINE Mine == {c \in Callers : ProcessOf[c] = p}
  <1>1. /\ store' = store
        /\ result' = [c \in Callers |-> IF c \in Mine THEN "none" ELSE result[c]]
    BY DEF Restart
  <1>2. \A c \in Mine : stage'[c] = "idle"
    BY DEF Restart
  <1>3. \A c \in Callers \ Mine :
            /\ stage'[c] = stage[c] /\ call'[c] = call[c]
            /\ rs'[c] = rs[c] /\ result'[c] = result[c]
    BY DEF Restart
  <1>4. ResultInv'
    BY <1>2, <1>3 DEF ResultInv, Busy
  <1>5. TaskMap' = [c \in Callers |-> IF c \in Mine THEN None ELSE TaskMap[c]]
    BY <1>2, <1>3 DEF TaskMap, Task, Busy
  <1>6. AU!Die(Mine)
    BY <1>1, <1>5 DEF AU!Die, TaskMap, FilterMap
  <1> QED BY <1>4, <1>6 DEF Maps, AU!Next

\* The calls implement AtomicUpsert: what upsertFilter and deleteFilter report
\* is true, and their effect on the EnvoyFilter happens at one instant.
THEOREM Refinement == Spec => ImplementsAtomicUpsert
  <1>1. Init => AU!Init /\ ResultInv
    BY UpsertAssumption DEF Init, AU!Init, Objects, Filters, Task, Busy, ResultInv
  <1>2. Inv /\ ResultInv /\ [Next]_vars => Maps
    <2> SUFFICES ASSUME Inv, ResultInv, [Next]_vars PROVE Maps
      OBVIOUS
    <2>1. CallerType
      BY DEF Inv
    <2>2. CASE \E c \in Callers, r \in ReplicaSets :
                  StartUpsert(c, r) \/ StartDelete(c, r)
      BY <2>1, <2>2, StartMaps
    <2>3. CASE \E c \in Callers :
                  \/ Create(c) \/ Get(c) \/ Update(c) \/ Query(c) \/ Delete(c)
                  \/ CallFails(c) \/ AnswerLost(c)
      BY <2>1, <2>3, CallMaps
    <2>4. CASE \E p \in Processes : Restart(p)
      BY <2>1, <2>4, RestartMaps
    <2>5. CASE UNCHANGED vars \/ \E p \in Processes : Cancel(p)
      <3>1. UNCHANGED <<store, stage, call, rs, result>>
        BY <2>5 DEF vars, Cancel, apiVars, callerVars
      <3> QED BY <3>1 DEF Maps, AU!vars, ResultInv, Task, Busy
    <2> QED BY <2>2, <2>3, <2>4, <2>5 DEF Next
  <1>3. Spec => []ResultInv /\ AU!Spec
    BY <1>1, <1>2, Invariance, PTL DEF Spec, AU!Spec, Maps
  <1> QED BY <1>3 DEF ImplementsAtomicUpsert
=============================================================================
