--------------------- MODULE ControllerConvergenceProofs ---------------------
(***************************************************************************)
(* Proofs about ControllerReconciler: at rest every living resource has    *)
(* what it asks for.                                                       *)
(***************************************************************************)
EXTENDS ControllerFinalizerProofs

---------------------------------------------------------------------------
(* What a step does to one object. *)

ObjectKept(k) == server'[k] = server[k] /\ past'[k] = past[k]

\* A call of the pass writes k.
Called(k, obj) ==
  /\ pc \in {"apply", "writeCRD"} /\ k = Head(todo) /\ Proceed
  /\ \/ k[1] = "crd" /\ obj = Initial(k, who, inst)
     \/ k[1] # "crd" /\ obj = Mutated(k, server[k], who, inst)
\* The finalizer's handler takes the subject out of k.
Revoked(k, obj) ==
  /\ pc = "finalize" /\ who \in Instances /\ inst \in Copies /\ Goto("removeFinalizer")
  /\ k[1] = "clusterRoleBinding" /\ Current(k) /\ server[k] \in Managed /\ obj \in Managed
  /\ obj.owner = server[k].owner /\ obj.rev = server[k].rev
  /\ obj.subjects = WithoutSubject(server[k].subjects, SubjectOf(who, inst.spec))
\* Somebody else installs k or takes it away.
Installed(k, obj) == UNCHANGED pass /\ k[1] = "crd" /\ obj.owner = NoOwner /\ obj \in Managed
Collected(k, obj) == UNCHANGED pass /\ obj = Absent /\ Orphaned(k)
Lost(k, obj) ==
  /\ UNCHANGED pass /\ obj = Absent /\ k[1] = "clusterRoleBinding"
  /\ "deleteBinding" \in disturbed'
Written(k, obj) ==
  /\ Store(k, obj)
  /\ Called(k, obj) \/ Revoked(k, obj) \/ Installed(k, obj) \/ Collected(k, obj) \/ Lost(k, obj)

\* A write of one key keeps the versions of the others.
LEMMA PutSpares ==
  ASSUME TypeOK, NEW o \in Keys, NEW obj, Put(o, obj), NEW k \in Keys, k # o
  PROVE  ObjectKept(k)
BY DEF TypeOK, StoreTypes, Put, ObjectKept

\* A call of the pass writes the object it is for.
LEMMA CallWrites ==
  ASSUME TypeOK, NEW k \in Objects,
         \/ GetCRD \/ SkipCRD \/ WriteCRD \/ CreateServiceAccount
         \/ \E kind \in {"clusterRole", "clusterRoleBinding", "role", "roleBinding",
                         "deployment", "service"} : CreateOrUpdate(kind)
  PROVE  ObjectKept(k) \/ \E obj : Written(k, obj)
<1> DEFINE h == Head(todo)
<1>1. pc \in {"apply", "writeCRD"} /\ h[1] # "higressController"
  BY DEF GetCRD, SkipCRD, WriteCRD, CreateServiceAccount, CreateOrUpdate, Calling, TypeOK,
         PassTypes
<1>2. h \in Objects /\ h \in Keys
  BY <1>1, CallOfPass
<1>3. CASE UNCHANGED <<server, past>>
  BY <1>3 DEF ObjectKept
<1>4. ASSUME NEW obj, Store(h, obj), Called(h, obj)
      PROVE  ObjectKept(k) \/ \E o : Written(k, o)
  <2>1. CASE h = k
    BY <1>4, <2>1 DEF Written
  <2>2. CASE h # k
    <3>1. Put(h, obj)
      BY <1>4 DEF Store
    <3> HIDE DEF h
    <3> QED BY <1>2, <2>2, <3>1, PutSpares, KeysFacts
  <2> QED BY <2>1, <2>2
<1>5. CASE GetCRD \/ SkipCRD
  BY <1>3, <1>5 DEF GetCRD, SkipCRD, NoWrite
<1>6. CASE Requeue
  BY <1>3, <1>6 DEF Requeue
<1>7. CASE WriteCRD /\ ~Requeue
  <2>1. Store(h, Initial(h, who, inst)) /\ Proceed /\ pc = "writeCRD" /\ h[1] = "crd"
    BY <1>7 DEF WriteCRD, TypeOK, PassTypes
  <2>2. Called(h, Initial(h, who, inst))
    BY <2>1 DEF Called
  <2> QED BY <1>4, <2>1, <2>2
<1>8. CASE CreateServiceAccount /\ ~Requeue
  <2>1. CASE NoWrite
    BY <1>3, <2>1 DEF NoWrite
  <2>2. CASE server[h] = Absent /\ Store(h, Initial(h, who, inst)) /\ Proceed
    <3>1. Mutated(h, server[h], who, inst) = Initial(h, who, inst) /\ h[1] # "crd"
      BY <1>8, <2>2 DEF Mutated, CreateServiceAccount, Calling
    <3>2. Called(h, Initial(h, who, inst))
      BY <1>1, <2>2, <3>1 DEF Called
    <3> QED BY <1>4, <2>2, <3>2
  <2> QED BY <1>8, <2>1, <2>2 DEF CreateServiceAccount
<1>9. ASSUME NEW kind \in {"clusterRole", "clusterRoleBinding", "role", "roleBinding",
                           "deployment", "service"}, CreateOrUpdate(kind), ~Requeue
      PROVE  ObjectKept(k) \/ \E obj : Written(k, obj)
  <2>1. CASE NoWrite
    BY <1>3, <2>1 DEF NoWrite
  <2>2. CASE Current(h) /\ Store(h, Mutated(h, Cached(h), who, inst)) /\ Proceed
    <3>1. Cached(h) = server[h] /\ h[1] # "crd"
      BY <1>9, <2>2 DEF Cached, CreateOrUpdate, Calling
    <3>2. Called(h, Mutated(h, Cached(h), who, inst))
      BY <1>1, <2>2, <3>1 DEF Called
    <3> QED BY <1>4, <2>2, <3>2
  <2> QED BY <1>9, <2>1, <2>2 DEF CreateOrUpdate
<1> QED BY <1>5, <1>6, <1>7, <1>8, <1>9

\* So does the finalizer's handler, with the binding.
LEMMA HandlerWrites ==
  ASSUME TypeOK, NEW k \in Objects, FinalizeBinding
  PROVE  ObjectKept(k) \/ \E obj : Written(k, obj)
<1> DEFINE b == Binding(who, inst.spec)
           subject == SubjectOf(who, inst.spec)
           new == [server[b] EXCEPT !.subjects = WithoutSubject(@, subject)]
<1>1. pc = "finalize" /\ who \in Instances /\ inst \in Copies /\ inst.spec \in DefaultedSpecs
  BY CopyOfPass DEF FinalizeBinding
<1>2. CASE UNCHANGED <<server, past>>
  BY <1>2 DEF ObjectKept
<1>3. CASE GrantsRbac(inst.spec) /\ Cached(b) # Absent /\ Current(b)
           /\ Store(b, new) /\ Goto("removeFinalizer")
  <2>1. b \in Objects /\ b \in Keys /\ b[1] = "clusterRoleBinding"
    BY <1>1, <1>3, PassKeys, KeysFacts DEF Bindings
  <2>2. server[b] \in Managed
    BY <1>3, <2>1, KeysFacts DEF Cached, TypeOK, StoreTypes
  <2>3. /\ new \in Managed /\ new.owner = server[b].owner /\ new.rev = server[b].rev
        /\ new.subjects = WithoutSubject(server[b].subjects, subject)
    BY <2>2, WithoutSubjectTyped DEF Managed
  <2> HIDE DEF new
  <2>4. Revoked(b, new)
    BY <1>1, <1>3, <2>1, <2>2, <2>3 DEF Revoked
  <2>5. Put(b, new)
    BY <1>3 DEF Store
  <2> HIDE DEF b
  <2>6. CASE b = k
    BY <1>3, <2>4, <2>6 DEF Written
  <2>7. CASE b # k
    BY <2>1, <2>5, <2>7, PutSpares, KeysFacts
  <2> QED BY <2>6, <2>7
<1> QED BY <1>2, <1>3 DEF FinalizeBinding, Requeue, NoWrite, Cached

\* The passes and the users write the resource.
LEMMA ResourceWriteSpares ==
  ASSUME TypeOK, NEW k \in Objects, NEW i \in Instances, NEW obj, Store(Resource(i), obj)
  PROVE  ObjectKept(k)
<1>1. Put(Resource(i), obj) /\ Resource(i) \in Keys /\ k \in Keys /\ k # Resource(i)
  BY KeysFacts DEF Store
<1> QED BY <1>1, PutSpares

\* A write from outside.
LEMMA OutsideWrites ==
  ASSUME TypeOK, NEW k \in Objects, NEW o \in Objects,
         (InstallCRD(o) /\ o[1] = "crd") \/ CollectGarbage(o) \/ (o \in Bindings /\ DeleteBinding(o))
  PROVE  ObjectKept(k) \/ \E obj : Written(k, obj)
<1>1. PICK obj : Store(o, obj) /\ (Installed(o, obj) \/ Collected(o, obj) \/ Lost(o, obj))
  <2>1. CASE InstallCRD(o) /\ o[1] = "crd"
    <3> DEFINE new == [owner |-> NoOwner, rev |-> Foreign, containers |-> "", subjects |-> {}]
    <3>1. new \in Managed /\ new.owner = NoOwner
      BY DEF Managed, Revs
    <3>2. Store(o, new) /\ UNCHANGED pass
      BY <2>1 DEF InstallCRD
    <3> HIDE DEF new
    <3> QED BY <2>1, <3>1, <3>2 DEF Installed
  <2>2. CASE CollectGarbage(o)
    BY <2>2 DEF CollectGarbage, Collected
  <2>3. CASE o \in Bindings /\ DeleteBinding(o)
    BY <2>3 DEF Bindings, DeleteBinding, Disturb, Lost
  <2> QED BY <2>1, <2>2, <2>3
<1>2. CASE o = k
  BY <1>1, <1>2 DEF Written
<1>3. CASE o # k
  <2>1. Put(o, obj)
    BY <1>1 DEF Store
  <2> QED BY <1>3, <2>1, PutSpares, KeysFacts
<1> QED BY <1>2, <1>3

\* Every step, for one object.
LEMMA ObjectStep ==
  ASSUME TypeOK, NEW k \in Objects, [Next]_vars
  PROVE  ObjectKept(k) \/ Crash \/ Deliver(k) \/ \E obj : Written(k, obj)
<1>1. CASE UNCHANGED <<server, past>>
  BY <1>1 DEF ObjectKept
<1>2. ASSUME NEW i \in Instances, DropRequest(i) \/ StartReconcile(i)
      PROVE  ObjectKept(k)
  BY <1>2 DEF DropRequest, StartReconcile, ObjectKept
<1>3. CASE RemoveFinalizer \/ AddFinalizer \/ UpdateStatus
  <2>1. who \in Instances
    BY <1>3, CopyOfPass DEF RemoveFinalizer, AddFinalizer, UpdateStatus, Calling
  <2>2. UNCHANGED <<server, past>> \/ \E obj : Store(Resource(who), obj)
    BY <1>3 DEF RemoveFinalizer, AddFinalizer, UpdateStatus, Requeue, NoWrite
  <2> QED BY <1>1, <2>1, <2>2, ResourceWriteSpares
<1>4. CASE CheckNamespace \/ NamespaceTerminating
  BY <1>1, <1>4 DEF CheckNamespace, NamespaceTerminating, NoWrite
<1>5. ASSUME NEW o \in Keys, Deliver(o), o # k
      PROVE  ObjectKept(k)
  <2>1. Advance(o) /\ k \in Keys
    BY <1>5, KeysFacts DEF Deliver
  <2>2. server' = server /\ \A j \in Keys : j # o => past'[j] = past[j]
    BY <2>1, AdvanceEffect
  <2> QED BY <1>5, <2>1, <2>2 DEF ObjectKept
<1>6. ASSUME NEW i \in Instances, \/ \E spec \in CreatedSpecs : Create(i, spec)
                                  \/ \E spec \in Specs : Edit(i, spec)
                                  \/ Delete(i)
      PROVE  ObjectKept(k)
  <2>1. PICK obj : WriteResource(i, obj)
    BY <1>6 DEF Create, Edit, Delete
  <2> QED BY <2>1, ResourceWriteSpares DEF WriteResource
<1>7. CASE ApiError \/ NamespaceError \/ \E i \in Instances : Terminate(i)
  BY <1>1, <1>7 DEF ApiError, NamespaceError, Terminate, NoWrite
<1>8. CASE UNCHANGED vars
  BY <1>1, <1>8 DEF vars
<1>9. CASE Worker
  BY <1>2, <1>3, <1>4, <1>9, CallWrites, HandlerWrites DEF Worker
<1>10. CASE Environment
  <2>1. ASSUME NEW o \in Objects,
               (InstallCRD(o) /\ o[1] = "crd") \/ CollectGarbage(o)
               \/ (o \in Bindings /\ DeleteBinding(o))
        PROVE  ObjectKept(k) \/ \E obj : Written(k, obj)
    BY <2>1, OutsideWrites
  <2> QED BY <1>5, <1>6, <1>7, <1>10, <2>1, KeysFacts DEF Environment
<1> QED BY <1>8, <1>9, <1>10 DEF Next

---------------------------------------------------------------------------
(* CallTrust: what a pass asks for. *)

\* The objects among a pass's calls are the calls other than the status.
LEMMA ObjectCallsFacts ==
  ASSUME NEW i \in Instances, NEW s \in DefaultedSpecs
  PROVE  /\ ObjectCalls(i, s) = Elements(Calls(i, s)) \ Resources
         /\ ObjectCalls(i, s) \subseteq Objects
<1>1. ASSUME NEW k \in ObjectCalls(i, s)
      PROVE  k[1] # "higressController"
  <2>1. ClusterRole[1] # "higressController" /\ Binding(i, s)[1] # "higressController"
    BY DEF ClusterRole, Binding
  <2> QED BY <2>1, ObjectCallKinds
<1>2. \A k \in ObjectCalls(i, s) : k \notin Resources
  BY <1>1, KeysFacts
<1>3. Elements(Calls(i, s)) = ObjectCalls(i, s) \cup {Resource(i)} /\ Resource(i) \in Resources
  BY CallsFacts, KeysFacts
<1>4. ObjectCalls(i, s) = Elements(Calls(i, s)) \ Resources
  BY <1>2, <1>3
<1> QED BY <1>4, PassKeys DEF Objects

\* How a pass comes to its calls, and what it does with the list.
LEMMA CallsMove ==
  ASSUME TypeOK, [Next]_vars, pc' \in {"apply", "writeCRD"}
  PROVE  /\ who' = who /\ pc # "idle" /\ inst'.spec = inst.spec
         /\ \/ pc \in {"namespace", "addFinalizer"} /\ todo' = Calls(who, inst.spec)
            \/ /\ pc \in {"apply", "writeCRD"}
               /\ \/ todo' = todo
                  \/ todo' = Tail(todo) /\ Head(todo)[1] # "higressController"
<1>1. ~EndPass
  BY DEF EndPass
<1>2. CASE UNCHANGED <<pc, who, todo, inst>>
  BY <1>2 DEF TypeOK
<1>3. CASE CheckNamespace
  BY <1>3 DEF CheckNamespace, BeginCalls
<1>4. CASE AddFinalizer
  <2> DEFINE written == [inst EXCEPT !.finalizer = TRUE]
  <2>1. pc = "addFinalizer" /\ inst' = written /\ BeginCalls /\ who' = who
    BY <1>1, <1>4 DEF AddFinalizer, Requeue
  <2>2. inst \in Controllers
    BY <2>1, CopyOfPass
  <2>3. written.spec = inst.spec
    BY <2>2 DEF Controllers
  <2> HIDE DEF written
  <2> QED BY <2>1, <2>3 DEF BeginCalls
<1>5. CASE Proceed /\ pc \in {"apply", "writeCRD"} /\ Head(todo)[1] # "higressController"
  BY <1>5 DEF Proceed
<1>6. ASSUME NEW i \in Instances, DropRequest(i) \/ StartReconcile(i)
      PROVE  UNCHANGED <<pc, who, todo, inst>>
  BY <1>6 DEF DropRequest, StartReconcile, pass
<1>7. ~(FinalizeBinding \/ RemoveFinalizer \/ NamespaceTerminating \/ UpdateStatus)
  BY <1>1 DEF FinalizeBinding, RemoveFinalizer, NamespaceTerminating, UpdateStatus, Requeue,
              Goto
<1>8. CASE GetCRD
  BY <1>8 DEF GetCRD, Calling
<1>9. CASE SkipCRD \/ WriteCRD
  BY <1>1, <1>5, <1>9 DEF SkipCRD, WriteCRD, Requeue, TypeOK, PassTypes
<1>10. CASE CreateServiceAccount
  BY <1>1, <1>5, <1>10 DEF CreateServiceAccount, Requeue, Calling
<1>11. CASE \E kind \in {"clusterRole", "clusterRoleBinding", "role", "roleBinding",
                         "deployment", "service"} : CreateOrUpdate(kind)
  BY <1>1, <1>5, <1>11 DEF CreateOrUpdate, Requeue, Calling
<1>12. CASE Environment
  <2>1. UNCHANGED <<pc, who, todo, inst>>
    BY <1>1, <1>12 DEF Environment, Deliver, Create, Edit, Delete, WriteResource, Terminate,
          CollectGarbage, InstallCRD, DeleteBinding, Crash, ApiError, NamespaceError, pass
  <2>2. pc # "idle"
    BY <2>1
  <2> QED BY <1>2, <2>1, <2>2
<1>13. CASE UNCHANGED vars
  BY <1>2, <1>13 DEF vars, pass
<1> QED BY <1>2, <1>3, <1>4, <1>6, <1>7, <1>8, <1>9, <1>10, <1>11, <1>12, <1>13
        DEF Next, Worker

\* Every step keeps the calls left those of the spec, the status last.
LEMMA CallTrustStep ==
  ASSUME TypeOK, CallTrust, [Next]_vars
  PROVE  CallTrust'
<1> SUFFICES ASSUME pc' \in {"apply", "writeCRD"}
             PROVE  /\ Elements(todo') \subseteq Elements(Calls(who', inst'.spec))
                    /\ \A n \in 1..(Len(todo') - 1) : todo'[n] \notin Resources
  BY DEF CallTrust, Elements
<1>1. who' = who /\ pc # "idle" /\ inst'.spec = inst.spec
  BY CallsMove
<1>2. who \in Instances /\ inst.spec \in DefaultedSpecs
  BY <1>1, CopyOfPass
<1>3. CASE todo' = Calls(who, inst.spec)
  BY <1>1, <1>2, <1>3, CallsFacts, ObjectCallsFacts
<1>4. CASE pc \in {"apply", "writeCRD"} /\ todo' = todo
  BY <1>1, <1>4 DEF CallTrust
<1>5. CASE pc \in {"apply", "writeCRD"} /\ todo' = Tail(todo)
  <2>1. todo \in Seq(Keys) /\ todo # <<>>
    BY <1>5 DEF TypeOK, PassTypes
  <2>2. Elements(Tail(todo)) \subseteq Elements(todo)
    BY <2>1, HeadAndTail DEF Elements
  <2>3. /\ Len(todo) \in Nat /\ Len(Tail(todo)) = Len(todo) - 1
        /\ \A n \in 1..Len(Tail(todo)) : Tail(todo)[n] = todo[n + 1]
    BY <2>1, LenProperties, HeadTailProperties
  <2>4. ASSUME NEW n \in 1..(Len(Tail(todo)) - 1)
        PROVE  Tail(todo)[n] \notin Resources
    <3>1. n \in 1..Len(Tail(todo)) /\ n + 1 \in 1..(Len(todo) - 1)
      BY <2>3
    <3> QED BY <1>5, <2>3, <3>1 DEF CallTrust
  <2> QED BY <1>1, <1>5, <2>2, <2>4 DEF CallTrust
<1> QED BY <1>3, <1>4, <1>5, CallsMove

---------------------------------------------------------------------------
(* ObjectTrust: owners, and what does not depend on the spec. *)

\* Every object a pass asks for that can have an owner is of its namespace; a CRD is
\* one of the bundled ones.
LEMMA CallPlaces ==
  ASSUME NEW i \in Instances, NEW s \in DefaultedSpecs, NEW k \in ObjectCalls(i, s)
  PROVE  /\ k[1] \in Owned => k[2] = i[1]
         /\ k[1] = "crd" => k \in Elements(CRDKeys)
         /\ k[1] = "clusterRoleBinding" => k \in Bindings
<1>1. /\ ClusterRole[1] = "clusterRole" /\ Binding(i, s)[1] = "clusterRoleBinding"
      /\ "crd" \notin Owned /\ "clusterRole" \notin Owned
      /\ "clusterRoleBinding" \notin Owned /\ "role" \notin Owned
      /\ "roleBinding" \notin Owned
  BY DEF ClusterRole, Binding, Owned
<1>2. k \in Objects
  BY ObjectCallsFacts
<1>3. k[1] \in Owned => k[2] = i[1]
  BY <1>1, ObjectCallKinds
<1>4. k[1] = "crd" => k \in Elements(CRDKeys)
  BY <1>1, ObjectCallKinds
<1> QED BY <1>2, <1>3, <1>4 DEF Bindings

\* The call a pass is at, unless it is for the status.
LEMMA CallIsForObject ==
  ASSUME TypeOK, CallTrust, pc \in {"apply", "writeCRD"}, Head(todo) \in Objects
  PROVE  Head(todo) \in ObjectCalls(who, inst.spec)
<1>1. who \in Instances /\ inst.spec \in DefaultedSpecs
  BY CopyOfPass
<1>2. todo \in Seq(Keys) /\ todo # <<>>
  BY DEF TypeOK, PassTypes
<1>3. 1 \in 1..Len(todo) /\ Head(todo) = todo[1]
  BY <1>2
<1>4. Head(todo) \in Elements(Calls(who, inst.spec))
  BY <1>3 DEF CallTrust, Elements
<1> QED BY <1>1, <1>4, ObjectCallsFacts, KeysFacts

\* What a call of the pass writes.
LEMMA CalledOutcome ==
  ASSUME TypeOK, CallTrust, NEW k \in Objects, WellMade(k, server[k]), NEW obj, Called(k, obj)
  PROVE  /\ who \in Instances /\ inst.spec \in DefaultedSpecs
         /\ k \in ObjectCalls(who, inst.spec)
         /\ obj \in Managed /\ obj # Absent /\ WellMade(k, obj)
         /\ k[1] # "crd" => /\ obj.rev = Rendered(k, inst.spec)
                            /\ SubjectsOf(server[k]) \subseteq obj.subjects
         /\ k[1] \in {"clusterRoleBinding", "roleBinding"} =>
              SubjectOf(who, inst.spec) \in obj.subjects
<1>1. pc \in {"apply", "writeCRD"} /\ k = Head(todo)
  BY DEF Called
<1>2. who \in Instances /\ inst \in Copies /\ inst.spec \in DefaultedSpecs
  BY <1>1, CopyOfPass
<1>3. k \in ObjectCalls(who, inst.spec)
  BY <1>1, CallIsForObject
<1>4. k[1] \in Owned => k[2] = who[1]
  BY <1>2, <1>3, CallPlaces
<1>5. k[1] # "crd" /\ k[1] \notin {"deployment", "service"} => Rendered(k, inst.spec) = Bundled
  BY DEF Rendered
<1>6. server[k] \in {Absent} \cup Managed
  BY KeysFacts DEF TypeOK, StoreTypes
<1>7. CASE obj = Initial(k, who, inst) /\ (server[k] = Absent \/ k[1] = "crd")
  <2>1. obj \in Managed
    BY <1>2, <1>7, InitialTyped
  <2>2. /\ obj.owner = IF k[1] \in Owned THEN <<who, inst.uid>> ELSE NoOwner
        /\ obj.rev = Rendered(k, inst.spec)
        /\ obj.subjects = IF k[1] \in {"clusterRoleBinding", "roleBinding"}
                          THEN {SubjectOf(who, inst.spec)} ELSE {}
    BY <1>7 DEF Initial
  <2>3. WellMade(k, obj)
    BY <1>4, <1>5, <2>2 DEF WellMade, NoOwner
  <2> QED BY <1>2, <1>3, <1>7, <2>1, <2>2, <2>3, AbsentAssumption DEF SubjectsOf
<1>8. CASE obj = Mutated(k, server[k], who, inst) /\ server[k] # Absent /\ k[1] # "crd"
  <2> DEFINE old == server[k]
  <2>1. old \in Managed
    BY <1>6, <1>8
  <2>2. obj \in Managed /\ obj.owner = old.owner /\ old.subjects \subseteq obj.subjects
    BY <1>2, <1>8, <2>1, MutatedTyped
  <2>3. CASE k[1] \in {"clusterRoleBinding", "roleBinding"}
    <3>1. obj.rev = old.rev /\ obj.subjects = old.subjects \cup {SubjectOf(who, inst.spec)}
      BY <1>2, <1>8, <2>1, <2>3, MutatedTyped
    <3>2. old.rev = Bundled /\ Rendered(k, inst.spec) = Bundled
      BY <1>5, <1>8, <2>3 DEF WellMade
    <3>3. WellMade(k, obj)
      BY <1>8, <2>2, <3>1 DEF WellMade
    <3> QED BY <1>2, <1>3, <1>8, <2>2, <3>1, <3>2, <3>3, AbsentAssumption DEF SubjectsOf
  <2>4. CASE k[1] \notin {"clusterRoleBinding", "roleBinding"}
    <3>1. obj.rev = Rendered(k, inst.spec)
      BY <1>2, <1>8, <2>1, <2>4, MutatedTyped
    <3>2. WellMade(k, obj)
      BY <1>5, <1>8, <2>2, <3>1 DEF WellMade
    <3> QED BY <1>2, <1>3, <1>8, <2>2, <2>4, <3>1, <3>2, AbsentAssumption DEF SubjectsOf
  <2> QED BY <2>3, <2>4
<1>9. k[1] # "crd" /\ server[k] = Absent => Mutated(k, server[k], who, inst) = Initial(k, who, inst)
  BY DEF Mutated
<1> QED BY <1>7, <1>8, <1>9 DEF Called

\* Whoever writes an object leaves it well made.
LEMMA WrittenWellMade ==
  ASSUME TypeOK, CallTrust, NEW k \in Objects, WellMade(k, server[k]), NEW obj, Written(k, obj)
  PROVE  obj \in {Absent} \cup Managed /\ WellMade(k, obj)
<1>1. CASE Called(k, obj)
  BY <1>1, CalledOutcome
<1>2. CASE Revoked(k, obj)
  BY <1>2, AbsentAssumption DEF Revoked, WellMade
<1>3. CASE Installed(k, obj)
  BY <1>3 DEF Installed, WellMade, Owned
<1>4. CASE obj = Absent
  BY <1>4 DEF WellMade
<1> QED BY <1>1, <1>2, <1>3, <1>4 DEF Written, Collected, Lost

\* What a write makes of an object's versions.
LEMMA StoreEffect ==
  ASSUME TypeOK, NEW k \in Keys, NEW obj, Store(k, obj)
  PROVE  /\ server'[k] = obj
         /\ \A n \in 1..Len(past'[k]) :
              \/ past'[k][n] = server[k]
              \/ \E m \in 1..Len(past[k]) : past'[k][n] = past[k][m]
         /\ k \notin Lagging \/ obj = server[k] => past'[k] = past[k]
         /\ k \in Lagging /\ obj # server[k] =>
              past'[k] # <<>> /\ past'[k][Len(past'[k])] = server[k]
<1>1. server'[k] = obj
  BY DEF Store, Put, TypeOK, StoreTypes
<1>2. past[k] \in Seq(AnyVersion) /\ server[k] \in AnyVersion
  BY DEF TypeOK, StoreTypes
<1>3. CASE k \in Lagging /\ obj # server[k]
  <2>1. past'[k] = Append(past[k], server[k])
    BY <1>3 DEF Store, Put, TypeOK, StoreTypes
  <2>2. /\ Len(past'[k]) = Len(past[k]) + 1 /\ Len(past[k]) \in Nat
        /\ past'[k][Len(past'[k])] = server[k]
        /\ \A n \in 1..Len(past[k]) : past'[k][n] = past[k][n]
    BY <1>2, <2>1, AppendProperties, LenProperties
  <2>3. past'[k] # <<>>
    BY <2>2, EmptySeq
  <2>4. ASSUME NEW n \in 1..Len(past'[k])
        PROVE  \/ past'[k][n] = server[k]
               \/ \E m \in 1..Len(past[k]) : past'[k][n] = past[k][m]
    <3>1. n = Len(past'[k]) \/ n \in 1..Len(past[k])
      BY <2>2
    <3> QED BY <2>2, <3>1
  <2> QED BY <1>1, <1>3, <2>2, <2>3, <2>4
<1>4. CASE k \notin Lagging \/ obj = server[k]
  <2>1. past'[k] = past[k]
    BY <1>4 DEF Store, Put
  <2> QED BY <1>1, <1>4, <2>1
<1> QED BY <1>3, <1>4

\* An informer that moves on shows fewer versions, the last among them.
LEMMA DeliverEffect ==
  ASSUME TypeOK, NEW k \in Keys, Deliver(k)
  PROVE  /\ server' = server /\ past[k] # <<>>
         /\ \A n \in 1..Len(past'[k]) : \E m \in 1..Len(past[k]) : past'[k][n] = past[k][m]
         /\ past'[k] # <<>> => past'[k][Len(past'[k])] = past[k][Len(past[k])]
         /\ past'[k] = <<>> =>
              /\ Cached(k) = past[k][Len(past[k])] /\ NextVersion(k) = server[k]
              /\ Len(past[k]) \in 1..Len(past[k])
<1>1. Advance(k)
  BY DEF Deliver
<1>2. past[k] \in Seq(AnyVersion) /\ past[k] # <<>> /\ past'[k] = Tail(past[k])
  BY <1>1 DEF TypeOK, StoreTypes, Advance, Current
<1>3. /\ Len(past[k]) \in Nat /\ Len(past[k]) # 0 /\ Len(past'[k]) = Len(past[k]) - 1
      /\ \A n \in 1..Len(past'[k]) : past'[k][n] = past[k][n + 1]
      /\ past'[k] \in Seq(AnyVersion) /\ Head(past[k]) = past[k][1]
  BY <1>2, LenProperties, HeadTailProperties, EmptySeq
<1>4. past'[k] # <<>> => past'[k][Len(past'[k])] = past[k][Len(past[k])]
  <2> SUFFICES ASSUME past'[k] # <<>>
               PROVE  past'[k][Len(past'[k])] = past[k][Len(past[k])]
    OBVIOUS
  <2>1. Len(past'[k]) # 0
    BY <1>3, EmptySeq
  <2>2. Len(past'[k]) \in 1..Len(past'[k]) /\ Len(past'[k]) + 1 = Len(past[k])
    BY <1>3, <2>1
  <2> QED BY <1>3, <2>2
<1>5. past'[k] = <<>> => Len(past[k]) = 1
  BY <1>3, EmptySeq
<1> QED BY <1>1, <1>2, <1>3, <1>4, <1>5, AdvanceEffect DEF Cached, NextVersion, Current

\* Every step keeps every version of an object well made, and what does not lag current.
LEMMA ObjectTrustStep ==
  ASSUME TypeOK, CallTrust, ObjectTrust, [Next]_vars
  PROVE  ObjectTrust'
<1> SUFFICES ASSUME NEW k \in Objects
             PROVE  /\ WellMade(k, server'[k])
                    /\ \A n \in 1..Len(past'[k]) : WellMade(k, past'[k][n])
                    /\ k \notin Lagging => past'[k] = <<>>
                    /\ past'[k] # <<>> => past'[k][Len(past'[k])] # server'[k]
  BY DEF ObjectTrust, WellMade, Current
<1>1. /\ WellMade(k, server[k]) /\ \A n \in 1..Len(past[k]) : WellMade(k, past[k][n])
      /\ k \notin Lagging => past[k] = <<>>
      /\ past[k] # <<>> => past[k][Len(past[k])] # server[k]
  BY DEF ObjectTrust, Current
<1>2. CASE ObjectKept(k)
  BY <1>1, <1>2 DEF ObjectKept
<1>3. CASE Crash
  <2>1. server' = server /\ past'[k] = <<>>
    BY <1>3, KeysFacts DEF Crash, Relist, TypeOK, StoreTypes
  <2> QED BY <1>1, <2>1
<1>4. CASE Deliver(k)
  <2>1. k \in Keys
    BY KeysFacts
  <2> QED BY <1>1, <1>4, <2>1, DeliverEffect
<1>5. ASSUME NEW obj, Written(k, obj)
      PROVE  /\ WellMade(k, server'[k])
             /\ \A n \in 1..Len(past'[k]) : WellMade(k, past'[k][n])
             /\ k \notin Lagging => past'[k] = <<>>
             /\ past'[k] # <<>> => past'[k][Len(past'[k])] # server'[k]
  <2>1. WellMade(k, obj) /\ Store(k, obj) /\ k \in Keys
    BY <1>1, <1>5, WrittenWellMade, KeysFacts DEF Written
  <2>2. /\ server'[k] = obj
        /\ \A n \in 1..Len(past'[k]) :
             \/ past'[k][n] = server[k]
             \/ \E m \in 1..Len(past[k]) : past'[k][n] = past[k][m]
        /\ k \notin Lagging \/ obj = server[k] => past'[k] = past[k]
        /\ k \in Lagging /\ obj # server[k] =>
             past'[k] # <<>> /\ past'[k][Len(past'[k])] = server[k]
    BY <2>1, StoreEffect
  <2> QED BY <1>1, <2>1, <2>2
<1> QED BY <1>2, <1>3, <1>4, <1>5, ObjectStep

---------------------------------------------------------------------------
(* GrowTrust: what nobody takes away. *)

\* What is not owned can only be lost by somebody else's hand.
LEMMA NotCollected ==
  ASSUME ObjectTrust, NEW k \in Objects, k[1] \notin Owned
  PROVE  ~Orphaned(k)
BY DEF ObjectTrust, WellMade, Orphaned

\* Roles and the role binding are written by the calls of a pass alone.
LEMMA GrowingWrites ==
  ASSUME TypeOK, CallTrust, ObjectTrust, NEW k \in Objects, NEW obj, Written(k, obj),
         k[1] \in {"clusterRole", "role", "roleBinding"}
  PROVE  obj # Absent /\ SubjectsOf(server[k]) \subseteq SubjectsOf(obj)
<1>1. Called(k, obj)
  BY NotCollected DEF Written, Revoked, Installed, Collected, Lost, Owned
<1>2. obj # Absent /\ SubjectsOf(server[k]) \subseteq obj.subjects
  BY <1>1, CalledOutcome DEF ObjectTrust
<1> QED BY <1>2 DEF SubjectsOf

\* A pass stays at a CRD until it has written it.
LEMMA WriteCRDStays ==
  ASSUME TypeOK, [Next]_vars, pc' = "writeCRD"
  PROVE  GetCRD \/ UNCHANGED <<pc, todo, crdSeen>>
<1>1. ~EndPass /\ ~Proceed /\ ~BeginCalls /\ ~Goto("removeFinalizer")
  BY DEF EndPass, Proceed, BeginCalls, Goto
<1>2. CASE Worker
  <2>1. ASSUME NEW i \in Instances, DropRequest(i) \/ StartReconcile(i)
        PROVE  UNCHANGED <<pc, todo, crdSeen>>
    BY <2>1 DEF DropRequest, StartReconcile, pass
  <2>2. ~(FinalizeBinding \/ RemoveFinalizer \/ NamespaceTerminating \/ UpdateStatus
          \/ CheckNamespace \/ AddFinalizer)
    BY <1>1 DEF FinalizeBinding, RemoveFinalizer, NamespaceTerminating, UpdateStatus, Requeue,
                CheckNamespace, AddFinalizer
  <2>3. ~(SkipCRD \/ WriteCRD \/ CreateServiceAccount
          \/ \E kind \in {"clusterRole", "clusterRoleBinding", "role", "roleBinding",
                          "deployment", "service"} : CreateOrUpdate(kind))
    BY <1>1 DEF SkipCRD, WriteCRD, CreateServiceAccount, CreateOrUpdate, Requeue
  <2> QED BY <1>2, <2>1, <2>2, <2>3 DEF Worker
<1>3. CASE Environment
  BY <1>1, <1>3 DEF Environment, Deliver, Create, Edit, Delete, WriteResource, Terminate,
     CollectGarbage, InstallCRD, DeleteBinding, Crash, ApiError, NamespaceError, pass
<1>4. CASE UNCHANGED vars
  BY <1>4 DEF vars, pass
<1> QED BY <1>2, <1>3, <1>4 DEF Next

\* No step takes away what nobody deletes.
LEMMA GrowTrustStep ==
  ASSUME TypeOK, CallTrust, ObjectTrust, GrowTrust, [Next]_vars
  PROVE  GrowTrust'
<1>1. ASSUME NEW k \in Objects, k[1] \in {"clusterRole", "role", "roleBinding"}
      PROVE  \A n \in 1..Len(past'[k]) : past'[k][n] # Absent =>
               server'[k] # Absent /\ SubjectsOf(past'[k][n]) \subseteq SubjectsOf(server'[k])
  <2>1. \A n \in 1..Len(past[k]) : past[k][n] # Absent =>
          server[k] # Absent /\ SubjectsOf(past[k][n]) \subseteq SubjectsOf(server[k])
    BY <1>1 DEF GrowTrust
  <2>2. k \in Keys
    BY KeysFacts
  <2>3. CASE ObjectKept(k)
    BY <2>1, <2>3 DEF ObjectKept
  <2>4. CASE Crash
    <3>1. past'[k] = <<>>
      BY <2>2, <2>4 DEF Crash, Relist, TypeOK, StoreTypes
    <3> QED BY <3>1
  <2>5. CASE Deliver(k)
    BY <2>1, <2>2, <2>5, DeliverEffect
  <2>6. ASSUME NEW obj, Written(k, obj)
        PROVE  \A n \in 1..Len(past'[k]) : past'[k][n] # Absent =>
                 server'[k] # Absent /\ SubjectsOf(past'[k][n]) \subseteq SubjectsOf(server'[k])
    <3>1. obj # Absent /\ SubjectsOf(server[k]) \subseteq SubjectsOf(obj)
      BY <1>1, <2>6, GrowingWrites
    <3>2. /\ server'[k] = obj
          /\ \A n \in 1..Len(past'[k]) :
               \/ past'[k][n] = server[k]
               \/ \E m \in 1..Len(past[k]) : past'[k][n] = past[k][m]
      BY <2>2, <2>6, StoreEffect DEF Written
    <3> QED BY <2>1, <3>1, <3>2
  <2> QED BY <2>3, <2>4, <2>5, <2>6, ObjectStep
<1>2. ASSUME pc' = "writeCRD", crdSeen' # Absent
      PROVE  server'[Head(todo')] # Absent
  <2>1. CASE GetCRD
    BY <1>2, <2>1 DEF GetCRD, NoWrite
  <2>2. CASE UNCHANGED <<pc, todo, crdSeen>>
    <3> DEFINE h == Head(todo)
    <3> SUFFICES server'[h] # Absent
      BY <2>2
    <3>1. h \in Objects /\ h[1] = "crd" /\ server[h] # Absent
      <4>1. pc = "writeCRD" /\ h[1] = "crd"
        BY <1>2, <2>2 DEF TypeOK, PassTypes
      <4> QED BY <1>2, <2>2, <4>1, CallOfPass DEF GrowTrust
    <3>2. ~Crash /\ ~Proceed
      BY <1>2 DEF Crash, EndPass, Proceed
    <3> HIDE DEF h
    <3>3. h \in Keys
      BY <3>1, KeysFacts
    <3>4. CASE ObjectKept(h)
      BY <3>1, <3>4 DEF ObjectKept
    <3>5. CASE Deliver(h)
      BY <3>1, <3>3, <3>5, DeliverEffect
    <3>6. ASSUME NEW obj, Written(h, obj)
          PROVE  server'[h] # Absent
      <4>1. obj # Absent
        BY <3>1, <3>2, <3>6, NotCollected, AbsentAssumption
           DEF Written, Called, Revoked, Installed, Collected, Lost, Owned
      <4> QED BY <3>3, <3>6, <4>1, StoreEffect DEF Written
    <3> QED BY <3>1, <3>2, <3>4, <3>5, <3>6, ObjectStep
  <2> QED BY <1>2, <2>1, <2>2, WriteCRDStays
<1> QED BY <1>1, <1>2 DEF GrowTrust, SubjectsOf

---------------------------------------------------------------------------
(* DeletionTrust: what an informer or a pass has seen deleted is over. *)

\* A write of the resource i: it was there before, and a deletion stays one, or it
\* is created.
Rewritten(i, obj) ==
  /\ server[Resource(i)] # Absent /\ lastUid'[i] = lastUid[i]
  /\ obj # Absent /\ server[Resource(i)].deleting => obj.deleting
Created(i) ==
  /\ server[Resource(i)] = Absent /\ lastUid'[i] = lastUid[i] + 1
  /\ lastUid[i] # 0 => "recreate" \in disturbed'
ResourceWritten(i, obj) == Store(Resource(i), obj) /\ (Rewritten(i, obj) \/ Created(i))

\* A write of one resource, for another.
LEMMA OtherResource ==
  ASSUME TypeOK, NEW i \in Instances, NEW j \in Instances, j # i, NEW obj,
         Store(Resource(j), obj)
  PROVE  ResourceKept(i)
BY PutResourceEffect DEF Store

\* The pass writes its own resource.
LEMMA PassWritesResource ==
  ASSUME TypeOK, FinalizerProtocol, NEW i \in Instances,
         RemoveFinalizer \/ AddFinalizer \/ UpdateStatus
  PROVE  ResourceKept(i) \/ \E obj : ResourceWritten(i, obj)
<1>1. who \in Instances /\ inst \in Controllers /\ pc # "idle"
  BY CopyOfPass DEF RemoveFinalizer, AddFinalizer, UpdateStatus, Calling
<1>2. CASE Requeue \/ NoWrite
  BY <1>2, NoWriteEffect DEF Requeue, NoWrite
<1>3. ASSUME NEW obj, Store(Resource(who), obj), UNCHANGED cluster, instCurrent,
             obj # Absent /\ server[Resource(who)].deleting => obj.deleting
      PROVE  ResourceKept(i) \/ \E o : ResourceWritten(i, o)
  <2>1. CASE who = i
    <3>1. server[Resource(i)] # Absent
      BY <1>1, <1>3, <2>1 DEF FinalizerProtocol, CopyTrust
    <3> QED BY <1>3, <2>1, <3>1 DEF ResourceWritten, Rewritten, cluster
  <2>2. CASE who # i
    BY <1>1, <1>3, <2>2, OtherResource
  <2> QED BY <2>1, <2>2
<1>4. CASE RemoveFinalizer /\ ~Requeue
  <2>1. Store(Resource(who), Absent) /\ UNCHANGED cluster /\ instCurrent
    BY <1>4 DEF RemoveFinalizer
  <2> QED BY <1>3, <2>1
<1>5. CASE AddFinalizer /\ ~Requeue
  <2> DEFINE written == [inst EXCEPT !.finalizer = TRUE]
  <2>1. Store(Resource(who), written) /\ UNCHANGED cluster /\ instCurrent
    BY <1>5 DEF AddFinalizer
  <2>2. /\ server[Resource(who)] \in Controllers
        /\ inst = WithDefaults(server[Resource(who)])
    BY <1>1, <2>1, KeysFacts DEF FinalizerProtocol, CopyTrust, TypeOK, StoreTypes
  <2>3. inst.deleting = server[Resource(who)].deleting
    BY <2>2, DefaultsTyped
  <2>4. written.deleting = inst.deleting
    BY <1>1 DEF Controllers
  <2> HIDE DEF written
  <2> QED BY <1>3, <2>1, <2>3, <2>4
<1>6. CASE UpdateStatus /\ ~Requeue /\ ~NoWrite
  <2> DEFINE new == [server[Resource(who)] EXCEPT !.deployed = TRUE]
  <2>1. Store(Resource(who), new) /\ UNCHANGED cluster /\ instCurrent
    BY <1>6 DEF UpdateStatus
  <2>2. server[Resource(who)] \in Controllers
    BY <1>1, <2>1, KeysFacts DEF FinalizerProtocol, CopyTrust, TypeOK, StoreTypes
  <2>3. new.deleting = server[Resource(who)].deleting
    BY <2>2 DEF Controllers
  <2> HIDE DEF new
  <2> QED BY <1>3, <2>1, <2>3
<1> QED BY <1>2, <1>4, <1>5, <1>6

\* The users write any resource.
LEMMA UserWritesResource ==
  ASSUME TypeOK, NEW i \in Instances, NEW j \in Instances,
         \/ \E spec \in CreatedSpecs : Create(j, spec)
         \/ \E spec \in Specs : Edit(j, spec)
         \/ Delete(j)
  PROVE  \/ ResourceKept(i) /\ lastUid'[i] = lastUid[i]
         \/ \E obj : ResourceWritten(i, obj)
<1> DEFINE k == Resource(j)
<1>0. /\ k \in Keys /\ lastUid \in [Instances -> Nat]
      /\ server[k] # Absent => server[k] \in Controllers
  BY KeysFacts DEF TypeOK, StoreTypes
<1>1. ASSUME NEW spec \in CreatedSpecs, Create(j, spec)
      PROVE  \/ ResourceKept(i) /\ lastUid'[i] = lastUid[i]
             \/ \E obj : ResourceWritten(i, obj)
  <2>1. PICK obj : WriteResource(j, obj)
    BY <1>1 DEF Create
  <2>2. server[k] = Absent /\ lastUid' = [lastUid EXCEPT ![j] = @ + 1]
    BY <1>1 DEF Create
  <2>3. lastUid[j] # 0 => "recreate" \in disturbed'
    BY <1>1 DEF Create, Disturb
  <2>4. CASE j = i
    BY <1>0, <2>1, <2>2, <2>3, <2>4 DEF ResourceWritten, Created, WriteResource
  <2>5. CASE j # i
    BY <1>0, <2>1, <2>2, <2>5, OtherResource DEF WriteResource
  <2> QED BY <2>4, <2>5
<1>2. ASSUME NEW obj, WriteResource(j, obj), server[k] # Absent, UNCHANGED lastUid,
             obj # Absent /\ server[k].deleting => obj.deleting
      PROVE  \/ ResourceKept(i) /\ lastUid'[i] = lastUid[i]
             \/ \E o : ResourceWritten(i, o)
  BY <1>2, OtherResource DEF WriteResource, ResourceWritten, Rewritten
<1>3. ASSUME NEW spec \in Specs, Edit(j, spec)
      PROVE  \/ ResourceKept(i) /\ lastUid'[i] = lastUid[i]
             \/ \E obj : ResourceWritten(i, obj)
  <2> DEFINE new == [server[k] EXCEPT !.spec = spec]
  <2>1. WriteResource(j, new) /\ server[k] # Absent /\ UNCHANGED lastUid
    BY <1>3 DEF Edit
  <2>2. new.deleting = server[k].deleting
    BY <1>0, <2>1 DEF Controllers
  <2> HIDE DEF new
  <2> QED BY <1>2, <2>1, <2>2
<1>4. CASE Delete(j)
  <2>1. CASE server[k].finalizer
    <3> DEFINE new == [server[k] EXCEPT !.deleting = TRUE]
    <3>1. WriteResource(j, new) /\ server[k] # Absent /\ UNCHANGED lastUid
      BY <1>4, <2>1 DEF Delete
    <3>2. new.deleting
      BY <1>0, <3>1 DEF Controllers
    <3> HIDE DEF new
    <3> QED BY <1>2, <3>1, <3>2
  <2>2. CASE ~server[k].finalizer
    <3>1. WriteResource(j, Absent) /\ server[k] # Absent /\ UNCHANGED lastUid
      BY <1>4, <2>2 DEF Delete
    <3> QED BY <1>2, <3>1
  <2> QED BY <2>1, <2>2
<1> QED BY <1>1, <1>3, <1>4

\* Every step, for one resource.
LEMMA ResourceStep ==
  ASSUME TypeOK, FinalizerProtocol, NEW i \in Instances, [Next]_vars
  PROVE  \/ ResourceKept(i) /\ lastUid'[i] = lastUid[i]
         \/ Crash \/ Deliver(Resource(i))
         \/ \E obj : ResourceWritten(i, obj)
<1>1. CASE UNCHANGED vars
  BY <1>1 DEF vars, cluster, ResourceKept
<1>2. CASE Worker
  <2>1. ASSUME NEW j \in Instances, DropRequest(j) \/ StartReconcile(j)
        PROVE  ResourceKept(i) /\ UNCHANGED cluster
    BY <2>1 DEF DropRequest, StartReconcile, ResourceKept
  <2>2. CASE FinalizeBinding
    <3>1. \/ UNCHANGED <<server, past>>
          \/ GrantsRbac(inst.spec) /\ \E obj : Put(Binding(who, inst.spec), obj)
      BY <2>2 DEF FinalizeBinding, NoWrite, Store, Requeue
    <3>2. GrantsRbac(inst.spec) => Binding(who, inst.spec) \in Objects
      BY <2>2, CopyOfPass, PassKeys, KeysFacts DEF FinalizeBinding
    <3>3. UNCHANGED cluster
      BY <2>2 DEF FinalizeBinding, Goto, Requeue
    <3> QED BY <3>1, <3>2, <3>3, NoWriteEffect, PutObjectEffect DEF cluster
  <2>3. CASE RemoveFinalizer \/ AddFinalizer \/ UpdateStatus
    <3>1. UNCHANGED cluster
      BY <2>3 DEF RemoveFinalizer, AddFinalizer, UpdateStatus, Requeue
    <3> QED BY <2>3, <3>1, PassWritesResource DEF cluster
  <2>4. CASE CheckNamespace \/ NamespaceTerminating
    <3>1. UNCHANGED cluster /\ NoWrite
      BY <2>4 DEF CheckNamespace, NamespaceTerminating
    <3> QED BY <3>1, NoWriteEffect DEF NoWrite, cluster
  <2>5. CASE \/ GetCRD \/ SkipCRD \/ WriteCRD \/ CreateServiceAccount
             \/ \E kind \in {"clusterRole", "clusterRoleBinding", "role", "roleBinding",
                             "deployment", "service"} : CreateOrUpdate(kind)
    <3>1. UNCHANGED cluster
      BY <2>5 DEF GetCRD, SkipCRD, WriteCRD, CreateServiceAccount, CreateOrUpdate, Proceed,
                  Requeue
    <3> QED BY <2>5, <3>1, CallsSpare DEF cluster
  <2> QED BY <1>2, <2>1, <2>2, <2>3, <2>4, <2>5 DEF Worker, cluster
<1>3. CASE Environment
  <2>1. ASSUME NEW k \in Keys, Deliver(k), k # Resource(i)
        PROVE  ResourceKept(i) /\ UNCHANGED cluster
    <3>1. Advance(k) /\ Resource(i) \in Keys
      BY <2>1, KeysFacts DEF Deliver
    <3>2. server' = server /\ \A j \in Keys : j # k => past'[j] = past[j]
      BY <3>1, AdvanceEffect
    <3> QED BY <2>1, <3>1, <3>2 DEF ResourceKept, Deliver
  <2>2. ASSUME NEW j \in Instances, Terminate(j)
        PROVE  ResourceKept(i) /\ UNCHANGED lastUid
    BY <2>2 DEF Terminate, NoWrite, ResourceKept
  <2>3. ASSUME NEW k \in Objects,
               CollectGarbage(k) \/ InstallCRD(k) \/ (k \in Bindings /\ DeleteBinding(k))
        PROVE  ResourceKept(i) /\ UNCHANGED lastUid
    <3>1. PICK obj : Store(k, obj) /\ UNCHANGED lastUid
      BY <2>3 DEF CollectGarbage, InstallCRD, DeleteBinding, cluster
    <3> QED BY <3>1, PutObjectEffect DEF Store
  <2>4. CASE ApiError \/ NamespaceError
    BY <2>4 DEF ApiError, NamespaceError, NoWrite, ResourceKept
  <2> QED BY <1>3, <2>1, <2>2, <2>3, <2>4, UserWritesResource, KeysFacts
          DEF Environment, cluster
<1> QED BY <1>1, <1>2, <1>3 DEF Next

\* What has happened stays on record.
LEMMA DisturbedGrows ==
  ASSUME TypeOK, [Next]_vars
  PROVE  disturbed \subseteq disturbed' /\ terminating \subseteq terminating'
<1>1. CASE UNCHANGED <<disturbed, terminating>>
  BY <1>1
<1>2. CASE Worker
  <2>1. UNCHANGED cluster
    BY <1>2 DEF Worker, DropRequest, StartReconcile, FinalizeBinding, RemoveFinalizer,
       CheckNamespace, NamespaceTerminating, AddFinalizer, GetCRD, SkipCRD, WriteCRD,
       CreateServiceAccount, CreateOrUpdate, UpdateStatus, Requeue, Goto, Proceed
  <2> QED BY <1>1, <2>1 DEF cluster
<1>3. CASE Environment
  BY <1>1, <1>3 DEF Environment, Deliver, Create, Edit, Delete, Terminate, CollectGarbage,
     InstallCRD, DeleteBinding, Crash, ApiError, NamespaceError, Disturb, WriteResource, cluster
<1>4. CASE UNCHANGED vars
  BY <1>1, <1>4 DEF vars, cluster
<1> QED BY <1>2, <1>3, <1>4 DEF Next

\* Only a request whose Get shows the deletion leads to the handler.
LEMMA HandlerStarts ==
  ASSUME TypeOK, [Next]_vars, NEW i \in Instances, AtHandler(i)'
  PROVE  \/ AtHandler(i)
         \/ /\ UNCHANGED <<server, past, lastUid>>
            /\ Cached(Resource(i)) # Absent /\ Cached(Resource(i)).deleting
<1>1. who' = i /\ pc' \in {"finalize", "removeFinalizer"}
  BY DEF AtHandler
<1>2. ~EndPass /\ ~Proceed /\ ~BeginCalls
  BY <1>1 DEF EndPass, Proceed, BeginCalls
<1>3. CASE UNCHANGED <<pc, who>>
  BY <1>1, <1>3 DEF AtHandler
<1>4. ASSUME NEW j \in Instances, StartReconcile(j)
      PROVE  /\ UNCHANGED <<server, past, lastUid>>
             /\ Cached(Resource(i)) # Absent /\ Cached(Resource(i)).deleting
  <2>1. j = i /\ Cached(Resource(i)).deleting /\ UNCHANGED <<server, past, lastUid>>
    BY <1>1, <1>4 DEF StartReconcile, cluster
  <2> QED BY <1>4, <2>1 DEF StartReconcile, NothingToDo
<1>5. CASE FinalizeBinding
  BY <1>1, <1>2, <1>5 DEF FinalizeBinding, Goto, Requeue, AtHandler
<1>6. CASE Worker
  <2>1. ~(RemoveFinalizer \/ NamespaceTerminating \/ UpdateStatus \/ AddFinalizer)
    BY <1>2 DEF RemoveFinalizer, NamespaceTerminating, UpdateStatus, Requeue, AddFinalizer
  <2>2. ~(CheckNamespace \/ GetCRD)
    BY <1>1, <1>2 DEF CheckNamespace, GetCRD
  <2>3. ~(SkipCRD \/ WriteCRD \/ CreateServiceAccount
          \/ \E kind \in {"clusterRole", "clusterRoleBinding", "role", "roleBinding",
                          "deployment", "service"} : CreateOrUpdate(kind))
    BY <1>2 DEF SkipCRD, WriteCRD, CreateServiceAccount, CreateOrUpdate, Requeue
  <2>4. ASSUME NEW j \in Instances, DropRequest(j)
        PROVE  UNCHANGED <<pc, who>>
    BY <2>4 DEF DropRequest, pass
  <2> QED BY <1>3, <1>4, <1>5, <1>6, <2>1, <2>2, <2>3, <2>4 DEF Worker
<1>7. CASE Environment
  <2>1. UNCHANGED <<pc, who>>
    BY <1>2, <1>7 DEF Environment, Deliver, Create, Edit, Delete, WriteResource, Terminate,
       CollectGarbage, InstallCRD, DeleteBinding, Crash, ApiError, NamespaceError, pass
  <2> QED BY <1>3, <2>1
<1>8. CASE UNCHANGED vars
  BY <1>3, <1>8 DEF vars, pass
<1> QED BY <1>6, <1>7, <1>8 DEF Next

\* What is over stays over until the resource is created again.
LEMMA OverKept ==
  ASSUME TypeOK, FinalizerProtocol, NEW i \in Instances, [Next]_vars,
         server[Resource(i)] # Absent => lastUid[i] # 0
  PROVE  /\ server'[Resource(i)] # Absent => lastUid'[i] # 0
         /\ Over(i) /\ "recreate" \notin disturbed' => Over(i)'
<1> DEFINE k == Resource(i)
<1>1. k \in Keys /\ lastUid[i] \in Nat
  BY KeysFacts DEF TypeOK
<1>2. CASE server'[k] = server[k] /\ lastUid'[i] = lastUid[i]
  BY <1>2 DEF Over
<1>3. ASSUME NEW obj, ResourceWritten(i, obj)
      PROVE  /\ server'[Resource(i)] # Absent => lastUid'[i] # 0
             /\ Over(i) /\ "recreate" \notin disturbed' => Over(i)'
  <2>1. server'[k] = obj
    BY <1>1, <1>3, StoreEffect DEF ResourceWritten
  <2>2. CASE Rewritten(i, obj)
    BY <2>1, <2>2 DEF Rewritten, Over
  <2>3. CASE Created(i)
    BY <1>1, <2>3 DEF Created, Over
  <2> QED BY <1>3, <2>2, <2>3 DEF ResourceWritten
<1>4. CASE Crash \/ Deliver(k)
  <2>1. server' = server /\ lastUid' = lastUid
    BY <1>4 DEF Crash, Relist, Deliver, Advance, cluster
  <2> QED BY <1>2, <2>1
<1> QED BY <1>2, <1>3, <1>4, ResourceStep DEF ResourceKept

\* Every step keeps a deletion that was seen one that is over.
LEMMA DeletionTrustStep ==
  ASSUME TypeOK, FinalizerProtocol, DeletionTrust, [Next]_vars
  PROVE  DeletionTrust'
<1> SUFFICES ASSUME NEW i \in Instances
             PROVE  /\ server'[Resource(i)] # Absent => lastUid'[i] # 0
                    /\ /\ "recreate" \notin disturbed'
                       /\ \/ AtHandler(i)'
                          \/ \E n \in 1..Len(past'[Resource(i)]) :
                               /\ past'[Resource(i)][n] # Absent
                               /\ past'[Resource(i)][n].deleting
                       => Over(i)'
  BY DEF DeletionTrust
<1> DEFINE k == Resource(i)
<1>1. k \in Keys
  BY KeysFacts
<1>2. /\ server'[Resource(i)] # Absent => lastUid'[i] # 0
      /\ Over(i) /\ "recreate" \notin disturbed' => Over(i)'
  BY OverKept DEF DeletionTrust
<1> SUFFICES ASSUME "recreate" \notin disturbed',
                    \/ AtHandler(i)'
                    \/ \E n \in 1..Len(past'[k]) : past'[k][n] # Absent /\ past'[k][n].deleting
             PROVE  Over(i)
  BY <1>2
<1>3. "recreate" \notin disturbed
  BY DisturbedGrows
<1>4. server[k] # Absent /\ server[k].deleting => Over(i)
  BY DEF DeletionTrust, Over
<1>5. \A n \in 1..Len(past[k]) : past[k][n] # Absent /\ past[k][n].deleting => Over(i)
  BY <1>3 DEF DeletionTrust
<1>6. CASE AtHandler(i)'
  <2>1. CASE AtHandler(i)
    BY <1>3, <2>1 DEF DeletionTrust
  <2>2. CASE Cached(k) # Absent /\ Cached(k).deleting
    <3>1. CASE Current(k)
      BY <1>4, <2>2, <3>1 DEF Cached
    <3>2. CASE ~Current(k)
      <4>1. past[k] \in Seq(AnyVersion) /\ past[k] # <<>>
        BY <1>1, <3>2 DEF TypeOK, StoreTypes, Current
      <4>2. 1 \in 1..Len(past[k]) /\ Head(past[k]) = past[k][1]
        BY <4>1
      <4> QED BY <1>5, <2>2, <3>2, <4>2 DEF Cached
    <3> QED BY <3>1, <3>2
  <2> QED BY <1>6, <2>1, <2>2, HandlerStarts
<1>7. ASSUME NEW n \in 1..Len(past'[k]), past'[k][n] # Absent, past'[k][n].deleting
      PROVE  Over(i)
  <2>1. past'[k][n] = server[k] \/ \E m \in 1..Len(past[k]) : past'[k][n] = past[k][m]
    <3>1. CASE ResourceKept(i)
      BY <1>7, <3>1 DEF ResourceKept
    <3>2. CASE Crash
      <4>1. past'[k] = <<>>
        BY <1>1, <3>2 DEF Crash, Relist, TypeOK, StoreTypes
      <4> QED BY <1>7, <4>1
    <3>3. CASE Deliver(k)
      BY <1>1, <1>7, <3>3, DeliverEffect
    <3>4. ASSUME NEW obj, ResourceWritten(i, obj)
          PROVE  past'[k][n] = server[k] \/ \E m \in 1..Len(past[k]) : past'[k][n] = past[k][m]
      BY <1>1, <1>7, <3>4, StoreEffect DEF ResourceWritten
    <3> QED BY <3>1, <3>2, <3>3, <3>4, ResourceStep
  <2> QED BY <1>4, <1>5, <1>7, <2>1
<1> QED BY <1>6, <1>7

---------------------------------------------------------------------------
(* BindingTrust: an old binding shows no subject that is gone. *)

\* What nobody notices has not happened before a step after which it has not.
LEMMA NoticedBefore ==
  ASSUME TypeOK, [Next]_vars, disturbed' \cap Unnoticed = {}
  PROVE  /\ disturbed \cap Unnoticed = {}
         /\ "deleteBinding" \notin disturbed' /\ "namespaceError" \notin disturbed'
         /\ Bindings \cap Lagging # {} => "recreate" \notin disturbed /\ "recreate" \notin disturbed'
BY DisturbedGrows DEF Unnoticed

\* Only the handler of a resource takes subjects of its namespace out of a binding.
LEMMA BindingKeeps ==
  ASSUME TypeOK, CallTrust, ObjectTrust, OnePerNamespace, "deleteBinding" \notin disturbed',
         NEW k \in Bindings, NEW obj, Written(k, obj), server[k] # Absent
  PROVE  /\ obj # Absent
         /\ \A i \in Instances : ~AtHandler(i) =>
              \A s \in server[k].subjects : s[1] = i[1] => s \in obj.subjects
<1>1. k \in Objects /\ k[1] = "clusterRoleBinding" /\ WellMade(k, server[k])
  BY KeysFacts DEF Bindings, ObjectTrust
<1>2. CASE Called(k, obj)
  BY <1>1, <1>2, CalledOutcome DEF SubjectsOf
<1>3. CASE Revoked(k, obj)
  <2>1. /\ who \in Instances /\ pc = "finalize" /\ obj \in Managed
        /\ obj.subjects = WithoutSubject(server[k].subjects, SubjectOf(who, inst.spec))
    BY <1>3 DEF Revoked
  <2>2. SubjectOf(who, inst.spec)[1] = who[1]
    BY DEF SubjectOf
  <2>3. ASSUME NEW i \in Instances, ~AtHandler(i)
        PROVE  \A s \in server[k].subjects : s[1] = i[1] => s \in obj.subjects
    <3>1. who[1] # i[1]
      BY <2>1, <2>3 DEF AtHandler, OnePerNamespace
    <3> QED BY <2>1, <2>2, <3>1 DEF WithoutSubject
  <2> QED BY <2>1, <2>3, AbsentAssumption
<1>4. ~(Installed(k, obj) \/ Lost(k, obj) \/ Collected(k, obj))
  BY <1>1, NotCollected DEF Installed, Lost, Collected, Owned
<1> QED BY <1>2, <1>3, <1>4 DEF Written

\* Every step keeps old bindings without a subject that is gone.
LEMMA BindingTrustStep ==
  ASSUME TypeOK, FinalizerProtocol, CallTrust, ObjectTrust, DeletionTrust, BindingTrust,
         [Next]_vars
  PROVE  BindingTrust'
<1> SUFFICES ASSUME OnePerNamespace, disturbed' \cap Unnoticed = {}, NEW k \in Bindings,
                    NEW n \in 1..Len(past'[k]), past'[k][n] # Absent
             PROVE  /\ server'[k] # Absent
                    /\ \A i \in Instances : ~Over(i)' =>
                         \A s \in past'[k][n].subjects : s[1] = i[1] => s \in server'[k].subjects
  BY DEF BindingTrust
<1>1. k \in Objects /\ k \in Keys
  BY KeysFacts
<1>2. past'[k] # <<>>
  BY EmptySeq
<1>3. k \in Lagging
  BY <1>1, <1>2, ObjectTrustStep DEF ObjectTrust, Current
<1>4. /\ disturbed \cap Unnoticed = {} /\ "deleteBinding" \notin disturbed'
      /\ "recreate" \notin disturbed /\ "recreate" \notin disturbed'
  BY <1>3, NoticedBefore
<1>5. \A i \in Instances : ~Over(i)' => ~Over(i) /\ ~AtHandler(i)
  BY <1>4, OverKept DEF DeletionTrust
<1> DEFINE v == past'[k][n]
<1>6. v = server[k] \/ \E m \in 1..Len(past[k]) : v = past[k][m]
  <2>1. CASE ObjectKept(k)
    BY <2>1 DEF ObjectKept
  <2>2. CASE Crash
    BY <1>1, <1>2, <2>2 DEF Crash, Relist, TypeOK, StoreTypes
  <2>3. CASE Deliver(k)
    BY <1>1, <2>3, DeliverEffect
  <2>4. ASSUME NEW obj, Written(k, obj)
        PROVE  v = server[k] \/ \E m \in 1..Len(past[k]) : v = past[k][m]
    BY <1>1, <2>4, StoreEffect DEF Written
  <2> QED BY <1>1, <2>1, <2>2, <2>3, <2>4, ObjectStep
<1>7. /\ server[k] # Absent
      /\ \A i \in Instances : ~Over(i) =>
           \A s \in v.subjects : s[1] = i[1] => s \in server[k].subjects
  <2>1. CASE v = server[k]
    BY <2>1
  <2>2. ASSUME NEW m \in 1..Len(past[k]), v = past[k][m]
        PROVE  /\ server[k] # Absent
               /\ \A i \in Instances : ~Over(i) =>
                    \A s \in v.subjects : s[1] = i[1] => s \in server[k].subjects
    BY <1>4, <2>2 DEF BindingTrust
  <2> QED BY <1>6, <2>1, <2>2
<1> HIDE DEF v
<1>8. CASE server'[k] = server[k]
  BY <1>5, <1>7, <1>8 DEF v
<1>9. ASSUME NEW obj, Written(k, obj)
      PROVE  /\ server'[k] # Absent
             /\ \A i \in Instances : ~Over(i)' =>
                  \A s \in past'[k][n].subjects : s[1] = i[1] => s \in server'[k].subjects
  <2>1. server'[k] = obj
    BY <1>1, <1>9, StoreEffect DEF Written
  <2>2. /\ obj # Absent
        /\ \A i \in Instances : ~AtHandler(i) =>
             \A s \in server[k].subjects : s[1] = i[1] => s \in obj.subjects
    BY <1>4, <1>7, <1>9, BindingKeeps
  <2> QED BY <1>5, <1>7, <2>1, <2>2 DEF v
<1>10. CASE Crash \/ Deliver(k)
  BY <1>8, <1>10 DEF Crash, Relist, Deliver, Advance
<1> QED BY <1>1, <1>8, <1>9, <1>10, ObjectStep DEF ObjectKept

---------------------------------------------------------------------------
(* NoWorkIsLost: what is made stays made, or a request is on its way. *)

\* A change of an object a resource owns makes a request for the resource.
LEMMA OwnerWoken ==
  ASSUME OnePerNamespace, NEW i \in Instances, NEW k \in Objects, k[1] \in Owned, k[2] = i[1],
         NEW old \in {Absent} \cup Managed, NEW new \in {Absent} \cup Managed, old # new,
         WellMade(k, old), WellMade(k, new)
  PROVE  i \in Woken(k, old, new)
<1>1. PICK o \in {old, new} : o # Absent
  OBVIOUS
<1>2. o \in Managed /\ o.owner # NoOwner /\ o.owner[1][1] = i[1]
  BY <1>1 DEF WellMade
<1>3. o.owner[1] \in Instances
  BY <1>2 DEF Managed
<1>4. o.owner[1] = i
  BY <1>2, <1>3 DEF OnePerNamespace
<1>5. i \in Owners({old, new})
  BY <1>1, <1>2, <1>4 DEF Owners
<1> QED BY <1>5, KeysFacts DEF Woken

\* An object that does not depend on the spec is as it should be when it is there.
LEMMA MadeOnceThere ==
  ASSUME NEW i \in Instances, NEW s \in DefaultedSpecs, NEW k \in ObjectCalls(i, s),
         k[1] \notin {"deployment", "service"}, WellMade(k, server[k]), server[k] # Absent,
         k[1] \in {"clusterRoleBinding", "roleBinding"} => SubjectOf(i, s) \in server[k].subjects
  PROVE  Made(i, s, k)
<1>1. k \notin Elements(CRDKeys) => k[1] # "crd"
  BY CallPlaces
<1>2. k[1] # "crd" => server[k].rev = Bundled /\ Rendered(k, s) = Bundled
  BY DEF WellMade, Rendered
<1> QED BY <1>1, <1>2 DEF Made

\* So it is after a write of it.
LEMMA MadeAfter ==
  ASSUME NEW i \in Instances, NEW s \in DefaultedSpecs, NEW k \in ObjectCalls(i, s),
         k[1] \notin {"deployment", "service"}, NEW obj, server'[k] = obj, WellMade(k, obj),
         obj # Absent,
         k[1] \in {"clusterRoleBinding", "roleBinding"} => SubjectOf(i, s) \in obj.subjects
  PROVE  Made(i, s, k)'
<1>1. k \notin Elements(CRDKeys) => k[1] # "crd"
  BY CallPlaces
<1>2. k[1] # "crd" => obj.rev = Bundled /\ Rendered(k, s) = Bundled
  BY DEF WellMade, Rendered
<1> QED BY <1>1, <1>2 DEF Made

\* One of the objects i asks for, in any step that is none of its handler.
LEMMA SettledStep ==
  ASSUME TypeOK, CallTrust, ObjectTrust, OnePerNamespace, [Next]_vars,
         "deleteBinding" \notin disturbed', NEW i \in Instances, ~AtHandler(i),
         server[Resource(i)] # Absent, NEW s \in DefaultedSpecs, NEW k \in ObjectCalls(i, s),
         Made(i, s, k) \/ Shown(k)
  PROVE  Made(i, s, k)' \/ Shown(k)' \/ i \in queued'
<1>1. k \in Objects /\ k \in Keys
  BY ObjectCallsFacts, KeysFacts
<1>2. /\ WellMade(k, server[k]) /\ \A n \in 1..Len(past[k]) : WellMade(k, past[k][n])
      /\ past[k] # <<>> => past[k][Len(past[k])] # server[k]
  BY <1>1 DEF ObjectTrust, Current
<1>3. /\ server[k] \in {Absent} \cup Managed
      /\ \A n \in 1..Len(past[k]) : past[k][n] \in {Absent} \cup Managed
  BY <1>1, KeysFacts DEF TypeOK, StoreTypes
<1>4. CASE ObjectKept(k)
  BY <1>4 DEF ObjectKept, Made, Shown, Current
<1>5. CASE Crash
  BY <1>5 DEF Crash
<1>6. CASE Deliver(k)
  <2>1. /\ server' = server
        /\ past'[k] = <<>> =>
              /\ Cached(k) = past[k][Len(past[k])] /\ NextVersion(k) = server[k]
              /\ Len(past[k]) \in 1..Len(past[k]) /\ past[k] # <<>>
    BY <1>1, <1>6, DeliverEffect
  <2>2. CASE Made(i, s, k)
    BY <2>1, <2>2 DEF Made
  <2>3. CASE Shown(k) /\ past'[k] # <<>>
    BY <2>3 DEF Shown, Current
  <2>4. CASE Shown(k) /\ past'[k] = <<>>
    <3>1. k[1] \in Owned /\ k[2] = i[1]
      BY <2>4, CallPlaces DEF Shown
    <3>2. i \in Woken(k, Cached(k), NextVersion(k))
      BY <1>1, <1>2, <1>3, <2>1, <2>4, <3>1, OwnerWoken
    <3> QED BY <1>6, <3>2 DEF Deliver
  <2> QED BY <2>2, <2>3, <2>4
<1>7. ASSUME NEW obj, Written(k, obj)
      PROVE  Made(i, s, k)' \/ Shown(k)' \/ i \in queued'
  <2>1. /\ Store(k, obj) /\ server'[k] = obj /\ obj \in {Absent} \cup Managed
        /\ WellMade(k, obj)
        /\ k \notin Lagging \/ obj = server[k] => past'[k] = past[k]
        /\ k \in Lagging /\ obj # server[k] => past'[k] # <<>>
    BY <1>1, <1>2, <1>7, StoreEffect, WrittenWellMade DEF Written
  <2>2. CASE obj = server[k]
    BY <1>4, <2>1, <2>2 DEF ObjectKept
  <2>3. CASE obj # server[k] /\ k[1] \in Owned /\ k \in Lagging
    BY <2>1, <2>3 DEF Shown, Current
  <2>4. CASE obj # server[k] /\ k[1] \in Owned /\ k \notin Lagging
    <3>1. k[2] = i[1]
      BY <2>4, CallPlaces
    <3>2. i \in Woken(k, server[k], obj)
      BY <1>1, <1>2, <1>3, <2>1, <2>4, <3>1, OwnerWoken
    <3> QED BY <2>1, <2>4, <3>2 DEF Store
  <2>5. CASE k[1] \notin Owned
    <3>1. Made(i, s, k) /\ server[k] # Absent
      BY <2>5 DEF Shown, Made
    <3>2. ~Collected(k, obj)
      BY <1>1, <2>5, NotCollected DEF Collected
    <3>3. CASE k[1] = "clusterRoleBinding"
      <4>1. obj # Absent /\ SubjectOf(i, s) \in obj.subjects
        <5>1. k \in Bindings /\ SubjectOf(i, s)[1] = i[1]
          BY <3>3, CallPlaces DEF SubjectOf
        <5>2. SubjectOf(i, s) \in server[k].subjects
          BY <3>1, <3>3 DEF Made
        <5> QED BY <1>7, <3>1, <5>1, <5>2, BindingKeeps
      <4> QED BY <2>1, <2>5, <3>3, <4>1, MadeAfter DEF Owned
    <3>4. CASE k[1] # "clusterRoleBinding"
      <4>1. ~Revoked(k, obj) /\ ~Lost(k, obj)
        BY <3>4 DEF Revoked, Lost
      <4>2. CASE Called(k, obj)
        <5>1. /\ obj # Absent
              /\ k[1] # "crd" => SubjectsOf(server[k]) \subseteq obj.subjects
          BY <1>1, <1>2, <4>2, CalledOutcome
        <5>2. k[1] = "roleBinding" => SubjectOf(i, s) \in obj.subjects
          BY <3>1, <5>1 DEF Made, SubjectsOf
        <5> QED BY <2>1, <2>5, <3>4, <5>1, <5>2, MadeAfter DEF Owned
      <4>3. CASE Installed(k, obj)
        <5>1. obj # Absent /\ k[1] = "crd"
          BY <4>3, AbsentAssumption DEF Installed
        <5> QED BY <2>1, <2>5, <5>1, MadeAfter DEF Owned
      <4> QED BY <1>7, <3>2, <4>1, <4>2, <4>3 DEF Written
    <3> QED BY <3>3, <3>4
  <2> QED BY <2>2, <2>3, <2>4, <2>5
<1> QED BY <1>1, <1>4, <1>5, <1>6, <1>7, ObjectStep

\* The object a call has written is made.
LEMMA WriteMakes ==
  ASSUME TypeOK, CallTrust, ObjectTrust, NEW k \in Objects, NEW obj, Store(k, obj), Called(k, obj),
         NEW i, i = who, NEW s, s = inst.spec
  PROVE  Made(i, s, k)'
<1>1. /\ i \in Instances /\ s \in DefaultedSpecs /\ k \in ObjectCalls(i, s) /\ obj # Absent
      /\ k[1] # "crd" => obj.rev = Rendered(k, s)
      /\ k[1] \in {"clusterRoleBinding", "roleBinding"} => SubjectOf(i, s) \in obj.subjects
  BY CalledOutcome DEF ObjectTrust
<1>2. k[1] = "crd" => k \in Elements(CRDKeys)
  BY <1>1, CallPlaces
<1>3. server'[k] = obj
  BY StoreEffect, KeysFacts
<1> QED BY <1>1, <1>2, <1>3 DEF Made

\* What the cache shows as it should be is so on the server, or the owner's
\* informer will show what has become of it.
LEMMA CacheMakes ==
  ASSUME TypeOK, CallTrust, ObjectTrust, GrowTrust, BindingTrust, OnePerNamespace,
         disturbed \cap Unnoticed = {}, pc = "apply", ~Over(who), NEW k \in Objects, k = Head(todo),
         k[1] # "crd", Cached(k) = Mutated(k, Cached(k), who, inst)
  PROVE  Made(who, inst.spec, k) \/ Shown(k)
<1>1. /\ who \in Instances /\ inst \in Copies /\ inst.spec \in DefaultedSpecs
      /\ k \in ObjectCalls(who, inst.spec) /\ k \in Keys
  BY CopyOfPass, CallIsForObject, KeysFacts
<1> DEFINE old == Cached(k)
           s == SubjectOf(who, inst.spec)
<1>2. old \in {Absent} \cup Managed
  BY <1>1, CachedTyped, KeysFacts DEF TypeOK
<1>3. old \in Managed /\ old # Absent
  BY <1>1, <1>2, MutatedTyped, AbsentAssumption
<1>4. /\ k[1] \in {"clusterRoleBinding", "roleBinding"} => s \in old.subjects
      /\ k[1] \notin {"clusterRoleBinding", "roleBinding"} => old.rev = Rendered(k, inst.spec)
  <2> DEFINE new == Mutated(k, old, who, inst)
  <2>1. /\ k[1] \in {"clusterRoleBinding", "roleBinding"} => new.subjects = old.subjects \cup {s}
        /\ k[1] \notin {"clusterRoleBinding", "roleBinding"} => new.rev = Rendered(k, inst.spec)
    BY <1>1, <1>3, MutatedTyped
  <2>2. new = old
    OBVIOUS
  <2> HIDE DEF new, old
  <2> QED BY <2>1, <2>2
<1>5. WellMade(k, server[k])
  BY DEF ObjectTrust
<1>6. CASE Current(k)
  <2>1. server[k] = old
    BY <1>6 DEF Cached
  <2>2. CASE k[1] \in {"deployment", "service"}
    BY <1>3, <1>4, <2>1, <2>2 DEF Made
  <2>3. CASE k[1] \notin {"deployment", "service"}
    BY <1>1, <1>3, <1>4, <1>5, <2>1, <2>3, MadeOnceThere
  <2> QED BY <2>2, <2>3
<1>7. CASE ~Current(k)
  <2>1. past[k] \in Seq(AnyVersion) /\ past[k] # <<>>
    BY <1>1, <1>7 DEF TypeOK, StoreTypes, Current
  <2>2. 1 \in 1..Len(past[k]) /\ past[k][1] = old
    BY <1>7, <2>1 DEF Cached
  <2>3. CASE k[1] \in Owned
    BY <1>7, <2>3 DEF Shown
  <2>4. CASE k[1] \in {"clusterRole", "role", "roleBinding"}
    <3>1. server[k] # Absent /\ SubjectsOf(old) \subseteq SubjectsOf(server[k])
      BY <1>3, <2>2, <2>4 DEF GrowTrust
    <3>2. k[1] \in {"clusterRoleBinding", "roleBinding"} => s \in server[k].subjects
      BY <1>3, <1>4, <3>1 DEF SubjectsOf
    <3> QED BY <1>1, <1>5, <2>4, <3>1, <3>2, MadeOnceThere
  <2>5. CASE k[1] = "clusterRoleBinding"
    <3>1. k \in Bindings /\ s \in old.subjects /\ s[1] = who[1]
      BY <1>4, <2>5 DEF Bindings, SubjectOf
    <3>2. server[k] # Absent /\ s \in server[k].subjects
      BY <1>1, <1>3, <2>2, <3>1 DEF BindingTrust
    <3> QED BY <1>1, <1>5, <2>5, <3>2, MadeOnceThere
  <2>6. k[1] \in Owned \/ k[1] \in {"clusterRole", "role", "roleBinding", "clusterRoleBinding"}
    <3>1. ClusterRole[1] = "clusterRole" /\ Binding(who, inst.spec)[1] = "clusterRoleBinding"
      BY DEF ClusterRole, Binding
    <3> QED BY <1>1, <3>1, ObjectCallKinds DEF Owned
  <2> QED BY <2>3, <2>4, <2>5, <2>6
<1> QED BY <1>6, <1>7

\* What a pass has called for is made when it goes on, or an event will tell.
LEMMA CallMakes ==
  ASSUME TypeOK, CallTrust, ObjectTrust, GrowTrust, BindingTrust, OnePerNamespace,
         disturbed \cap Unnoticed = {}, ~Over(who), Proceed,
         \/ SkipCRD \/ WriteCRD \/ CreateServiceAccount
         \/ \E kind \in {"clusterRole", "clusterRoleBinding", "role", "roleBinding",
                         "deployment", "service"} : CreateOrUpdate(kind),
         NEW i, i = who, NEW s, s = inst.spec, NEW k, k = Head(todo)
  PROVE  Made(i, s, k)' \/ Shown(k)'
<1>1. pc \in {"apply", "writeCRD"} /\ k[1] # "higressController"
  BY DEF SkipCRD, WriteCRD, CreateServiceAccount, CreateOrUpdate, Calling, TypeOK, PassTypes
<1>2. k \in Objects
  BY <1>1, CallOfPass
<1>3. /\ i \in Instances /\ s \in DefaultedSpecs /\ k \in ObjectCalls(i, s)
      /\ WellMade(k, server[k])
  BY <1>1, <1>2, CopyOfPass, CallIsForObject DEF ObjectTrust
<1>4. ~Requeue
  BY DEF Proceed, Requeue, EndPass
<1>5. CASE \E obj : Store(k, obj) /\ Called(k, obj)
  BY <1>2, <1>5, WriteMakes
<1>6. CASE NoWrite /\ (Made(i, s, k) \/ Shown(k))
  BY <1>6 DEF NoWrite, Made, Shown, Current
<1>7. CASE SkipCRD
  <2>1. server[k] # Absent /\ k[1] = "crd" /\ NoWrite
    BY <1>7 DEF SkipCRD, GrowTrust, TypeOK, PassTypes
  <2> QED BY <1>3, <1>6, <2>1, MadeOnceThere
<1>8. CASE WriteCRD
  <2>1. Store(k, Initial(k, who, inst)) /\ k[1] = "crd"
    BY <1>4, <1>8 DEF WriteCRD, TypeOK, PassTypes
  <2>2. Called(k, Initial(k, who, inst))
    BY <1>1, <2>1 DEF Called
  <2> QED BY <1>5, <2>1, <2>2
<1>9. CASE CreateServiceAccount
  <2>1. k[1] = "serviceAccount"
    BY <1>9 DEF CreateServiceAccount, Calling
  <2>2. CASE server[k] # Absent /\ NoWrite
    BY <1>3, <1>6, <2>1, <2>2, MadeOnceThere
  <2>3. CASE server[k] = Absent /\ Store(k, Initial(k, who, inst))
    <3>1. Mutated(k, server[k], who, inst) = Initial(k, who, inst)
      BY <2>3 DEF Mutated
    <3>2. Called(k, Initial(k, who, inst))
      BY <1>1, <2>1, <3>1 DEF Called
    <3> QED BY <1>5, <2>3, <3>2
  <2> QED BY <1>4, <1>9, <2>2, <2>3 DEF CreateServiceAccount
<1>10. ASSUME NEW kind \in {"clusterRole", "clusterRoleBinding", "role", "roleBinding",
                            "deployment", "service"}, CreateOrUpdate(kind)
       PROVE  Made(i, s, k)' \/ Shown(k)'
  <2>1. k[1] = kind /\ kind # "crd" /\ pc = "apply"
    BY <1>10 DEF CreateOrUpdate, Calling
  <2>2. CASE Cached(k) = Mutated(k, Cached(k), who, inst) /\ NoWrite
    BY <1>2, <1>6, <2>1, <2>2, CacheMakes
  <2>3. CASE Current(k) /\ Store(k, Mutated(k, Cached(k), who, inst))
    <3>1. Cached(k) = server[k]
      BY <2>3 DEF Cached
    <3>2. Called(k, Mutated(k, Cached(k), who, inst))
      BY <1>1, <2>1, <3>1 DEF Called
    <3> QED BY <1>5, <2>3, <3>2
  <2> QED BY <1>4, <1>10, <2>2, <2>3 DEF CreateOrUpdate
<1> QED BY <1>7, <1>8, <1>9, <1>10

\* A request leaves the queue with the pass it starts, or with the process.
LEMMA QueueKept ==
  ASSUME [Next]_vars, NEW i \in queued
  PROVE  i \in queued' \/ DropRequest(i) \/ StartReconcile(i) \/ Crash
<1>1. CASE Worker
  <2>1. ASSUME NEW j \in Instances, DropRequest(j) \/ StartReconcile(j)
        PROVE  i \in queued' \/ DropRequest(i) \/ StartReconcile(i)
    BY <2>1 DEF DropRequest, StartReconcile
  <2>2. CASE \/ FinalizeBinding \/ RemoveFinalizer \/ CheckNamespace \/ NamespaceTerminating
             \/ AddFinalizer \/ UpdateStatus
    BY <2>2 DEF FinalizeBinding, RemoveFinalizer, CheckNamespace, NamespaceTerminating,
       AddFinalizer, UpdateStatus, Requeue, Store, NoWrite
  <2>3. CASE \/ GetCRD \/ SkipCRD \/ WriteCRD \/ CreateServiceAccount
             \/ \E kind \in {"clusterRole", "clusterRoleBinding", "role", "roleBinding",
                             "deployment", "service"} : CreateOrUpdate(kind)
    BY <2>3 DEF GetCRD, SkipCRD, WriteCRD, CreateServiceAccount, CreateOrUpdate, Requeue,
       Store, NoWrite
  <2> QED BY <1>1, <2>1, <2>2, <2>3 DEF Worker
<1>2. CASE Environment
  BY <1>2 DEF Environment, Deliver, Create, Edit, Delete, WriteResource, Terminate, NoWrite,
     CollectGarbage, InstallCRD, DeleteBinding, Crash, ApiError, NamespaceError, Store
<1>3. CASE UNCHANGED vars
  BY <1>3 DEF vars
<1> QED BY <1>1, <1>2, <1>3 DEF Next

\* The worker turns to another request only by taking it from the queue.
LEMMA WhoMoves ==
  ASSUME TypeOK, [Next]_vars
  PROVE  who' = who \/ who' = Absent \/ \E j \in Instances : StartReconcile(j)
<1>1. CASE EndPass
  BY <1>1 DEF EndPass
<1>2. CASE Worker /\ ~EndPass
  <2>1. ASSUME NEW j \in Instances, DropRequest(j)
        PROVE  who' = who
    BY <2>1 DEF DropRequest, pass
  <2>2. CASE \/ FinalizeBinding \/ RemoveFinalizer \/ CheckNamespace \/ NamespaceTerminating
             \/ AddFinalizer \/ UpdateStatus
    BY <1>2, <2>2 DEF FinalizeBinding, RemoveFinalizer, CheckNamespace, NamespaceTerminating,
       AddFinalizer, UpdateStatus, Requeue, Goto
  <2>3. CASE \/ GetCRD \/ SkipCRD \/ WriteCRD \/ CreateServiceAccount
             \/ \E kind \in {"clusterRole", "clusterRoleBinding", "role", "roleBinding",
                             "deployment", "service"} : CreateOrUpdate(kind)
    BY <1>2, <2>3 DEF GetCRD, SkipCRD, WriteCRD, CreateServiceAccount, CreateOrUpdate, Requeue,
       Proceed
  <2> QED BY <1>2, <2>1, <2>2, <2>3 DEF Worker
<1>3. CASE Environment /\ ~EndPass
  BY <1>3 DEF Environment, Deliver, Create, Edit, Delete, WriteResource, Terminate,
     CollectGarbage, InstallCRD, DeleteBinding, Crash, ApiError, NamespaceError, pass
<1>4. CASE UNCHANGED vars
  BY <1>4 DEF vars, pass
<1> QED BY <1>1, <1>2, <1>3, <1>4 DEF Next

\* A request whose resource is living starts a pass that does its work; one that
\* has not seen it yet is followed by another.
LEMMA RequestWorks ==
  ASSUME TypeOK, FinalizerProtocol, [Next]_vars, NEW i \in Instances,
         server'[Resource(i)] = server[Resource(i)], server[Resource(i)] # Absent,
         ~server[Resource(i)].deleting, Asked(i)
  PROVE  Asked(i)' \/ InHand(i)'
<1> DEFINE k == Resource(i)
<1>1. k \in Keys /\ k \in Resources /\ server[k] \in Controllers
  BY KeysFacts DEF TypeOK, StoreTypes
<1>2. CASE Crash
  BY <1>2 DEF Crash, Asked
<1>3. CASE DropRequest(i) \/ StartReconcile(i)
  <2>1. CASE ~Current(k)
    BY <1>3, <2>1 DEF DropRequest, StartReconcile, Asked, Current
  <2>2. CASE Current(k)
    <3>1. Cached(k) = server[k]
      BY <2>2 DEF Cached
    <3>2. /\ pc' = "namespace" /\ who' = i /\ inst' = WithDefaults(server[k])
          /\ server' = server
      BY <1>3, <3>1 DEF DropRequest, StartReconcile, NothingToDo
    <3>3. inst'.spec = setDefaultValues(server[k].spec) /\ inst'.deployed = server[k].deployed
      BY <1>1, <3>2, DefaultsTyped
    <3> QED BY <3>2, <3>3 DEF InHand
  <2> QED BY <2>1, <2>2
<1>4. CASE i \in queued /\ ~(DropRequest(i) \/ StartReconcile(i) \/ Crash)
  BY <1>4, QueueKept DEF Asked
<1>5. CASE ~Current(k) /\ ~Crash
  <2>1. CASE ResourceKept(i)
    BY <1>5, <2>1 DEF ResourceKept, Asked, Current
  <2>2. CASE Deliver(k)
    <3>1. Woken(k, Cached(k), NextVersion(k)) = {i}
      BY <1>1, InstancesAssumption DEF Woken, Resource
    <3> QED BY <2>2, <3>1 DEF Deliver, Asked
  <2>3. ASSUME NEW obj, ResourceWritten(i, obj)
        PROVE  Asked(i)'
    <3>1. past'[k] = past[k]
      BY <1>1, <2>3, StoreEffect DEF ResourceWritten
    <3> QED BY <1>5, <3>1 DEF Asked, Current
  <2> QED BY <1>5, <2>1, <2>2, <2>3, ResourceStep
<1> QED BY <1>2, <1>3, <1>4, <1>5 DEF Asked

\* What the work in hand is, seen from the state it ends in.
LEMMA InHandAgain ==
  ASSUME NEW i \in Instances, NEW s \in DefaultedSpecs,
         server'[Resource(i)] = server[Resource(i)], s = setDefaultValues(server[Resource(i)].spec),
         who' = i, pc' \in {"namespace", "addFinalizer", "apply", "writeCRD"}, inst'.spec = s,
         inst'.deployed => server[Resource(i)].deployed,
         pc' \in {"apply", "writeCRD"} =>
           \A k \in ObjectCalls(i, s) : k \in Elements(todo') \/ Made(i, s, k)' \/ Shown(k)'
  PROVE  InHand(i)'
<1>1. ObjectCalls(i, s) = Elements(Calls(i, s)) \ Resources
  BY ObjectCallsFacts
<1> QED BY <1>1 DEF InHand, Made, Shown, Current, Elements

\* The work that is done, likewise.
LEMMA AtRestAgain ==
  ASSUME NEW i \in Instances, NEW s \in DefaultedSpecs,
         server'[Resource(i)] = server[Resource(i)], s = setDefaultValues(server[Resource(i)].spec),
         who' # i, server[Resource(i)].deployed,
         \A k \in ObjectCalls(i, s) : Made(i, s, k)' \/ Shown(k)'
  PROVE  AtRest(i)'
<1>1. ObjectCalls(i, s) = Elements(Calls(i, s)) \ Resources
  BY ObjectCallsFacts
<1> QED BY <1>1 DEF AtRest, Made, Shown, Current

\* Work that is done stays done, or is asked for again.
LEMMA RestKept ==
  ASSUME TypeOK, CallTrust, ObjectTrust, OnePerNamespace, [Next]_vars,
         "deleteBinding" \notin disturbed', NEW i \in Instances,
         server'[Resource(i)] = server[Resource(i)], server[Resource(i)] # Absent,
         ~Asked(i), AtRest(i)
  PROVE  Asked(i)' \/ AtRest(i)'
<1> DEFINE s == setDefaultValues(server[Resource(i)].spec)
<1> SUFFICES ASSUME i \notin queued'
             PROVE  AtRest(i)'
  BY DEF Asked
<1>1. s \in DefaultedSpecs
  BY KeysFacts, DefaultsOfStored DEF TypeOK, StoreTypes, Controllers
<1>2. /\ who # i /\ server[Resource(i)].deployed
      /\ \A k \in ObjectCalls(i, s) : Made(i, s, k) \/ Shown(k)
  BY <1>1, ObjectCallsFacts DEF AtRest
<1>3. who' # i
  BY <1>2, WhoMoves, AbsentAssumption DEF StartReconcile, Asked
<1>4. PICK t \in DefaultedSpecs : t = s
  BY <1>1
<1> HIDE DEF s
<1>5. \A k \in ObjectCalls(i, t) : Made(i, t, k)' \/ Shown(k)'
  BY <1>2, <1>4, SettledStep DEF AtHandler
<1> QED BY <1>2, <1>3, <1>4, <1>5, AtRestAgain DEF s

\* The end of a pass finds all its objects made.
LEMMA StatusComesLast ==
  ASSUME TypeOK, CallTrust, pc = "apply", Head(todo)[1] = "higressController"
  PROVE  Elements(todo) \cap Objects = {}
<1>1. todo \in Seq(Keys) /\ todo # <<>>
  BY DEF TypeOK, PassTypes
<1>2. Len(todo) \in Nat /\ Len(todo) # 0 /\ Head(todo) = todo[1] /\ todo[1] \in Keys
  BY <1>1, EmptySeq, LenProperties, HeadTailProperties, HeadAndTail
<1>3. todo[1] \in Resources
  BY <1>2, KeysFacts DEF Objects
<1>4. 1 \notin 1..(Len(todo) - 1)
  BY <1>3 DEF CallTrust
<1>5. Len(todo) = 1
  <2>1. \A n \in Nat : n # 0 /\ n # 1 => 1 \in 1..(n - 1)
    OBVIOUS
  <2> QED BY <1>2, <1>4, <2>1
<1>6. Elements(todo) = {todo[1]}
  BY <1>5 DEF Elements
<1> QED BY <1>3, <1>6, KeysFacts

\* The work in hand is gone on with, done, or asked for again.
LEMMA HandKept ==
  ASSUME TypeOK, CallTrust, ObjectTrust, GrowTrust, BindingTrust, OnePerNamespace, [Next]_vars,
         disturbed' \cap Unnoticed = {}, NEW i \in Instances,
         server'[Resource(i)] = server[Resource(i)], server[Resource(i)] # Absent,
         ~server[Resource(i)].deleting, i[1] \notin terminating, InHand(i)
  PROVE  Asked(i)' \/ InHand(i)' \/ AtRest(i)'
<1> DEFINE cr == server[Resource(i)]
           s == setDefaultValues(cr.spec)
<1> SUFFICES ASSUME i \notin queued'
             PROVE  InHand(i)' \/ AtRest(i)'
  BY DEF Asked
<1>1. s \in DefaultedSpecs
  BY KeysFacts, DefaultsOfStored DEF TypeOK, StoreTypes, Controllers
<1>2. /\ who = i /\ pc \in {"namespace", "addFinalizer", "apply", "writeCRD"}
      /\ inst.spec = s /\ (inst.deployed => cr.deployed)
      /\ pc \in {"apply", "writeCRD"} =>
           \A k \in ObjectCalls(i, s) : k \in Elements(todo) \/ Made(i, s, k) \/ Shown(k)
  BY <1>1, ObjectCallsFacts DEF InHand
<1>3. PICK t \in DefaultedSpecs : t = s
  BY <1>1
<1>4. /\ disturbed \cap Unnoticed = {} /\ "deleteBinding" \notin disturbed'
      /\ "namespaceError" \notin disturbed'
  BY NoticedBefore
<1>5. ~Over(i) /\ ~AtHandler(i)
  BY <1>2 DEF Over, AtHandler
<1> HIDE DEF s
<1>6. \A k \in ObjectCalls(i, t) : Made(i, t, k) \/ Shown(k) => Made(i, t, k)' \/ Shown(k)'
  BY <1>4, <1>5, SettledStep
<1>7. CASE /\ UNCHANGED <<who, todo, inst>>
           /\ pc' \in {"namespace", "addFinalizer", "apply", "writeCRD"}
           /\ pc' \in {"apply", "writeCRD"} => pc \in {"apply", "writeCRD"}
  <2>1. pc' \in {"apply", "writeCRD"} =>
          \A k \in ObjectCalls(i, t) : k \in Elements(todo') \/ Made(i, t, k)' \/ Shown(k)'
    BY <1>2, <1>3, <1>6, <1>7
  <2>2. who' = i /\ inst'.spec = t /\ (inst'.deployed => cr.deployed)
    BY <1>2, <1>3, <1>7
  <2> QED BY <1>3, <1>7, <2>1, <2>2, InHandAgain DEF s
<1>8. CASE /\ pc' = "apply" /\ todo' = Calls(who, inst.spec) /\ who' = who
           /\ inst'.spec = inst.spec /\ inst'.deployed = inst.deployed
  <2>1. \A k \in ObjectCalls(i, t) : k \in Elements(todo')
    BY <1>2, <1>3, <1>8, CallsFacts
  <2>2. who' = i /\ inst'.spec = t /\ (inst'.deployed => cr.deployed)
    BY <1>2, <1>3, <1>8
  <2> QED BY <1>3, <1>8, <2>1, <2>2, InHandAgain DEF s
<1>9. CASE /\ pc \in {"apply", "writeCRD"} /\ Proceed
           /\ \/ SkipCRD \/ WriteCRD \/ CreateServiceAccount
              \/ \E kind \in {"clusterRole", "clusterRoleBinding", "role", "roleBinding",
                              "deployment", "service"} : CreateOrUpdate(kind)
  <2>1. todo \in Seq(Keys) /\ todo # <<>> /\ todo' = Tail(todo)
    BY <1>9 DEF TypeOK, PassTypes, Proceed
  <2>2. PICK h : h = Head(todo)
    OBVIOUS
  <2>3. \A k \in Elements(todo) : k = h \/ k \in Elements(todo')
    BY <2>1, <2>2, HeadAndTail DEF Elements
  <2>4. Made(i, t, h)' \/ Shown(h)'
    BY <1>2, <1>3, <1>4, <1>5, <1>9, <2>2, CallMakes
  <2>5. ASSUME NEW k \in ObjectCalls(i, t)
        PROVE  k \in Elements(todo') \/ Made(i, t, k)' \/ Shown(k)'
    <3>1. CASE k \in Elements(todo)
      BY <2>3, <2>4, <3>1
    <3>2. CASE k \notin Elements(todo)
      BY <1>2, <1>3, <1>6, <1>9, <3>2
    <3> QED BY <3>1, <3>2
  <2>6. who' = i /\ inst'.spec = t /\ (inst'.deployed => cr.deployed) /\ pc' = "apply"
    BY <1>2, <1>3, <1>9 DEF Proceed
  <2> QED BY <1>3, <2>5, <2>6, InHandAgain DEF s
<1>10. CASE UpdateStatus
  <2>1. pc = "apply" /\ Head(todo)[1] = "higressController" /\ ~Requeue
    BY <1>2, <1>10 DEF UpdateStatus, Calling, Requeue
  <2>2. EndPass /\ who' # i
    BY <1>10, <2>1, AbsentAssumption DEF UpdateStatus, EndPass
  <2>3. cr.deployed
    <3>1. CASE inst.deployed
      BY <1>2, <3>1
    <3>2. CASE ~inst.deployed
      <4>1. Store(Resource(i), [cr EXCEPT !.deployed = TRUE])
        BY <1>2, <1>10, <2>1, <3>2 DEF UpdateStatus
      <4>2. cr = [cr EXCEPT !.deployed = TRUE]
        BY <4>1, StoreEffect, KeysFacts
      <4>3. cr \in Controllers
        BY KeysFacts DEF TypeOK, StoreTypes
      <4> QED BY <4>2, <4>3 DEF Controllers
    <3> QED BY <3>1, <3>2
  <2>4. ASSUME NEW k \in ObjectCalls(i, t)
        PROVE  Made(i, t, k)' \/ Shown(k)'
    <3>1. k \notin Elements(todo)
      BY <2>1, <2>4, StatusComesLast, ObjectCallsFacts
    <3> QED BY <1>2, <1>3, <1>6, <2>1, <3>1
  <2> QED BY <1>3, <2>2, <2>3, <2>4, AtRestAgain DEF s
<1>11. ~Requeue /\ ~Crash /\ ~ApiError /\ ~NamespaceError /\ ~NamespaceTerminating
  BY <1>2, <1>4 DEF Requeue, Crash, ApiError, NamespaceError, Disturb, NamespaceTerminating
<1>12. CASE Worker
  <2>1. ~\E j \in Instances : DropRequest(j) \/ StartReconcile(j)
    BY <1>2 DEF DropRequest, StartReconcile
  <2>2. ~(FinalizeBinding \/ RemoveFinalizer)
    BY <1>2 DEF FinalizeBinding, RemoveFinalizer
  <2>3. CASE CheckNamespace
    BY <1>7, <1>8, <2>3 DEF CheckNamespace, BeginCalls
  <2>4. CASE AddFinalizer
    <3> DEFINE written == [inst EXCEPT !.finalizer = TRUE]
    <3>1. inst' = written /\ BeginCalls /\ who' = who
      BY <1>11, <2>4 DEF AddFinalizer
    <3>2. inst \in Controllers
      BY <1>2, CopyOfPass
    <3>3. written.spec = inst.spec /\ written.deployed = inst.deployed
      BY <3>2 DEF Controllers
    <3> HIDE DEF written
    <3> QED BY <1>8, <3>1, <3>3 DEF BeginCalls
  <2>5. CASE GetCRD
    BY <1>7, <2>5 DEF GetCRD, Calling
  <2>6. CASE SkipCRD \/ WriteCRD
    BY <1>9, <1>11, <2>6 DEF SkipCRD, WriteCRD
  <2>7. CASE CreateServiceAccount
    BY <1>9, <1>11, <2>7 DEF CreateServiceAccount, Calling
  <2>8. CASE \E kind \in {"clusterRole", "clusterRoleBinding", "role", "roleBinding",
                          "deployment", "service"} : CreateOrUpdate(kind)
    BY <1>9, <1>11, <2>8 DEF CreateOrUpdate, Calling
  <2> QED BY <1>10, <1>11, <1>12, <2>1, <2>2, <2>3, <2>4, <2>5, <2>6, <2>7, <2>8 DEF Worker
<1>13. CASE Environment
  <2>1. UNCHANGED <<pc, who, todo, inst>>
    BY <1>11, <1>13 DEF Environment, Deliver, Create, Edit, Delete, WriteResource, Terminate,
       CollectGarbage, InstallCRD, DeleteBinding, pass
  <2> QED BY <1>2, <1>7, <2>1
<1>14. CASE UNCHANGED vars
  BY <1>2, <1>7, <1>14 DEF vars, pass
<1> QED BY <1>12, <1>13, <1>14 DEF Next

\* Every step keeps every living resource asked for, worked on or at rest.
LEMMA NoWorkIsLostStep ==
  ASSUME TypeOK, FinalizerProtocol, WorkProtocol, [Next]_vars
  PROVE  NoWorkIsLost'
<1> SUFFICES ASSUME OnePerNamespace, disturbed' \cap Unnoticed = {}, NEW i \in Instances,
                    server'[Resource(i)] # Absent, ~server'[Resource(i)].deleting,
                    i[1] \notin terminating'
             PROVE  Asked(i)' \/ InHand(i)' \/ AtRest(i)'
  BY DEF NoWorkIsLost, Living
<1>1. CallTrust /\ ObjectTrust /\ GrowTrust /\ BindingTrust /\ NoWorkIsLost
  BY DEF WorkProtocol
<1>2. CASE server'[Resource(i)] # server[Resource(i)]
  <2>1. ~(ResourceKept(i) \/ Crash \/ Deliver(Resource(i)))
    BY <1>2 DEF ResourceKept, Crash, Relist, Deliver, Advance
  <2>2. PICK obj : Store(Resource(i), obj)
    BY <2>1, ResourceStep DEF ResourceWritten
  <2>3. obj # server[Resource(i)]
    BY <1>2, <2>2, StoreEffect, KeysFacts
  <2> QED BY <2>2, <2>3, WriteRequests DEF Asked, Current
<1>3. CASE server'[Resource(i)] = server[Resource(i)]
  <2>1. /\ server[Resource(i)] # Absent /\ ~server[Resource(i)].deleting
        /\ i[1] \notin terminating
    BY <1>3, DisturbedGrows
  <2>2. disturbed \cap Unnoticed = {} /\ "deleteBinding" \notin disturbed'
    BY NoticedBefore
  <2>3. Asked(i) \/ InHand(i) \/ AtRest(i)
    BY <1>1, <2>1, <2>2 DEF NoWorkIsLost, Living
  <2>4. CASE Asked(i)
    BY <1>3, <2>1, <2>4, RequestWorks
  <2>5. CASE InHand(i)
    BY <1>1, <1>3, <2>1, <2>5, HandKept
  <2>6. CASE AtRest(i) /\ ~Asked(i)
    BY <1>1, <1>3, <2>1, <2>2, <2>6, RestKept
  <2> QED BY <2>3, <2>4, <2>5, <2>6
<1> QED BY <1>2, <1>3

---------------------------------------------------------------------------
(* Together. *)

\* At the start no resource exists, and no work with it.
LEMMA InitWork ==
  ASSUME Init
  PROVE  WorkProtocol
<1>1. \A k \in Keys : server[k] = Absent /\ past[k] = <<>>
  BY DEF Init
<1>2. \A k \in Objects : server[k] = Absent /\ past[k] = <<>>
  BY <1>1, KeysFacts
<1>3. \A i \in Instances : server[Resource(i)] = Absent /\ past[Resource(i)] = <<>>
  BY <1>1, KeysFacts
<1>4. Len(<<>>) = 0 /\ 1..0 = {}
  OBVIOUS
<1>5. ObjectTrust
  BY <1>2, <1>4 DEF ObjectTrust, WellMade, Current
<1>6. GrowTrust /\ CallTrust
  BY <1>2, <1>4 DEF Init, GrowTrust, CallTrust
<1>7. DeletionTrust
  BY <1>3, <1>4 DEF Init, DeletionTrust, AtHandler
<1>8. BindingTrust
  BY <1>2, <1>4, KeysFacts DEF BindingTrust
<1>9. NoWorkIsLost
  BY <1>3 DEF NoWorkIsLost, Living
<1> QED BY <1>5, <1>6, <1>7, <1>8, <1>9 DEF WorkProtocol

\* Every step keeps all of WorkProtocol.
LEMMA WorkStep ==
  ASSUME TypeOK, FinalizerProtocol, WorkProtocol, [Next]_vars
  PROVE  WorkProtocol'
<1>1. CallTrust /\ ObjectTrust /\ GrowTrust /\ DeletionTrust /\ BindingTrust
  BY DEF WorkProtocol
<1>2. ObjectTrust' /\ GrowTrust' /\ CallTrust'
  BY <1>1, ObjectTrustStep, GrowTrustStep, CallTrustStep
<1>3. DeletionTrust' /\ BindingTrust'
  BY <1>1, DeletionTrustStep, BindingTrustStep
<1> QED BY <1>2, <1>3, NoWorkIsLostStep DEF WorkProtocol

\* An object is missing or stale only while a request, a pass or an event that
\* will ask for one knows of it: Reconcile, with its error returns, the event
\* handlers of SetupWithManager and createOrUpdate, lets no work go.
THEOREM WorkIsKept == Safety => []WorkProtocol
<1>1. Init => WorkProtocol
  BY InitWork
<1>2. TypeOK /\ FinalizerProtocol /\ WorkProtocol /\ [Next]_vars => WorkProtocol'
  BY WorkStep
<1> QED BY <1>1, <1>2, TypeCorrect, ProtocolHolds, PTL DEF Safety

\* At rest no resource is asked for and none is in hand: every living one has what
\* it asks for, with one resource in each namespace.
THEOREM RestIsConverged ==
  ASSUME OnePerNamespace
  PROVE  Safety => []AtRestConverged
<1>1. TypeOK /\ WorkProtocol => AtRestConverged
  <2> SUFFICES ASSUME TypeOK, WorkProtocol, Quiescent, disturbed \cap Unnoticed = {},
                      NEW i \in Instances, Living(i)
               PROVE  Converged(i)
    BY DEF AtRestConverged
  <2>1. pc = "idle" /\ ~Asked(i) /\ \A k \in Keys : ~Shown(k)
    BY KeysFacts DEF Quiescent, Asked, Shown
  <2>2. AtRest(i)
    BY <2>1 DEF WorkProtocol, NoWorkIsLost, InHand
  <2>3. setDefaultValues(server[Resource(i)].spec) \in DefaultedSpecs
    BY KeysFacts, DefaultsOfStored DEF TypeOK, StoreTypes, Controllers, Living
  <2>4. \A k \in Elements(Calls(i, setDefaultValues(server[Resource(i)].spec))) : k \in Keys
    BY <2>3, PassKeys
  <2> QED BY <2>1, <2>2, <2>4 DEF AtRest, Converged
<1> QED BY <1>1, TypeCorrect, WorkIsKept, PTL
=============================================================================
