----------------------- MODULE ControllerFinalizerProofs -----------------------
(***************************************************************************)
(* FinalizerProtocol of ControllerProperties is inductive, together with   *)
(* the types; what follows from it for the grants several resources share, *)
(* and why no deletion is left half done.                                  *)
(***************************************************************************)
EXTENDS ControllerProofs

---------------------------------------------------------------------------
(* What a step does to the resources' versions. *)

\* The resource's versions stay.
ResourceKept(i) ==
  /\ server'[Resource(i)] = server[Resource(i)] /\ past'[Resource(i)] = past[Resource(i)]
\* No binding gets a subject.
NothingGranted ==
  \A k \in Bindings : SubjectsOf(server'[k]) \subseteq SubjectsOf(server[k])
\* The pass stays where it is; its copy may stop being current.
PassKept == UNCHANGED <<pc, who, inst>> /\ (instCurrent' => instCurrent)

\* A write of an object is no write of a resource.
LEMMA PutObjectEffect ==
  ASSUME TypeOK, NEW k \in Objects, NEW obj, Put(k, obj)
  PROVE  /\ \A i \in Instances : ResourceKept(i)
         /\ server'[k] = obj
         /\ \A j \in Keys : j # k => server'[j] = server[j]
<1>1. k \in Keys /\ \A i \in Instances : Resource(i) \in Keys /\ Resource(i) # k
  BY KeysFacts
<1> QED BY <1>1 DEF TypeOK, StoreTypes, Put, ResourceKept

\* A write of a resource is no write of another one or of an object, and adds at
\* most the version it replaces to the informer's.
LEMMA PutResourceEffect ==
  ASSUME TypeOK, NEW i \in Instances, NEW obj, Put(Resource(i), obj)
  PROVE  /\ \A j \in Instances : j # i => ResourceKept(j)
         /\ server'[Resource(i)] = obj
         /\ \A k \in Objects : server'[k] = server[k]
         /\ \A n \in 1..Len(past'[Resource(i)]) :
              \/ past'[Resource(i)][n] = server[Resource(i)]
              \/ \E m \in 1..Len(past[Resource(i)]) :
                   past'[Resource(i)][n] = past[Resource(i)][m]
         /\ Current(Resource(i)) =>
              \A n \in 1..Len(past'[Resource(i)]) :
                past'[Resource(i)][n] = server[Resource(i)]
<1> DEFINE k == Resource(i)
<1>1. k \in Keys /\ \A j \in Instances : j # i => Resource(j) \in Keys /\ Resource(j) # k
  BY KeysFacts
<1>2. \A o \in Objects : o \in Keys /\ o # k
  BY KeysFacts
<1> HIDE DEF k
<1>3. Put(k, obj)
  BY DEF k
<1>4. server'[k] = obj /\ \A o \in Objects : server'[o] = server[o]
  BY <1>1, <1>2, <1>3 DEF TypeOK, StoreTypes, Put
<1>5. \A j \in Instances : j # i => ResourceKept(j)
  BY <1>1, <1>3 DEF TypeOK, StoreTypes, Put, ResourceKept
<1>6. past[k] \in Seq(AnyVersion) /\ server[k] \in AnyVersion
  BY <1>1 DEF TypeOK, StoreTypes
<1>7. past'[k] = past[k] \/ past'[k] = Append(past[k], server[k])
  BY <1>1, <1>3 DEF TypeOK, StoreTypes, Put
<1>8. /\ \A n \in 1..Len(past'[k]) :
           past'[k][n] = server[k] \/ \E m \in 1..Len(past[k]) : past'[k][n] = past[k][m]
      /\ past[k] = <<>> => \A n \in 1..Len(past'[k]) : past'[k][n] = server[k]
  <2>1. CASE past'[k] = past[k]
    BY <1>6, <2>1
  <2>2. CASE past'[k] = Append(past[k], server[k])
    BY <1>6, <2>2
  <2> QED BY <1>7, <2>1, <2>2
<1> QED BY <1>4, <1>5, <1>8 DEF k, Current

\* An informer that moves on shows fewer versions.
LEMMA AdvanceEffect ==
  ASSUME TypeOK, NEW k \in Keys, Advance(k)
  PROVE  /\ server' = server
         /\ \A j \in Keys : j # k => past'[j] = past[j]
         /\ past[k] # <<>>
         /\ \A n \in 1..Len(past'[k]) : \E m \in 1..Len(past[k]) : past'[k][n] = past[k][m]
<1>1. past[k] \in Seq(AnyVersion) /\ past[k] # <<>> /\ past'[k] = Tail(past[k])
  BY DEF TypeOK, StoreTypes, Advance, Current
<1>2. \A n \in 1..Len(Tail(past[k])) : \E m \in 1..Len(past[k]) : Tail(past[k])[n] = past[k][m]
  BY <1>1, HeadAndTail
<1> QED BY <1>1, <1>2 DEF TypeOK, StoreTypes, Advance

---------------------------------------------------------------------------
(* Steps that leave the resources alone. *)

\* The informers' versions of kept resources are as good as before.
LEMMA TrustKept ==
  ASSUME InformerTrust, \A i \in Instances : ResourceKept(i)
  PROVE  InformerTrust' /\ \A i \in Instances : \A u : Protected(i, u)' <=> Protected(i, u)
BY DEF InformerTrust, ResourceKept, Protected, Kept

\* A pass that has ended promises nothing.
LEMMA EndedPass ==
  ASSUME EndPass
  PROVE  PassTrust' /\ CopyTrust' /\ PassStage' /\ RevokedFirst'
BY DEF EndPass, PassTrust, CopyTrust, PassStage, RevokedFirst

\* The pass ends.
LEMMA EndStep ==
  ASSUME FinalizerProtocol, \A i \in Instances : ResourceKept(i), EndPass
  PROVE  FinalizerProtocol'
BY TrustKept, EndedPass DEF FinalizerProtocol

\* The handler's revocation holds as long as nobody grants.
LEMMA RevocationKept ==
  ASSUME TypeOK, RevokedFirst, NothingGranted, UNCHANGED <<pc, who, inst>>
  PROVE  RevokedFirst'
<1> SUFFICES ASSUME pc = "removeFinalizer", GrantsRbac(inst.spec)
             PROVE  SubjectOf(who, inst.spec) \notin SubjectsOf(server'[Binding(who, inst.spec)])
  BY DEF RevokedFirst, SubjectsOf
<1>1. Binding(who, inst.spec) \in Bindings
  BY CopyOfPass, PassKeys
<1>2. SubjectOf(who, inst.spec) \notin SubjectsOf(server[Binding(who, inst.spec)])
  BY DEF RevokedFirst
<1> QED BY <1>1, <1>2 DEF NothingGranted

\* Others write objects, or nobody writes.
LEMMA QuietStep ==
  ASSUME TypeOK, FinalizerProtocol, \A i \in Instances : ResourceKept(i), PassKept,
         NothingGranted
  PROVE  FinalizerProtocol'
<1>1. InformerTrust' /\ \A i \in Instances : \A u : Protected(i, u)' <=> Protected(i, u)
  BY TrustKept DEF FinalizerProtocol
<1>2. pc # "idle" => who \in Instances
  BY CopyOfPass
<1>3. PassTrust'
  BY <1>1, <1>2 DEF FinalizerProtocol, PassTrust, PassKept
<1>4. CopyTrust'
  BY <1>2 DEF FinalizerProtocol, CopyTrust, PassKept, ResourceKept, Current
<1>5. PassStage'
  BY DEF FinalizerProtocol, PassStage, PassKept
<1>6. RevokedFirst'
  BY RevocationKept DEF FinalizerProtocol, PassKept
<1> QED BY <1>1, <1>3, <1>4, <1>5, <1>6 DEF FinalizerProtocol

\* The pass goes on with its calls.
LEMMA CallStep ==
  ASSUME TypeOK, FinalizerProtocol, \A i \in Instances : ResourceKept(i),
         pc \in {"apply", "writeCRD"}, pc' \in {"apply", "writeCRD"},
         UNCHANGED <<who, inst, instCurrent>>
  PROVE  FinalizerProtocol'
<1>1. InformerTrust' /\ \A i \in Instances : \A u : Protected(i, u)' <=> Protected(i, u)
  BY TrustKept DEF FinalizerProtocol
<1>2. who \in Instances
  BY CopyOfPass
<1>3. PassTrust'
  BY <1>1, <1>2 DEF FinalizerProtocol, PassTrust
<1>4. CopyTrust'
  BY <1>2 DEF FinalizerProtocol, CopyTrust, ResourceKept
<1>5. PassStage' /\ RevokedFirst'
  BY DEF FinalizerProtocol, PassStage, RevokedFirst
<1> QED BY <1>1, <1>3, <1>4, <1>5 DEF FinalizerProtocol
---------------------------------------------------------------------------
(* Steps that write a resource. *)

\* A write of one resource neither grants nor touches what is said of the others.
LEMMA WriteSpares ==
  ASSUME TypeOK, NEW i \in Instances, NEW obj, Put(Resource(i), obj)
  PROVE  /\ NothingGranted
         /\ \A j \in Instances : \A u : j # i => (Protected(j, u)' <=> Protected(j, u))
         /\ \A u : Protected(i, u)' <=> (obj # Absent /\ obj.finalizer /\ obj.uid = u)
<1>1. \A k \in Bindings : server'[k] = server[k]
  BY PutResourceEffect, KeysFacts
<1> QED BY <1>1, PutResourceEffect DEF NothingGranted, SubjectsOf, Protected, ResourceKept

\* What it takes for the informers to be trusted after it.
LEMMA WriteTrust ==
  ASSUME TypeOK, InformerTrust, NEW i \in Instances, NEW obj, Put(Resource(i), obj),
         obj # Absent /\ obj.deleting => obj.finalizer,
         \A n \in 1..Len(past'[Resource(i)]) :
           Kept(past'[Resource(i)][n]) =>
             obj # Absent /\ obj.finalizer /\ obj.uid = past'[Resource(i)][n].uid
  PROVE  InformerTrust'
<1> SUFFICES ASSUME NEW j \in Instances
             PROVE  /\ \A n \in 1..Len(past'[Resource(j)]) :
                         Kept(past'[Resource(j)][n]) =>
                           /\ server'[Resource(j)] # Absent /\ server'[Resource(j)].finalizer
                           /\ server'[Resource(j)].uid = past'[Resource(j)][n].uid
                    /\ server'[Resource(j)] # Absent /\ server'[Resource(j)].deleting
                         => server'[Resource(j)].finalizer
  BY DEF InformerTrust, Kept, Protected
<1>1. CASE j = i
  BY <1>1, PutResourceEffect
<1>2. CASE j # i
  BY <1>2, PutResourceEffect DEF InformerTrust, ResourceKept, Protected, Kept
<1> QED BY <1>1, <1>2

\* Somebody writes a resource, keeping its identity and its finalizer.
LEMMA SameResourceTrust ==
  ASSUME TypeOK, FinalizerProtocol, NEW i \in Instances, NEW obj, Put(Resource(i), obj),
         server[Resource(i)] # Absent, obj # Absent, obj.uid = server[Resource(i)].uid,
         obj.finalizer = server[Resource(i)].finalizer, obj.deleting => obj.finalizer
  PROVE  InformerTrust' /\ \A j \in Instances : \A u : Protected(j, u)' <=> Protected(j, u)
<1>1. \A j \in Instances : \A u : Protected(j, u)' <=> Protected(j, u)
  BY WriteSpares DEF Protected
<1>2. ASSUME NEW n \in 1..Len(past'[Resource(i)]), Kept(past'[Resource(i)][n])
      PROVE  Protected(i, past'[Resource(i)][n].uid)
  <2>1. CASE past'[Resource(i)][n] = server[Resource(i)]
    BY <1>2, <2>1 DEF Kept, Protected
  <2>2. CASE \E m \in 1..Len(past[Resource(i)]) : past'[Resource(i)][n] = past[Resource(i)][m]
    BY <1>2, <2>2 DEF FinalizerProtocol, InformerTrust
  <2> QED BY <2>1, <2>2, PutResourceEffect
<1>3. \A n \in 1..Len(past'[Resource(i)]) :
        Kept(past'[Resource(i)][n]) =>
          obj # Absent /\ obj.finalizer /\ obj.uid = past'[Resource(i)][n].uid
  BY <1>2 DEF Protected
<1> QED BY <1>1, <1>3, WriteTrust DEF FinalizerProtocol

\* Somebody creates or removes a resource that no finalizer protects.
LEMMA UnprotectedTrust ==
  ASSUME TypeOK, FinalizerProtocol, NEW i \in Instances, NEW obj, Put(Resource(i), obj),
         server[Resource(i)] # Absent => ~server[Resource(i)].finalizer,
         obj # Absent => ~obj.deleting
  PROVE  InformerTrust'
<1>1. \A u : ~Protected(i, u)
  BY DEF Protected
<1>2. ASSUME NEW n \in 1..Len(past'[Resource(i)])
      PROVE  ~Kept(past'[Resource(i)][n])
  <2>1. CASE past'[Resource(i)][n] = server[Resource(i)]
    BY <2>1 DEF Kept
  <2>2. CASE \E m \in 1..Len(past[Resource(i)]) : past'[Resource(i)][n] = past[Resource(i)][m]
    BY <1>1, <2>2 DEF FinalizerProtocol, InformerTrust
  <2> QED BY <2>1, <2>2, PutResourceEffect
<1> QED BY <1>2, WriteTrust DEF FinalizerProtocol

\* The user writes a resource while a pass is under way.
LEMMA UserStep ==
  ASSUME TypeOK, FinalizerProtocol, NEW i \in Instances, NEW obj, WriteResource(i, obj),
         InformerTrust', \A u : pc # "idle" /\ i = who /\ Protected(i, u) => Protected(i, u)'
  PROVE  FinalizerProtocol'
<1>1. /\ Put(Resource(i), obj) /\ UNCHANGED <<pc, who, inst>>
      /\ instCurrent' => instCurrent /\ i # who
  BY DEF WriteResource, Store
<1>2. NothingGranted /\ \A j \in Instances : \A u : j # i => (Protected(j, u)' <=> Protected(j, u))
  BY <1>1, WriteSpares
<1>3. pc # "idle" => who \in Instances
  BY CopyOfPass
<1>4. PassTrust'
  BY <1>1, <1>2, <1>3 DEF FinalizerProtocol, PassTrust
<1>5. CopyTrust'
  BY <1>1, <1>3, PutResourceEffect DEF FinalizerProtocol, CopyTrust, ResourceKept, Current
<1>6. PassStage'
  BY <1>1 DEF FinalizerProtocol, PassStage
<1>7. RevokedFirst'
  BY <1>1, <1>2, RevocationKept DEF FinalizerProtocol
<1> QED BY <1>4, <1>5, <1>6, <1>7 DEF FinalizerProtocol

\* Everything the user does to a resource.
LEMMA UserKeepsProtocol ==
  ASSUME TypeOK, FinalizerProtocol, NEW i \in Instances,
         \/ \E spec \in CreatedSpecs : Create(i, spec)
         \/ \E spec \in Specs : Edit(i, spec)
         \/ Delete(i)
  PROVE  FinalizerProtocol'
<1> DEFINE cr == server[Resource(i)]
<1>1. cr \in {Absent} \cup Controllers
  BY KeysFacts DEF TypeOK, StoreTypes
<1>2. cr # Absent /\ cr.deleting => cr.finalizer
  BY DEF FinalizerProtocol, InformerTrust
<1>3. ASSUME NEW obj, WriteResource(i, obj), cr # Absent, obj # Absent, obj.uid = cr.uid,
             obj.finalizer = cr.finalizer, obj.deleting => obj.finalizer
      PROVE  FinalizerProtocol'
  <2>1. Put(Resource(i), obj)
    BY <1>3 DEF WriteResource, Store
  <2>2. InformerTrust' /\ \A u : Protected(i, u)' <=> Protected(i, u)
    BY <1>3, <2>1, SameResourceTrust
  <2> QED BY <1>3, <2>2, UserStep
<1>4. ASSUME NEW obj, WriteResource(i, obj), cr # Absent => ~cr.finalizer,
             obj # Absent => ~obj.deleting
      PROVE  FinalizerProtocol'
  <2>1. Put(Resource(i), obj)
    BY <1>4 DEF WriteResource, Store
  <2>2. InformerTrust' /\ \A u : ~Protected(i, u)
    BY <1>4, <2>1, UnprotectedTrust DEF Protected
  <2> QED BY <1>4, <2>2, UserStep
<1> HIDE DEF cr
<1>5. ASSUME NEW spec \in CreatedSpecs, Create(i, spec)
      PROVE  FinalizerProtocol'
  <2> DEFINE new == [uid |-> lastUid[i] + 1, spec |-> spec, finalizer |-> FALSE,
                     deleting |-> FALSE, deployed |-> FALSE]
  <2>1. cr = Absent /\ WriteResource(i, new) /\ ~new.deleting
    BY <1>5 DEF Create, cr
  <2> HIDE DEF new
  <2> QED BY <1>4, <2>1
<1>6. ASSUME NEW spec \in Specs, Edit(i, spec)
      PROVE  FinalizerProtocol'
  <2> DEFINE new == [cr EXCEPT !.spec = spec]
  <2>1. cr # Absent /\ WriteResource(i, new)
    BY <1>6 DEF Edit, cr
  <2>2. /\ new.uid = cr.uid /\ new.finalizer = cr.finalizer /\ new.deleting = cr.deleting
        /\ new \in Controllers
    BY <1>1, <2>1 DEF Controllers
  <2> HIDE DEF new
  <2>3. new # Absent
    BY <2>2, AbsentAssumption
  <2> QED BY <1>2, <1>3, <2>1, <2>2, <2>3
<1>7. ASSUME Delete(i)
      PROVE  FinalizerProtocol'
  <2>1. CASE ~cr.finalizer
    BY <1>4, <1>7, <2>1 DEF Delete, cr
  <2>2. CASE cr.finalizer
    <3> DEFINE new == [cr EXCEPT !.deleting = TRUE]
    <3>1. cr # Absent /\ WriteResource(i, new)
      BY <1>7, <2>2 DEF Delete, cr
    <3>2. new.uid = cr.uid /\ new.finalizer = cr.finalizer /\ new \in Controllers
      BY <1>1, <3>1 DEF Controllers
    <3> HIDE DEF new
    <3>3. new # Absent
      BY <3>2, AbsentAssumption
    <3> QED BY <1>3, <2>2, <3>1, <3>2, <3>3
  <2> QED BY <2>1, <2>2
<1> QED BY <1>5, <1>6, <1>7
---------------------------------------------------------------------------
(* The actions of a pass. *)

\* A step that writes nothing keeps every version.
LEMMA NoWriteEffect ==
  ASSUME UNCHANGED <<server, past>>
  PROVE  (\A i \in Instances : ResourceKept(i)) /\ NothingGranted
BY DEF ResourceKept, NothingGranted, SubjectsOf

\* Reconcile returns an error.
LEMMA RequeueStep ==
  ASSUME FinalizerProtocol, Requeue
  PROVE  FinalizerProtocol'
BY NoWriteEffect, EndStep DEF Requeue

\* A pass may start on whatever the cache shows.
LEMMA StartStep ==
  ASSUME TypeOK, FinalizerProtocol, NEW i \in Instances, StartReconcile(i)
  PROVE  FinalizerProtocol'
<1> DEFINE k == Resource(i)
           cr == Cached(k)
<1>1. /\ cr # Absent /\ ~(cr.deleting /\ ~cr.finalizer)
      /\ pc' = IF cr.deleting THEN "finalize" ELSE "namespace"
      /\ who' = i /\ inst' = WithDefaults(cr) /\ instCurrent' = Current(k)
      /\ UNCHANGED <<server, past>>
  BY DEF StartReconcile, NothingToDo
<1>2. cr \in Controllers
  BY <1>1, CachedTyped, KeysFacts DEF TypeOK
<1>3. inst'.uid = cr.uid /\ inst'.finalizer = cr.finalizer /\ inst'.deleting = cr.deleting
  BY <1>1, <1>2, DefaultsTyped
<1>4. cr.finalizer \in BOOLEAN /\ cr.deleting \in BOOLEAN
  BY <1>2 DEF Controllers
<1>5. InformerTrust' /\ \A j \in Instances : \A u : Protected(j, u)' <=> Protected(j, u)
  BY <1>1, NoWriteEffect, TrustKept DEF FinalizerProtocol
<1>6. Kept(cr) => Protected(i, cr.uid)
  <2>1. CASE Current(k)
    BY <2>1 DEF Cached, Kept, Protected
  <2>2. CASE ~Current(k)
    <3>1. past[k] \in Seq(AnyVersion) /\ past[k] # <<>>
      BY <2>2, KeysFacts DEF TypeOK, StoreTypes, Current
    <3>2. 1 \in 1..Len(past[k]) /\ cr = past[k][1]
      BY <2>2, <3>1 DEF Cached
    <3> QED BY <3>2 DEF FinalizerProtocol, InformerTrust
  <2> QED BY <2>1, <2>2
<1> HIDE DEF cr, k
<1>7. PassTrust' /\ PassStage' /\ RevokedFirst'
  <2>1. ASSUME inst'.finalizer, pc' # "finalize"
        PROVE  /\ server'[Resource(who')] # Absent /\ server'[Resource(who')].finalizer
               /\ server'[Resource(who')].uid = inst'.uid
    <3>1. Protected(i, cr.uid)
      BY <1>1, <1>3, <1>6, <2>1 DEF Kept
    <3> QED BY <1>1, <1>3, <3>1 DEF Protected
  <2>2. PassTrust'
    BY <1>1, <2>1 DEF PassTrust, Protected
  <2> QED BY <1>1, <1>3, <1>4, <2>2 DEF PassStage, RevokedFirst
<1>8. CopyTrust'
  <2>1. Current(k) => cr = server[k]
    BY DEF cr, Cached
  <2>2. ASSUME instCurrent'
        PROVE  /\ server'[Resource(who')] # Absent
               /\ inst' = WithDefaults(server'[Resource(who')])
               /\ past'[Resource(who')] = <<>>
    BY <1>1, <2>1, <2>2 DEF k, Current
  <2> QED BY <2>2 DEF CopyTrust, Current, WithDefaults
<1> QED BY <1>5, <1>7, <1>8 DEF FinalizerProtocol

\* The handler's first write takes the subject out, or the pass ends.
LEMMA FinalizeStep ==
  ASSUME TypeOK, FinalizerProtocol, FinalizeBinding
  PROVE  FinalizerProtocol'
<1> DEFINE k == Binding(who, inst.spec)
           crb == Cached(k)
           subject == SubjectOf(who, inst.spec)
           new == [crb EXCEPT !.subjects = WithoutSubject(@, subject)]
<1>1. pc = "finalize" /\ who \in Instances /\ inst.spec \in DefaultedSpecs
  BY CopyOfPass DEF FinalizeBinding
<1>2. CASE Requeue
  BY <1>2, RequeueStep
<1>3. ASSUME \A i \in Instances : ResourceKept(i), Goto("removeFinalizer"), RevokedFirst'
      PROVE  FinalizerProtocol'
  <2>1. pc' = "removeFinalizer" /\ UNCHANGED <<who, inst, instCurrent>>
    BY <1>3 DEF Goto
  <2>2. InformerTrust'
    BY <1>3, TrustKept DEF FinalizerProtocol
  <2>3. PassTrust' /\ PassStage'
    BY <1>1, <2>1 DEF FinalizerProtocol, PassTrust, PassStage
  <2>4. CopyTrust'
    BY <1>1, <1>3, <2>1 DEF FinalizerProtocol, CopyTrust, ResourceKept, Current
  <2> QED BY <1>3, <2>2, <2>3, <2>4 DEF FinalizerProtocol
<1>4. CASE ~GrantsRbac(inst.spec) /\ Goto("removeFinalizer") /\ NoWrite
  BY <1>3, <1>4, NoWriteEffect DEF NoWrite, Goto, RevokedFirst
<1>5. CASE /\ GrantsRbac(inst.spec) /\ crb # Absent
           /\ Store(k, new) /\ Goto("removeFinalizer")
  <2>1. k \in Objects /\ k \in Keys
    BY <1>1, <1>5, PassKeys, KeysFacts
  <2>2. crb \in Managed
    BY <1>5, <2>1, CachedTyped, KeysFacts DEF TypeOK
  <2>3. new \in Managed /\ subject \notin new.subjects
    <3>1. new.subjects = WithoutSubject(crb.subjects, subject)
      BY <2>2 DEF Managed
    <3> QED BY <2>2, <3>1, WithoutSubjectTyped DEF WithoutSubject
  <2>4. Put(k, new) /\ UNCHANGED <<who, inst>>
    BY <1>5 DEF Store, Goto
  <2> HIDE DEF new
  <2>5. (\A i \in Instances : ResourceKept(i)) /\ server'[k] = new
    BY <2>1, <2>4, PutObjectEffect
  <2>6. SubjectOf(who, inst.spec) \notin SubjectsOf(server'[Binding(who, inst.spec)])
    BY <2>3, <2>5, AbsentAssumption DEF SubjectsOf
  <2>7. RevokedFirst'
    BY <2>4, <2>6 DEF RevokedFirst, SubjectsOf
  <2> QED BY <1>3, <1>5, <2>5, <2>7
<1> QED BY <1>2, <1>4, <1>5 DEF FinalizeBinding

\* The resource that goes is the one the pass was for, and it was not kept.
LEMMA RemoveStep ==
  ASSUME TypeOK, FinalizerProtocol, RemoveFinalizer
  PROVE  FinalizerProtocol'
<1> DEFINE k == Resource(who)
<1>1. pc = "removeFinalizer" /\ who \in Instances
  BY CopyOfPass DEF RemoveFinalizer
<1>2. CASE Requeue
  BY <1>2, RequeueStep
<1>3. CASE instCurrent /\ Store(k, Absent) /\ EndPass
  <2>1. /\ server[k] # Absent /\ inst = WithDefaults(server[k]) /\ Current(k)
        /\ inst.deleting /\ Put(k, Absent)
    BY <1>1, <1>3 DEF FinalizerProtocol, CopyTrust, PassStage, Store
  <2>2. server[k] \in Controllers
    BY <1>1, <2>1, KeysFacts DEF TypeOK, StoreTypes
  <2>3. server[k].deleting
    BY <2>1, <2>2, DefaultsTyped
  <2>4. \A n \in 1..Len(past'[k]) : ~Kept(past'[k][n])
    BY <1>1, <2>1, <2>3, PutResourceEffect DEF Kept
  <2>5. InformerTrust'
    BY <1>1, <2>1, <2>4, WriteTrust DEF FinalizerProtocol
  <2> QED BY <1>3, <2>5, EndedPass DEF FinalizerProtocol
<1> QED BY <1>2, <1>3 DEF RemoveFinalizer

\* The Namespace is checked: a pass that skips the next write has seen the
\* finalizer.
LEMMA NamespaceStep ==
  ASSUME TypeOK, FinalizerProtocol, CheckNamespace \/ NamespaceTerminating
  PROVE  FinalizerProtocol'
<1>1. \A i \in Instances : ResourceKept(i)
  BY NoWriteEffect DEF CheckNamespace, NamespaceTerminating, NoWrite
<1>2. CASE NamespaceTerminating
  BY <1>1, <1>2, EndStep DEF NamespaceTerminating
<1>3. CASE CheckNamespace
  <2>1. pc = "namespace" /\ who \in Instances /\ UNCHANGED <<who, inst, instCurrent>>
    BY <1>3, CopyOfPass DEF CheckNamespace
  <2>2. (inst.finalizer /\ pc' = "apply") \/ pc' = "addFinalizer"
    BY <1>3 DEF CheckNamespace, BeginCalls
  <2>3. InformerTrust' /\ \A i \in Instances : \A u : Protected(i, u)' <=> Protected(i, u)
    BY <1>1, TrustKept DEF FinalizerProtocol
  <2>4. PassTrust'
    BY <2>1, <2>2, <2>3 DEF FinalizerProtocol, PassTrust
  <2>5. CopyTrust'
    BY <1>1, <2>1, <2>2 DEF FinalizerProtocol, CopyTrust, ResourceKept, Current
  <2>6. PassStage' /\ RevokedFirst'
    BY <2>1, <2>2 DEF FinalizerProtocol, PassStage, RevokedFirst
  <2> QED BY <2>3, <2>4, <2>5, <2>6 DEF FinalizerProtocol
<1> QED BY <1>2, <1>3

\* The Update that adds the finalizer protects the resource the pass is for.
LEMMA AddFinalizerStep ==
  ASSUME TypeOK, FinalizerProtocol, AddFinalizer
  PROVE  FinalizerProtocol'
<1> DEFINE k == Resource(who)
           written == [inst EXCEPT !.finalizer = TRUE]
<1>1. pc = "addFinalizer" /\ who \in Instances /\ inst \in Copies
  BY CopyOfPass DEF AddFinalizer
<1>2. CASE Requeue
  BY <1>2, RequeueStep
<1>3. CASE instCurrent
  <2>1. /\ Put(k, written) /\ inst' = written /\ pc' = "apply"
        /\ UNCHANGED <<who, instCurrent>>
    BY <1>3 DEF AddFinalizer, Store, BeginCalls
  <2>2. server[k] # Absent /\ inst = WithDefaults(server[k]) /\ Current(k) /\ ~inst.deleting
    BY <1>1, <1>3 DEF FinalizerProtocol, CopyTrust, PassStage
  <2>3. /\ written \in Copies /\ written.finalizer /\ written.uid = inst.uid
        /\ written.deleting = inst.deleting
    BY <1>1 DEF Copies, Controllers
  <2> HIDE DEF written
  <2>4. written # Absent /\ WithDefaults(written) = written
    BY <2>3, CopyFacts
  <2>5. server[k] \in Controllers
    BY <1>1, <2>2, KeysFacts DEF TypeOK, StoreTypes
  <2>6. inst.uid = server[k].uid
    BY <2>2, <2>5, DefaultsTyped
  <2>7. \A n \in 1..Len(past'[k]) : past'[k][n] = server[k]
    BY <1>1, <2>1, <2>2, PutResourceEffect
  <2>8. InformerTrust'
    BY <1>1, <2>1, <2>2, <2>3, <2>4, <2>6, <2>7, WriteTrust DEF FinalizerProtocol
  <2>9. server'[k] = written
    BY <1>1, <2>1, PutResourceEffect
  <2>10. PassTrust'
    BY <2>1, <2>3, <2>4, <2>9 DEF PassTrust, Protected
  <2>11. CopyTrust'
    BY <2>1, <2>4, <2>9 DEF CopyTrust, WithDefaults
  <2>12. PassStage' /\ RevokedFirst'
    BY <2>1, <2>2, <2>3 DEF PassStage, RevokedFirst
  <2> QED BY <2>8, <2>10, <2>11, <2>12 DEF FinalizerProtocol
<1> QED BY <1>2, <1>3 DEF AddFinalizer

\* The call of a pass leaves the resources alone, and the pass goes on or ends.
LEMMA CallsSpare ==
  ASSUME TypeOK,
         \/ GetCRD \/ SkipCRD \/ WriteCRD \/ CreateServiceAccount
         \/ \E kind \in {"clusterRole", "clusterRoleBinding", "role", "roleBinding",
                         "deployment", "service"} : CreateOrUpdate(kind)
  PROVE  /\ \A i \in Instances : ResourceKept(i)
         /\ pc \in {"apply", "writeCRD"}
         /\ \/ pc' \in {"apply", "writeCRD"} /\ UNCHANGED <<who, inst, instCurrent>>
            \/ EndPass
<1>1. pc \in {"apply", "writeCRD"} /\ Head(todo)[1] # "higressController"
  BY DEF GetCRD, SkipCRD, WriteCRD, CreateServiceAccount, CreateOrUpdate, Calling,
         TypeOK, PassTypes
<1>2. Head(todo) \in Objects
  BY <1>1, CallOfPass
<1>3. \/ pc' \in {"apply", "writeCRD"} /\ UNCHANGED <<who, inst, instCurrent>>
      \/ EndPass
  BY DEF GetCRD, SkipCRD, WriteCRD, CreateServiceAccount, CreateOrUpdate, Proceed, Requeue
<1>4. UNCHANGED <<server, past>> \/ \E obj : Put(Head(todo), obj)
  <2>1. CASE GetCRD \/ SkipCRD
    BY <2>1 DEF GetCRD, SkipCRD, NoWrite
  <2>2. CASE WriteCRD \/ CreateServiceAccount
    BY <2>2 DEF WriteCRD, CreateServiceAccount, NoWrite, Requeue, Store
  <2>3. ASSUME NEW kind, CreateOrUpdate(kind)
        PROVE  UNCHANGED <<server, past>> \/ \E obj : Put(Head(todo), obj)
    BY <2>3 DEF CreateOrUpdate, NoWrite, Requeue, Store
  <2> QED BY <2>1, <2>2, <2>3
<1>5. \A i \in Instances : ResourceKept(i)
  BY <1>2, <1>4, NoWriteEffect, PutObjectEffect
<1> QED BY <1>1, <1>3, <1>5

\* Status().Update writes the resource the copy was read from.
LEMMA UpdateStatusStep ==
  ASSUME TypeOK, FinalizerProtocol, UpdateStatus
  PROVE  FinalizerProtocol'
<1> DEFINE k == Resource(who)
           new == [server[k] EXCEPT !.deployed = TRUE]
<1>1. pc = "apply" /\ who \in Instances
  BY CopyOfPass DEF UpdateStatus, Calling
<1>2. CASE NoWrite /\ EndPass
  BY <1>2, NoWriteEffect, EndStep DEF NoWrite
<1>3. CASE Requeue
  BY <1>3, RequeueStep
<1>4. CASE instCurrent /\ Store(k, new) /\ EndPass
  <2>1. server[k] # Absent /\ Put(k, new)
    BY <1>1, <1>4 DEF FinalizerProtocol, CopyTrust, Store
  <2>2. server[k] \in Controllers
    BY <1>1, <2>1, KeysFacts DEF TypeOK, StoreTypes
  <2>3. /\ new \in Controllers /\ new.uid = server[k].uid
        /\ new.finalizer = server[k].finalizer /\ new.deleting = server[k].deleting
    BY <2>2 DEF Controllers
  <2> HIDE DEF new
  <2>4. new # Absent /\ (new.deleting => new.finalizer)
    BY <1>1, <2>1, <2>3, AbsentAssumption DEF FinalizerProtocol, InformerTrust
  <2>5. InformerTrust'
    BY <1>1, <2>1, <2>3, <2>4, SameResourceTrust
  <2> QED BY <1>4, <2>5, EndedPass DEF FinalizerProtocol
<1> QED BY <1>2, <1>3, <1>4 DEF UpdateStatus

\* Every action of a pass keeps the protocol.
LEMMA WorkerKeepsProtocol ==
  ASSUME TypeOK, FinalizerProtocol, Worker
  PROVE  FinalizerProtocol'
<1>1. ASSUME NEW i \in Instances, DropRequest(i)
      PROVE  FinalizerProtocol'
  BY <1>1, NoWriteEffect, QuietStep DEF DropRequest, PassKept, pass
<1>2. ASSUME NEW i \in Instances, StartReconcile(i)
      PROVE  FinalizerProtocol'
  BY <1>2, StartStep
<1>3. CASE \/ FinalizeBinding \/ RemoveFinalizer \/ CheckNamespace \/ NamespaceTerminating
           \/ AddFinalizer
  BY <1>3, FinalizeStep, RemoveStep, NamespaceStep, AddFinalizerStep
<1>4. CASE \/ GetCRD \/ SkipCRD \/ WriteCRD \/ CreateServiceAccount
           \/ \E kind \in {"clusterRole", "clusterRoleBinding", "role", "roleBinding",
                           "deployment", "service"} : CreateOrUpdate(kind)
  BY <1>4, CallsSpare, CallStep, EndStep
<1>5. CASE UpdateStatus
  BY <1>5, UpdateStatusStep
<1> QED BY <1>1, <1>2, <1>3, <1>4, <1>5 DEF Worker

---------------------------------------------------------------------------
(* Everybody else. *)

\* A write that empties a binding, or of an object that has no subjects, grants
\* nothing.
LEMMA OutsideWriteStep ==
  ASSUME TypeOK, FinalizerProtocol, NEW k \in Objects, NEW obj, Store(k, obj), UNCHANGED pass,
         SubjectsOf(obj) = {}
  PROVE  FinalizerProtocol'
<1>1. Put(k, obj)
  BY DEF Store
<1>2. \A i \in Instances : ResourceKept(i)
  BY <1>1, PutObjectEffect
<1>3. NothingGranted
  BY <1>1, PutObjectEffect, KeysFacts DEF NothingGranted, SubjectsOf
<1> QED BY <1>2, <1>3, QuietStep DEF pass, PassKept

\* The informers move on.
LEMMA DeliverStep ==
  ASSUME TypeOK, FinalizerProtocol, NEW k \in Keys, Deliver(k)
  PROVE  FinalizerProtocol'
<1>1. /\ server' = server /\ UNCHANGED <<pc, who, inst, instCurrent>>
      /\ \A j \in Keys : j # k => past'[j] = past[j]
      /\ past[k] # <<>>
      /\ \A n \in 1..Len(past'[k]) : \E m \in 1..Len(past[k]) : past'[k][n] = past[k][m]
  BY AdvanceEffect DEF Deliver, pass
<1>2. \A i \in Instances : \A u : Protected(i, u)' <=> Protected(i, u)
  BY <1>1 DEF Protected
<1>3. InformerTrust'
  <2> SUFFICES ASSUME NEW i \in Instances
               PROVE  /\ \A n \in 1..Len(past'[Resource(i)]) :
                           Kept(past'[Resource(i)][n]) => Protected(i, past'[Resource(i)][n].uid)
                      /\ server[Resource(i)] # Absent /\ server[Resource(i)].deleting
                           => server[Resource(i)].finalizer
    BY <1>1 DEF InformerTrust, Kept, Protected
  <2>1. \A n \in 1..Len(past'[Resource(i)]) :
          \E m \in 1..Len(past[Resource(i)]) : past'[Resource(i)][n] = past[Resource(i)][m]
    BY <1>1, KeysFacts
  <2> QED BY <2>1 DEF FinalizerProtocol, InformerTrust
<1>4. pc # "idle" => who \in Instances /\ Resource(who) \in Keys
  BY CopyOfPass, KeysFacts
<1>5. PassTrust'
  BY <1>1, <1>2, <1>4 DEF FinalizerProtocol, PassTrust
<1>6. CopyTrust'
  BY <1>1, <1>4 DEF FinalizerProtocol, CopyTrust, Current
<1>7. PassStage' /\ RevokedFirst'
  BY <1>1 DEF FinalizerProtocol, PassStage, RevokedFirst
<1> QED BY <1>3, <1>5, <1>6, <1>7 DEF FinalizerProtocol

\* A restarted process has no pass and no version to deliver.
LEMMA CrashStep ==
  ASSUME TypeOK, FinalizerProtocol, Crash
  PROVE  FinalizerProtocol'
<1>1. server' = server /\ EndPass /\ \A i \in Instances : past'[Resource(i)] = <<>>
  BY KeysFacts DEF Crash, Relist, TypeOK, StoreTypes
<1>2. InformerTrust'
  BY <1>1 DEF FinalizerProtocol, InformerTrust
<1> QED BY <1>1, <1>2, EndedPass DEF FinalizerProtocol

\* Nothing that happens outside the operator breaks the protocol.
LEMMA EnvironmentKeepsProtocol ==
  ASSUME TypeOK, FinalizerProtocol, Environment
  PROVE  FinalizerProtocol'
<1>1. CASE \E k \in Keys : Deliver(k)
  BY <1>1, DeliverStep
<1>2. ASSUME NEW i \in Instances,
             \/ \E spec \in CreatedSpecs : Create(i, spec)
             \/ \E spec \in Specs : Edit(i, spec)
             \/ Delete(i)
      PROVE  FinalizerProtocol'
  BY <1>2, UserKeepsProtocol
<1>3. ASSUME NEW i \in Instances, Terminate(i)
      PROVE  FinalizerProtocol'
  BY <1>3, NoWriteEffect, QuietStep DEF Terminate, NoWrite, pass, PassKept
<1>4. ASSUME NEW k \in Objects, CollectGarbage(k) \/ (k \in Bindings /\ DeleteBinding(k))
      PROVE  FinalizerProtocol'
  <2>1. Store(k, Absent) /\ UNCHANGED pass
    BY <1>4 DEF CollectGarbage, DeleteBinding
  <2> QED BY <2>1, OutsideWriteStep DEF SubjectsOf
<1>5. ASSUME NEW k \in Objects, InstallCRD(k)
      PROVE  FinalizerProtocol'
  <2> DEFINE new == [owner |-> NoOwner, rev |-> Foreign, containers |-> "", subjects |-> {}]
  <2>1. Store(k, new) /\ UNCHANGED pass /\ SubjectsOf(new) = {}
    BY <1>5 DEF InstallCRD, SubjectsOf
  <2> HIDE DEF new
  <2> QED BY <2>1, OutsideWriteStep
<1>6. CASE Crash
  BY <1>6, CrashStep
<1>7. CASE ApiError \/ NamespaceError
  BY <1>7, NoWriteEffect, EndStep DEF ApiError, NamespaceError, NoWrite
<1> QED BY <1>1, <1>2, <1>3, <1>4, <1>5, <1>6, <1>7, KeysFacts DEF Environment

\* At the start there is nothing to trust.
LEMMA InitProtocol ==
  ASSUME Init
  PROVE  FinalizerProtocol
<1>1. \A i \in Instances : server[Resource(i)] = Absent /\ past[Resource(i)] = <<>>
  BY KeysFacts DEF Init
<1>2. InformerTrust
  BY <1>1 DEF InformerTrust
<1> QED BY <1>2 DEF Init, FinalizerProtocol, PassTrust, CopyTrust, PassStage, RevokedFirst

\* The protocol and the types keep each other: only the protocol says that an
\* accepted status update is of a resource that is there.
LEMMA ProtocolStep ==
  ASSUME TypeOK, FinalizerProtocol, [Next]_vars
  PROVE  TypeOK' /\ FinalizerProtocol'
<1>1. TypeOK'
  BY StepTyped DEF FinalizerProtocol
<1>2. CASE UNCHANGED vars
  <2>1. FinalizerProtocol'
    BY <1>2, NoWriteEffect, QuietStep DEF vars, pass, PassKept
  <2> QED BY <1>1, <2>1
<1>3. CASE Worker
  <2>1. FinalizerProtocol'
    BY <1>3, WorkerKeepsProtocol
  <2> QED BY <1>1, <2>1
<1>4. CASE Environment
  <2>1. FinalizerProtocol'
    BY <1>4, EnvironmentKeepsProtocol
  <2> QED BY <1>1, <2>1
<1> QED BY <1>2, <1>3, <1>4 DEF Next

\* Every reachable state is well typed, whatever the instances, the specs, the
\* kinds that lag and the disturbances.
THEOREM TypeCorrect == Safety => []TypeOK
<1>1. Init => TypeOK /\ FinalizerProtocol
  BY InitTyped, InitProtocol
<1>2. TypeOK /\ FinalizerProtocol /\ [Next]_vars => TypeOK' /\ FinalizerProtocol'
  BY ProtocolStep
<1> QED BY <1>1, <1>2, PTL DEF Safety

\* The caches, the pass and the server agree on which resource is protected.
THEOREM ProtocolHolds == Safety => []FinalizerProtocol
<1>1. Init => TypeOK /\ FinalizerProtocol
  BY InitTyped, InitProtocol
<1>2. TypeOK /\ FinalizerProtocol /\ [Next]_vars => TypeOK' /\ FinalizerProtocol'
  BY ProtocolStep
<1> QED BY <1>1, <1>2, PTL DEF Safety

---------------------------------------------------------------------------
(* Who changes a binding, and how. *)

\* CreateOrUpdate wrote the binding k for the pass's copy.
Granting(k) ==
  /\ pc = "apply" /\ who \in Instances /\ inst \in Copies /\ k[1] = "clusterRoleBinding"
  /\ server[k] \in {Absent} \cup Managed
  /\ server'[k] = Mutated(k, server[k], who, inst)
\* finalizeHigressController wrote the binding k.
Revoking(k) ==
  /\ pc = "finalize" /\ who \in Instances /\ inst.spec \in DefaultedSpecs
  /\ server[k] \in Managed /\ server'[k] \in Managed
  /\ server'[k].subjects = WithoutSubject(server[k].subjects, SubjectOf(who, inst.spec))

\* A write of an object other than the binding k keeps k.
LEMMA OtherObjectWritten ==
  ASSUME TypeOK, NEW k \in Bindings, NEW o \in Objects, NEW obj, Put(o, obj), o # k
  PROVE  server'[k] = server[k]
BY PutObjectEffect, KeysFacts

\* createRBAC's call changes the binding it has read, or none.
LEMMA CallsGrant ==
  ASSUME TypeOK, NEW k \in Bindings, NEW kind, kind # "higressController", CreateOrUpdate(kind)
  PROVE  server'[k] = server[k] \/ Granting(k)
<1> DEFINE h == Head(todo)
<1>1. pc = "apply" /\ h[1] = kind
  BY DEF CreateOrUpdate, Calling
<1>2. h \in Objects /\ h \in Keys /\ who \in Instances /\ inst \in Copies
  BY <1>1, CallOfPass DEF TypeOK, PassTypes
<1>3. CASE UNCHANGED server
  BY <1>3
<1>4. CASE Current(h) /\ Store(h, Mutated(h, Cached(h), who, inst))
  <2> DEFINE new == Mutated(h, server[h], who, inst)
  <2>1. Put(h, new)
    BY <1>4 DEF Store, Cached
  <2>2. server[h] \in {Absent} \cup Managed
    BY <1>2, KeysFacts DEF TypeOK, StoreTypes
  <2>3. server'[h] = Mutated(h, server[h], who, inst)
    BY <1>2, <2>1, PutObjectEffect
  <2>4. CASE h = k
    BY <1>1, <1>2, <2>2, <2>3, <2>4 DEF Granting, Bindings
  <2> HIDE DEF new
  <2>5. CASE h # k
    BY <1>2, <2>1, <2>5, OtherObjectWritten DEF h
  <2> QED BY <2>4, <2>5
<1> QED BY <1>3, <1>4 DEF CreateOrUpdate, Requeue, NoWrite

\* The finalizer's handler changes the binding of its resource, or none.
LEMMA HandlerRevokes ==
  ASSUME TypeOK, NEW k \in Bindings, FinalizeBinding
  PROVE  server'[k] = server[k] \/ Revoking(k)
<1> DEFINE b == Binding(who, inst.spec)
           subject == SubjectOf(who, inst.spec)
           new == [server[b] EXCEPT !.subjects = WithoutSubject(@, subject)]
<1>1. pc = "finalize" /\ who \in Instances /\ inst.spec \in DefaultedSpecs
  BY CopyOfPass DEF FinalizeBinding
<1>2. CASE UNCHANGED server
  BY <1>2
<1>3. CASE GrantsRbac(inst.spec) /\ server[b] # Absent /\ Put(b, new)
  <2>1. b \in Objects
    BY <1>1, <1>3, PassKeys, KeysFacts
  <2>2. server[b] \in Managed
    BY <1>3, <2>1, KeysFacts DEF TypeOK, StoreTypes
  <2>3. new.subjects = WithoutSubject(server[b].subjects, subject) /\ new \in Managed
    BY <2>2, WithoutSubjectTyped DEF Managed
  <2> HIDE DEF new
  <2>4. server'[b] = new
    BY <1>3, <2>1, PutObjectEffect
  <2>5. CASE b = k
    BY <1>1, <2>2, <2>3, <2>4, <2>5 DEF Revoking
  <2>6. CASE b # k
    BY <1>3, <2>1, <2>6, OtherObjectWritten
  <2> QED BY <2>5, <2>6
<1>4. \/ UNCHANGED server
      \/ GrantsRbac(inst.spec) /\ server[b] # Absent /\ Put(b, new)
  BY DEF FinalizeBinding, NoWrite, Requeue, Store, Cached
<1> QED BY <1>2, <1>3, <1>4

\* Nothing else in a pass writes a binding.
LEMMA WorkerBindings ==
  ASSUME TypeOK, NEW k \in Bindings, Worker
  PROVE  server'[k] = server[k] \/ Granting(k) \/ Revoking(k)
<1>1. k \in Objects /\ k[1] = "clusterRoleBinding"
  BY DEF Bindings
<1>2. ASSUME NEW i \in Instances, DropRequest(i) \/ StartReconcile(i)
      PROVE  server' = server
  BY <1>2 DEF DropRequest, StartReconcile
<1>3. CASE CheckNamespace \/ NamespaceTerminating \/ GetCRD \/ SkipCRD
  BY <1>3 DEF CheckNamespace, NamespaceTerminating, GetCRD, SkipCRD, NoWrite
<1>4. CASE FinalizeBinding
  BY <1>4, HandlerRevokes
<1>5. CASE RemoveFinalizer \/ AddFinalizer \/ UpdateStatus
  <2>1. who \in Instances
    BY <1>5, CopyOfPass DEF RemoveFinalizer, AddFinalizer, UpdateStatus, Calling
  <2>2. UNCHANGED server \/ \E obj : Put(Resource(who), obj)
    BY <1>5 DEF RemoveFinalizer, AddFinalizer, UpdateStatus, Store, Requeue, NoWrite
  <2> QED BY <1>1, <2>1, <2>2, PutResourceEffect
<1>6. CASE WriteCRD \/ CreateServiceAccount
  <2>1. /\ pc \in {"apply", "writeCRD"} /\ Head(todo)[1] # "higressController"
        /\ Head(todo) # k
    BY <1>1, <1>6 DEF WriteCRD, CreateServiceAccount, Calling, TypeOK, PassTypes
  <2>2. UNCHANGED server \/ \E obj : Put(Head(todo), obj)
    BY <1>6 DEF WriteCRD, CreateServiceAccount, Store, Requeue, NoWrite
  <2> QED BY <2>1, <2>2, CallOfPass, OtherObjectWritten
<1>7. CASE \E kind \in {"clusterRole", "clusterRoleBinding", "role", "roleBinding",
                        "deployment", "service"} : CreateOrUpdate(kind)
  BY <1>7, CallsGrant
<1> QED BY <1>2, <1>3, <1>4, <1>5, <1>6, <1>7 DEF Worker

\* What the handler leaves out is its own resource's subject.
LEMMA RevokesOwnSubject ==
  ASSUME NEW k, Revoking(k), NEW s \in SubjectsOf(server[k]) \ SubjectsOf(server'[k])
  PROVE  s = SubjectOf(who, inst.spec)
<1>1. server[k] \in Managed /\ server'[k] \in Managed /\ server[k] # Absent /\ server'[k] # Absent
  BY AbsentAssumption DEF Revoking
<1>2. s \in server[k].subjects /\ s \in Subjects
  BY <1>1 DEF SubjectsOf, Managed
<1>3. s \notin WithoutSubject(server[k].subjects, SubjectOf(who, inst.spec))
  BY <1>1 DEF SubjectsOf, Revoking
<1>4. s[1] = SubjectOf(who, inst.spec)[1] /\ s[2] = SubjectOf(who, inst.spec)[2]
  BY <1>2, <1>3 DEF WithoutSubject
<1>5. s = <<s[1], s[2]>>
  BY <1>2 DEF Subjects, SubjectOf
<1> QED BY <1>4, <1>5 DEF SubjectOf

\* What createRBAC writes keeps every subject that was there.
LEMMA GrantingKeeps ==
  ASSUME NEW k, Granting(k)
  PROVE  SubjectsOf(server[k]) \subseteq SubjectsOf(server'[k])
<1>1. CASE server[k] = Absent
  BY <1>1 DEF SubjectsOf
<1>2. CASE server[k] # Absent
  <2>1. /\ server'[k] \in Managed /\ server[k].subjects \subseteq server'[k].subjects
    BY <1>2, MutatedTyped DEF Granting
  <2> QED BY <1>2, <2>1, AbsentAssumption DEF SubjectsOf
<1> QED BY <1>1, <1>2

\* A pass never takes another resource's subject out of a binding.
LEMMA PassesRevokeTheirOwn ==
  ASSUME TypeOK, NEW k \in Bindings, Worker
  PROVE  \A s \in SubjectsOf(server[k]) \ SubjectsOf(server'[k]) :
           pc = "finalize" /\ s = SubjectOf(who, inst.spec)
<1>1. CASE server'[k] = server[k]
  BY <1>1
<1>2. CASE Granting(k)
  BY <1>2, GrantingKeeps
<1>3. CASE Revoking(k)
  BY <1>3, RevokesOwnSubject DEF Revoking
<1> QED BY <1>1, <1>2, <1>3, WorkerBindings

\* The pass of one resource never takes the grant of another: OthersKeepGrants, for
\* every set of instances that share service account names.
THEOREM GrantsAreKept == Safety => OthersKeepGrants
<1>1. TypeOK /\ [Next]_vars =>
        [\A k \in Bindings :
           Worker => \A s \in SubjectsOf(server[k]) \ SubjectsOf(server[k])' :
                       pc = "finalize" /\ s = SubjectOf(who, inst.spec)]_vars
  BY PassesRevokeTheirOwn DEF SubjectsOf
<1> QED BY <1>1, TypeCorrect, PTL DEF Safety, OthersKeepGrants

---------------------------------------------------------------------------
(* Grants are for protected resources. *)

\* Taking subjects out grants nothing.
LEMMA RevokingGrantsNothing ==
  ASSUME NEW k, Revoking(k)
  PROVE  SubjectsOf(server'[k]) \subseteq SubjectsOf(server[k])
<1>1. server[k] # Absent /\ server'[k] # Absent
  BY AbsentAssumption DEF Revoking
<1> QED BY <1>1 DEF Revoking, SubjectsOf, WithoutSubject

\* Nobody else writes a subject into a binding.
LEMMA EnvironmentGrantsNothing ==
  ASSUME TypeOK, Environment
  PROVE  NothingGranted
<1>1. ASSUME NEW i \in Instances, NEW obj, WriteResource(i, obj)
      PROVE  NothingGranted
  BY <1>1, WriteSpares DEF WriteResource, Store
<1>2. ASSUME NEW k \in Objects, NEW obj, Store(k, obj), SubjectsOf(obj) = {}
      PROVE  NothingGranted
  BY <1>2, PutObjectEffect, KeysFacts DEF Store, NothingGranted, SubjectsOf
<1>3. CASE UNCHANGED server
  BY <1>3 DEF NothingGranted, SubjectsOf
<1>4. ASSUME NEW i \in Instances, \E spec \in CreatedSpecs : Create(i, spec)
      PROVE  NothingGranted
  BY <1>1, <1>4 DEF Create
<1>5. ASSUME NEW i \in Instances, \E spec \in Specs : Edit(i, spec)
      PROVE  NothingGranted
  BY <1>1, <1>5 DEF Edit
<1>6. ASSUME NEW i \in Instances, Delete(i)
      PROVE  NothingGranted
  BY <1>1, <1>6 DEF Delete
<1>7. ASSUME NEW k \in Objects, CollectGarbage(k) \/ (k \in Bindings /\ DeleteBinding(k))
      PROVE  NothingGranted
  BY <1>2, <1>7 DEF CollectGarbage, DeleteBinding, SubjectsOf
<1>8. ASSUME NEW k \in Objects, InstallCRD(k)
      PROVE  NothingGranted
  <2> DEFINE new == [owner |-> NoOwner, rev |-> Foreign, containers |-> "", subjects |-> {}]
  <2>1. Store(k, new) /\ SubjectsOf(new) = {}
    BY <1>8 DEF InstallCRD, SubjectsOf
  <2> HIDE DEF new
  <2> QED BY <1>2, <2>1
<1>9. CASE \/ \E k \in Keys : Deliver(k)
           \/ \E i \in Instances : Terminate(i)
           \/ Crash \/ ApiError \/ NamespaceError
  <2>1. UNCHANGED server
    BY <1>9 DEF Deliver, Advance, Terminate, Crash, Relist, ApiError, NamespaceError, NoWrite
  <2> QED BY <1>3, <2>1
<1> QED BY <1>4, <1>5, <1>6, <1>7, <1>8, <1>9, KeysFacts DEF Environment

\* A binding gets a subject only in a call of a pass, which is for a protected
\* resource.
LEMMA GrantsAreProtected ==
  ASSUME TypeOK, FinalizerProtocol, Next, NEW k \in Bindings
  PROVE  \/ SubjectsOf(server'[k]) \subseteq SubjectsOf(server[k])
         \/ /\ server[Resource(who)] # Absent /\ server[Resource(who)].finalizer
            /\ server[Resource(who)].uid = inst.uid
<1>1. CASE Environment
  BY <1>1, EnvironmentGrantsNothing DEF NothingGranted
<1>2. CASE server'[k] = server[k] \/ Revoking(k)
  BY <1>2, RevokingGrantsNothing
<1>3. CASE Granting(k)
  <2>1. Protected(who, inst.uid)
    BY <1>3 DEF Granting, FinalizerProtocol, PassTrust
  <2> QED BY <2>1 DEF Protected
<1> QED BY <1>1, <1>2, <1>3, WorkerBindings DEF Next

\* createRBAC binds a service account only for a resource that is there, is the one
\* the pass has read, and is protected: GrantsOnlyProtected.
THEOREM GrantsAreForProtected == Safety => GrantsOnlyProtected
<1>1. TypeOK /\ FinalizerProtocol /\ [Next]_vars =>
        [\A k \in Bindings :
           SubjectsOf(server[k])' \subseteq SubjectsOf(server[k])
           \/ LET cr == server[Resource(who)] IN
              cr # Absent /\ cr.finalizer /\ cr.uid = inst.uid]_vars
  BY GrantsAreProtected DEF SubjectsOf
<1> QED BY <1>1, TypeCorrect, ProtocolHolds, PTL DEF Safety, GrantsOnlyProtected

---------------------------------------------------------------------------
(* Revoked before removed. *)

\* A resource with a finalizer goes in the handler's second write, whose copy is
\* the server's version of it.
LEMMA OnlyHandlerRemoves ==
  ASSUME TypeOK, FinalizerProtocol, Next, NEW i \in Instances,
         server[Resource(i)] # Absent, server[Resource(i)].finalizer,
         server'[Resource(i)] = Absent
  PROVE  /\ pc = "removeFinalizer" /\ who = i /\ inst = WithDefaults(server[Resource(i)])
         /\ \A k \in Objects : server'[k] = server[k]
<1> DEFINE k == Resource(i)
<1>1. ASSUME NEW j \in Instances, NEW obj, Put(Resource(j), obj)
      PROVE  j = i /\ obj = Absent
  BY <1>1, PutResourceEffect DEF ResourceKept
<1>2. ~ResourceKept(i)
  BY DEF ResourceKept
<1>3. ~UNCHANGED server
  OBVIOUS
<1>4. \A o \in Objects : \A obj : ~Put(o, obj)
  BY <1>2, PutObjectEffect
<1>5. server[k] \in Controllers
  BY KeysFacts DEF TypeOK, StoreTypes
<1>6. CASE Worker
  <2>1. ~\E j \in Instances : DropRequest(j) \/ StartReconcile(j)
    BY <1>3 DEF DropRequest, StartReconcile
  <2>2. ~FinalizeBinding
    <3> SUFFICES ASSUME FinalizeBinding PROVE FALSE
      OBVIOUS
    <3>1. GrantsRbac(inst.spec) /\ \E obj : Put(Binding(who, inst.spec), obj)
      BY <1>3 DEF FinalizeBinding, NoWrite, Requeue, Store
    <3>2. Binding(who, inst.spec) \in Objects
      BY <3>1, CopyOfPass, PassKeys, KeysFacts DEF FinalizeBinding
    <3> QED BY <1>4, <3>1, <3>2
  <2>3. ~(CheckNamespace \/ NamespaceTerminating)
    BY <1>3 DEF CheckNamespace, NamespaceTerminating, NoWrite
  <2>4. ~(\/ GetCRD \/ SkipCRD \/ WriteCRD \/ CreateServiceAccount
          \/ \E kind \in {"clusterRole", "clusterRoleBinding", "role", "roleBinding",
                          "deployment", "service"} : CreateOrUpdate(kind))
    BY <1>2, CallsSpare
  <2>5. ~AddFinalizer
    <3> SUFFICES ASSUME AddFinalizer PROVE FALSE
      OBVIOUS
    <3> DEFINE written == [inst EXCEPT !.finalizer = TRUE]
    <3>1. who \in Instances /\ inst \in Copies
      BY CopyOfPass DEF AddFinalizer
    <3>2. written \in Controllers
      BY <3>1 DEF Copies, Controllers
    <3>3. Put(Resource(who), written)
      BY <1>3 DEF AddFinalizer, Store, Requeue
    <3> HIDE DEF written
    <3> QED BY <1>1, <3>1, <3>2, <3>3, AbsentAssumption
  <2>6. ~UpdateStatus
    <3> SUFFICES ASSUME UpdateStatus PROVE FALSE
      OBVIOUS
    <3> DEFINE new == [server[Resource(who)] EXCEPT !.deployed = TRUE]
    <3>1. who \in Instances
      BY CopyOfPass DEF UpdateStatus, Calling
    <3>2. Put(Resource(who), new)
      BY <1>3 DEF UpdateStatus, Store, Requeue, NoWrite
    <3>3. who = i /\ new = Absent
      BY <1>1, <3>1, <3>2
    <3>4. [server[k] EXCEPT !.deployed = TRUE] \in Controllers
      BY <1>5 DEF Controllers
    <3> QED BY <3>3, <3>4, AbsentAssumption
  <2>7. RemoveFinalizer
    BY <1>6, <2>1, <2>2, <2>3, <2>4, <2>5, <2>6 DEF Worker
  <2>8. who \in Instances /\ pc = "removeFinalizer"
    BY <2>7, CopyOfPass DEF RemoveFinalizer
  <2>9. instCurrent /\ Put(Resource(who), Absent)
    BY <1>3, <2>7 DEF RemoveFinalizer, Store, Requeue
  <2>10. who = i /\ \A o \in Objects : server'[o] = server[o]
    BY <1>1, <2>8, <2>9, PutResourceEffect
  <2> QED BY <2>8, <2>9, <2>10 DEF FinalizerProtocol, CopyTrust
<1>7. CASE Environment
  <2>1. ASSUME NEW j \in Instances, NEW spec, Create(j, spec)
        PROVE  FALSE
    <3>1. server[Resource(j)] = Absent /\ \E obj : Put(Resource(j), obj)
      BY <2>1 DEF Create, WriteResource, Store
    <3> QED BY <1>1, <3>1
  <2>2. ASSUME NEW j \in Instances, NEW spec \in Specs, Edit(j, spec)
        PROVE  FALSE
    <3>1. Put(Resource(j), [server[Resource(j)] EXCEPT !.spec = spec])
      BY <2>2 DEF Edit, WriteResource, Store
    <3>2. j = i /\ [server[Resource(j)] EXCEPT !.spec = spec] = Absent
      BY <1>1, <3>1
    <3>3. [server[k] EXCEPT !.spec = spec] \in Controllers
      BY <1>5 DEF Controllers
    <3> QED BY <3>2, <3>3, AbsentAssumption
  <2>3. ASSUME NEW j \in Instances, Delete(j)
        PROVE  FALSE
    <3> DEFINE new == IF server[Resource(j)].finalizer
                      THEN [server[Resource(j)] EXCEPT !.deleting = TRUE] ELSE Absent
    <3>1. Put(Resource(j), new)
      BY <2>3 DEF Delete, WriteResource, Store
    <3>2. j = i /\ new = Absent
      BY <1>1, <3>1
    <3>3. [server[k] EXCEPT !.deleting = TRUE] \in Controllers
      BY <1>5 DEF Controllers
    <3> QED BY <3>2, <3>3, AbsentAssumption
  <2>4. \A o \in Objects :
          ~(CollectGarbage(o) \/ InstallCRD(o) \/ (o \in Bindings /\ DeleteBinding(o)))
    BY <1>4 DEF CollectGarbage, InstallCRD, DeleteBinding, Store
  <2>5. ~(\/ \E o \in Keys : Deliver(o)
          \/ \E j \in Instances : Terminate(j)
          \/ Crash \/ ApiError \/ NamespaceError)
    BY <1>3 DEF Deliver, Advance, Terminate, Crash, Relist, ApiError, NamespaceError, NoWrite
  <2> QED BY <1>7, <2>1, <2>2, <2>3, <2>4, <2>5, KeysFacts DEF Environment
<1> QED BY <1>6, <1>7 DEF Next

\* When it goes, the subject is out of the binding: RevokedBeforeRemoved.
LEMMA RemovalsAreRevoked ==
  ASSUME TypeOK, FinalizerProtocol, Next, NEW i \in Instances,
         server[Resource(i)] # Absent, server[Resource(i)].finalizer,
         server'[Resource(i)] = Absent,
         GrantsRbac(setDefaultValues(server[Resource(i)].spec))
  PROVE  SubjectOf(i, setDefaultValues(server[Resource(i)].spec)) \notin
           SubjectsOf(server'[Binding(i, setDefaultValues(server[Resource(i)].spec))])
<1>1. /\ pc = "removeFinalizer" /\ who = i /\ inst = WithDefaults(server[Resource(i)])
      /\ \A k \in Objects : server'[k] = server[k]
  BY OnlyHandlerRemoves
<1>2. server[Resource(i)] \in Controllers
  BY KeysFacts DEF TypeOK, StoreTypes
<1>3. inst.spec = setDefaultValues(server[Resource(i)].spec)
  BY <1>1, <1>2, DefaultsTyped
<1>4. Binding(who, inst.spec) \in Objects
  BY <1>1, <1>3, CopyOfPass, PassKeys, KeysFacts
<1> QED BY <1>1, <1>3, <1>4 DEF FinalizerProtocol, RevokedFirst

\* A resource with RBAC enabled never leaves its grant behind, whatever happens
\* between the handler's two writes.
THEOREM RevocationComesFirst == Safety => RevokedBeforeRemoved
<1>1. TypeOK /\ FinalizerProtocol /\ [Next]_vars =>
        [\A i \in Instances :
           LET cr == server[Resource(i)]
               spec == setDefaultValues(cr.spec) IN
           (cr # Absent /\ cr.finalizer /\ server'[Resource(i)] = Absent /\ GrantsRbac(spec))
           => SubjectOf(i, spec) \notin SubjectsOf(server'[Binding(i, spec)])]_vars
  BY RemovalsAreRevoked
<1> QED BY <1>1, TypeCorrect, ProtocolHolds, PTL DEF Safety, RevokedBeforeRemoved

---------------------------------------------------------------------------
(* No deletion is left half done. *)

\* A write of a resource makes a request for it, now or when its informer shows it.
LEMMA WriteRequests ==
  ASSUME TypeOK, NEW i \in Instances, NEW obj, Store(Resource(i), obj),
         obj # server[Resource(i)]
  PROVE  i \in queued' \/ past'[Resource(i)] # <<>>
<1> DEFINE k == Resource(i)
<1>1. k \in Keys /\ k \in Resources
  BY KeysFacts
<1>2. Woken(k, server[k], obj) = {i}
  BY <1>1, InstancesAssumption DEF Woken, Resource
<1>3. past[k] \in Seq(AnyVersion) /\ server[k] \in AnyVersion
  BY <1>1 DEF TypeOK, StoreTypes
<1> HIDE DEF k
<1>4. Store(k, obj) /\ obj # server[k]
  BY DEF k
<1>5. CASE k \in Lagging
  <2>1. past'[k] = Append(past[k], server[k])
    BY <1>1, <1>4, <1>5 DEF Store, Put, TypeOK, StoreTypes
  <2> QED BY <1>3, <2>1 DEF k
<1>6. CASE k \notin Lagging
  BY <1>2, <1>4, <1>6 DEF Store
<1> QED BY <1>5, <1>6

\* A step that leaves a resource's versions alone, takes no request of it back and
\* does not leave its handler without asking for another pass.
LEMMA AttendedKept ==
  ASSUME DeletionsAreAttended, NEW i \in Instances, ResourceKept(i),
         i \in queued => i \in queued', AtHandler(i) => AtHandler(i)' \/ i \in queued'
  PROVE  (server[Resource(i)] # Absent /\ server[Resource(i)].deleting => Attended(i))'
BY DEF DeletionsAreAttended, Attended, AtHandler, ResourceKept, Current

\* A step that writes a resource.
LEMMA WriteAttended ==
  ASSUME TypeOK, DeletionsAreAttended, NEW i \in Instances, NEW j \in Instances, NEW obj,
         Store(Resource(j), obj),
         AtHandler(i) => AtHandler(i)' \/ (j = i /\ obj = Absent)
  PROVE  (server[Resource(i)] # Absent /\ server[Resource(i)].deleting => Attended(i))'
<1>1. Put(Resource(j), obj) /\ queued \subseteq queued'
  BY DEF Store
<1>2. CASE j # i
  BY <1>1, <1>2, PutResourceEffect, AttendedKept
<1>3. CASE j = i /\ obj = Absent
  BY <1>1, <1>3, PutResourceEffect
<1>4. CASE j = i /\ obj # Absent /\ obj = server[Resource(i)]
  <2>1. ResourceKept(i)
    BY <1>1, <1>4, KeysFacts DEF Put, ResourceKept, TypeOK, StoreTypes
  <2> QED BY <1>1, <1>4, <2>1, AttendedKept
<1>5. CASE j = i /\ obj # server[Resource(i)]
  BY <1>5, WriteRequests DEF Attended, Current
<1> QED BY <1>2, <1>3, <1>4, <1>5

\* A request that finds nothing to do has not seen the deletion; one that starts a
\* pass on the deletion starts the handler.
LEMMA RequestAttended ==
  ASSUME TypeOK, InformerTrust, DeletionsAreAttended, NEW i \in Instances, NEW j \in Instances,
         DropRequest(j) \/ StartReconcile(j)
  PROVE  (server[Resource(i)] # Absent /\ server[Resource(i)].deleting => Attended(i))'
<1> DEFINE k == Resource(i)
<1>1. pc = "idle" /\ UNCHANGED <<server, past>> /\ queued' = queued \ {j}
  BY DEF DropRequest, StartReconcile
<1>2. ResourceKept(i) /\ ~AtHandler(i)
  BY <1>1 DEF ResourceKept, AtHandler
<1>3. CASE j # i
  BY <1>1, <1>2, <1>3, AttendedKept
<1>4. CASE j = i /\ ~Current(k)
  BY <1>1, <1>4 DEF Attended, Current
<1>5. CASE j = i /\ Current(k) /\ server[k] # Absent /\ server[k].deleting
  <2>1. Cached(k) = server[k] /\ server[k].finalizer
    BY <1>5 DEF Cached, InformerTrust
  <2>2. StartReconcile(i)
    BY <1>5, <2>1 DEF DropRequest, NothingToDo
  <2> QED BY <1>5, <2>1, <2>2 DEF StartReconcile, Attended, AtHandler
<1> QED BY <1>1, <1>3, <1>4, <1>5

\* What the rest of a pass does.
LEMMA WorkerAttended ==
  ASSUME TypeOK, FinalizerProtocol, DeletionsAreAttended, NEW i \in Instances, Worker
  PROVE  (server[Resource(i)] # Absent /\ server[Resource(i)].deleting => Attended(i))'
<1>1. ASSUME NEW j \in Instances, DropRequest(j) \/ StartReconcile(j)
      PROVE  (server[Resource(i)] # Absent /\ server[Resource(i)].deleting => Attended(i))'
  BY <1>1, RequestAttended DEF FinalizerProtocol
<1>2. CASE Requeue
  <2>1. ResourceKept(i)
    BY <1>2, NoWriteEffect DEF Requeue
  <2> QED BY <1>2, <2>1, AttendedKept DEF Requeue, AtHandler
<1>3. CASE FinalizeBinding /\ ~Requeue
  <2>1. Goto("removeFinalizer") /\ queued \subseteq queued'
    BY <1>3 DEF FinalizeBinding, NoWrite, Store
  <2>2. ResourceKept(i)
    <3>1. UNCHANGED <<server, past>> \/
          (GrantsRbac(inst.spec) /\ \E obj : Put(Binding(who, inst.spec), obj))
      BY <1>3 DEF FinalizeBinding, NoWrite, Store
    <3>2. GrantsRbac(inst.spec) => Binding(who, inst.spec) \in Objects
      BY <1>3, CopyOfPass, PassKeys, KeysFacts DEF FinalizeBinding
    <3> QED BY <3>1, <3>2, NoWriteEffect, PutObjectEffect
  <2> QED BY <2>1, <2>2, AttendedKept DEF Goto, AtHandler
<1>4. CASE (RemoveFinalizer \/ AddFinalizer) /\ ~Requeue
  <2>1. who \in Instances
    BY <1>4, CopyOfPass DEF RemoveFinalizer, AddFinalizer
  <2>2. PICK obj : Store(Resource(who), obj) /\ (AtHandler(i) => who = i /\ obj = Absent)
    BY <1>4 DEF RemoveFinalizer, AddFinalizer, AtHandler
  <2> QED BY <2>1, <2>2, WriteAttended
<1>5. CASE UpdateStatus /\ ~Requeue
  <2>1. who \in Instances /\ ~AtHandler(i)
    BY <1>5, CopyOfPass DEF UpdateStatus, Calling, AtHandler
  <2>2. NoWrite \/ \E obj : Store(Resource(who), obj)
    BY <1>5 DEF UpdateStatus
  <2>3. CASE NoWrite
    BY <2>1, <2>3, NoWriteEffect, AttendedKept DEF NoWrite
  <2> QED BY <2>1, <2>2, <2>3, WriteAttended
<1>6. CASE CheckNamespace \/ NamespaceTerminating
  <2>1. NoWrite /\ ~AtHandler(i)
    BY <1>6 DEF CheckNamespace, NamespaceTerminating, AtHandler
  <2> QED BY <2>1, NoWriteEffect, AttendedKept DEF NoWrite
<1>7. CASE \/ GetCRD \/ SkipCRD \/ WriteCRD \/ CreateServiceAccount
           \/ \E kind \in {"clusterRole", "clusterRoleBinding", "role", "roleBinding",
                           "deployment", "service"} : CreateOrUpdate(kind)
  <2>1. ResourceKept(i) /\ ~AtHandler(i)
    BY <1>7, CallsSpare DEF AtHandler
  <2>2. queued \subseteq queued'
    BY <1>7 DEF GetCRD, SkipCRD, WriteCRD, CreateServiceAccount, CreateOrUpdate, NoWrite,
                Requeue, Store
  <2> QED BY <2>1, <2>2, AttendedKept
<1> QED BY <1>1, <1>2, <1>3, <1>4, <1>5, <1>6, <1>7 DEF Worker

\* An informer that moves on makes the request.
LEMMA DeliverAttended ==
  ASSUME TypeOK, DeletionsAreAttended, NEW i \in Instances, NEW k \in Keys, Deliver(k)
  PROVE  (server[Resource(i)] # Absent /\ server[Resource(i)].deleting => Attended(i))'
<1>1. UNCHANGED pass /\ queued' = queued \cup Woken(k, Cached(k), NextVersion(k)) /\ Advance(k)
  BY DEF Deliver
<1>2. CASE k = Resource(i)
  <2>1. Woken(k, Cached(k), NextVersion(k)) = {i}
    BY <1>2, KeysFacts, InstancesAssumption DEF Woken, Resource
  <2> QED BY <1>1, <2>1 DEF Attended
<1>3. CASE k # Resource(i)
  <2>1. ResourceKept(i)
    BY <1>1, <1>3, AdvanceEffect, KeysFacts DEF ResourceKept
  <2> QED BY <1>1, <2>1, AttendedKept DEF pass, AtHandler
<1> QED BY <1>2, <1>3

\* Nothing outside the operator loses the request, a crash neither.
LEMMA EnvironmentAttended ==
  ASSUME TypeOK, FinalizerProtocol, DeletionsAreAttended, NEW i \in Instances, Environment
  PROVE  (server[Resource(i)] # Absent /\ server[Resource(i)].deleting => Attended(i))'
<1>1. CASE \E k \in Keys : Deliver(k)
  BY <1>1, DeliverAttended
<1>2. ASSUME NEW j \in Instances, \/ \E spec \in CreatedSpecs : Create(j, spec)
                                  \/ \E spec \in Specs : Edit(j, spec)
                                  \/ Delete(j)
      PROVE  (server[Resource(i)] # Absent /\ server[Resource(i)].deleting => Attended(i))'
  <2>1. PICK obj : WriteResource(j, obj)
    BY <1>2 DEF Create, Edit, Delete
  <2>2. Store(Resource(j), obj) /\ (AtHandler(i) => AtHandler(i)')
    BY <2>1 DEF WriteResource, AtHandler
  <2> QED BY <2>2, WriteAttended
<1>3. ASSUME NEW j \in Instances, Terminate(j)
      PROVE  (server[Resource(i)] # Absent /\ server[Resource(i)].deleting => Attended(i))'
  BY <1>3, NoWriteEffect, AttendedKept DEF Terminate, NoWrite, pass, AtHandler
<1>4. ASSUME NEW k \in Objects,
             CollectGarbage(k) \/ InstallCRD(k) \/ (k \in Bindings /\ DeleteBinding(k))
      PROVE  (server[Resource(i)] # Absent /\ server[Resource(i)].deleting => Attended(i))'
  <2>1. PICK obj : Store(k, obj) /\ UNCHANGED pass
    BY <1>4 DEF CollectGarbage, InstallCRD, DeleteBinding
  <2>2. ResourceKept(i) /\ queued \subseteq queued'
    BY <2>1, PutObjectEffect DEF Store
  <2> QED BY <2>1, <2>2, AttendedKept DEF pass, AtHandler
<1>5. CASE Crash
  BY <1>5 DEF Crash, Relist, Attended
<1>6. CASE ApiError
  BY <1>6, NoWriteEffect, AttendedKept DEF ApiError, AtHandler
<1>7. CASE NamespaceError
  BY <1>7, NoWriteEffect, AttendedKept DEF NamespaceError, NoWrite, AtHandler
<1> QED BY <1>1, <1>2, <1>3, <1>4, <1>5, <1>6, <1>7, KeysFacts DEF Environment

\* At the start there is nothing to attend to, and every step keeps it so.
LEMMA AttendedStep ==
  /\ Init => DeletionsAreAttended
  /\ TypeOK /\ FinalizerProtocol /\ DeletionsAreAttended /\ [Next]_vars => DeletionsAreAttended'
<1>1. Init => DeletionsAreAttended
  BY KeysFacts DEF Init, DeletionsAreAttended
<1>2. ASSUME TypeOK, FinalizerProtocol, DeletionsAreAttended, [Next]_vars
      PROVE  DeletionsAreAttended'
  <2> SUFFICES ASSUME NEW i \in Instances
               PROVE  (server[Resource(i)] # Absent /\ server[Resource(i)].deleting
                         => Attended(i))'
    BY DEF DeletionsAreAttended
  <2>1. CASE UNCHANGED vars
    BY <1>2, <2>1, NoWriteEffect, AttendedKept DEF vars, pass, AtHandler
  <2> QED BY <1>2, <2>1, WorkerAttended, EnvironmentAttended DEF Next
<1> QED BY <1>1, <1>2

\* Every deletion that is not over has a request that will finish it, whatever
\* conflict, crash or failed call interrupted the handler.
THEOREM DeletionsHaveRequests == Safety => []DeletionsAreAttended
<1>1. Init => DeletionsAreAttended
  BY AttendedStep
<1>2. TypeOK /\ FinalizerProtocol /\ DeletionsAreAttended /\ [Next]_vars => DeletionsAreAttended'
  BY AttendedStep
<1> QED BY <1>1, <1>2, TypeCorrect, ProtocolHolds, PTL DEF Safety

\* So at rest there is none: AtRestDeletionsAreDone.
THEOREM RestHasNoDeletion == Safety => []AtRestDeletionsAreDone
<1>1. TypeOK /\ DeletionsAreAttended => AtRestDeletionsAreDone
  <2> SUFFICES ASSUME TypeOK, DeletionsAreAttended, Quiescent, NEW i \in Instances,
                      server[Resource(i)] # Absent, server[Resource(i)].deleting
               PROVE  FALSE
    BY DEF AtRestDeletionsAreDone
  <2>1. Current(Resource(i)) /\ i \notin queued /\ pc = "idle"
    BY KeysFacts DEF Quiescent
  <2> QED BY <2>1 DEF DeletionsAreAttended, Attended, AtHandler
<1> QED BY <1>1, TypeCorrect, DeletionsHaveRequests, PTL
===============================================================================
