--------------------------- MODULE ControllerProofs ---------------------------
(***************************************************************************)
(* Proofs about ControllerReconciler: types.                               *)
(***************************************************************************)
EXTENDS ControllerProperties, SequenceLemmas

---------------------------------------------------------------------------
(* Data. *)

\* setDefaultValues leaves nothing out, and a second time it changes nothing.
LEMMA DefaultedShape ==
  ASSUME NEW s \in DefaultedSpecs
  PROVE  /\ s.rbac \in BOOLEAN /\ s.serviceAccount \in ServiceAccounts /\ s.rev \in Revs
         /\ setDefaultValues(s) = s
<1>1. PICK r \in Specs : s = setDefaultValues(r)
  BY DEF DefaultedSpecs
<1> DEFINE b == IF r.rbac = Unset THEN TRUE ELSE r.rbac
           a == IF r.serviceAccount = Unset
                THEN [enable |-> TRUE, name |-> "higress-controller"] ELSE r.serviceAccount
<1>2. r \in [rev : Revs, rbac : BOOLEAN \cup {Unset},
             serviceAccount : ServiceAccounts \cup {Unset}] 
  BY SpecsAssumption
<1>3. b \in BOOLEAN /\ b # Unset
  BY <1>2, UnsetAssumption
<1>4. a \in ServiceAccounts /\ a # Unset
  <2>1. [enable |-> TRUE, name |-> "higress-controller"] \in ServiceAccounts
    BY DEF ServiceAccounts, AccountNames
  <2>2. a \in ServiceAccounts
    BY <1>2, <2>1
  <2> HIDE DEF a
  <2> QED BY <2>2, UnsetAssumption
<1>5. s = [r EXCEPT !.rbac = b, !.serviceAccount = a]
  BY <1>1 DEF setDefaultValues
<1> HIDE DEF a, b
<1>6. s = [rev |-> r.rev, rbac |-> b, serviceAccount |-> a]
  BY <1>2, <1>5
<1>7. setDefaultValues(s) = s
  BY <1>3, <1>4, <1>6 DEF setDefaultValues
<1> QED BY <1>2, <1>3, <1>4, <1>6, <1>7

\* The defaults of a spec that is stored are among the defaulted ones.
LEMMA DefaultsOfStored ==
  ASSUME NEW s \in Specs \cup DefaultedSpecs
  PROVE  setDefaultValues(s) \in DefaultedSpecs
BY DefaultedShape DEF DefaultedSpecs

\* Filling in the defaults turns any resource the server may hold into a copy
\* Reconcile can work on, and touches nothing but the spec.
LEMMA DefaultsTyped ==
  ASSUME NEW cr \in Controllers
  PROVE  /\ WithDefaults(cr) \in Copies
         /\ WithDefaults(cr).spec = setDefaultValues(cr.spec)
         /\ WithDefaults(cr).uid = cr.uid /\ WithDefaults(cr).finalizer = cr.finalizer
         /\ WithDefaults(cr).deleting = cr.deleting /\ WithDefaults(cr).deployed = cr.deployed
<1>1. setDefaultValues(cr.spec) \in DefaultedSpecs
  BY DefaultsOfStored DEF Controllers
<1> DEFINE s == setDefaultValues(cr.spec)
<1>2. WithDefaults(cr) = [cr EXCEPT !.spec = s]
  BY DEF WithDefaults
<1> HIDE DEF s
<1> QED BY <1>1, <1>2 DEF Copies, Controllers, s

\* A copy is a resource the server may hold, and has its defaults.
LEMMA CopyFacts ==
  ASSUME NEW cr \in Copies
  PROVE  /\ cr \in Controllers /\ cr # Absent /\ cr.spec \in DefaultedSpecs
         /\ WithDefaults(cr) = cr
<1>1. cr \in Controllers /\ cr.spec \in DefaultedSpecs
  BY DEF Copies
<1>2. setDefaultValues(cr.spec) = cr.spec
  BY <1>1, DefaultedShape
<1>3. WithDefaults(cr) = [cr EXCEPT !.spec = cr.spec]
  BY <1>2 DEF WithDefaults
<1> QED BY <1>1, <1>3, AbsentAssumption DEF Controllers

---------------------------------------------------------------------------
(* Names. *)

\* The calls of two lists, one after the other.
LEMMA ElementsOfConcat ==
  ASSUME NEW S, NEW s \in Seq(S), NEW t \in Seq(S), NEW u, Joins(u, s, t)
  PROVE  u \in Seq(S) /\ Elements(u) = Elements(s) \cup Elements(t)
<1>1. Elements(u) = Members(u) /\ Elements(s) = Members(s) /\ Elements(t) = Members(t)
  BY DEF Elements, Members
<1> QED BY <1>1, ConcatMembers

\* The lists of which a pass's calls are made, and what is in them.
LEMMA CallLists ==
  ASSUME NEW i \in Instances, NEW s \in DefaultedSpecs
  PROVE  \E S :
           /\ CRDKeys \in Seq(S) /\ ServiceAccountKeys(i, s) \in Seq(S)
           /\ RbacKeys(i, s) \in Seq(S) /\ WorkloadKeys(i) \in Seq(S)
           /\ <<Resource(i)>> \in Seq(S)
<1> DEFINE S == Elements(CRDKeys) \cup
                {<<"serviceAccount", i[1], getServiceAccount(i, s)>>, ClusterRole, Binding(i, s),
                 <<"role", i[1], "higress-controller">>,
                 <<"roleBinding", i[1], getServiceAccount(i, s)>>,
                 <<"deployment", i[1], i[2]>>, <<"service", i[1], "higress-controller">>,
                 Resource(i)}
<1>1. CRDKeys \in Seq(S)
  <2>1. Len(CRDs) \in Nat
    BY CRDsAssumption, LenProperties
  <2>2. CRDKeys \in [1..Len(CRDs) -> {CRD(CRDs[n]) : n \in 1..Len(CRDs)}]
    BY DEF CRDKeys
  <2>3. CRDKeys \in Seq({CRD(CRDs[n]) : n \in 1..Len(CRDs)})
    BY <2>1, <2>2, SeqDef
  <2>4. Len(CRDKeys) = Len(CRDs) /\ DOMAIN CRDKeys = 1..Len(CRDs)
    BY <2>1, <2>2, <2>3, LenProperties DEF CRDKeys
  <2>5. CRDKeys \in [1..Len(CRDs) -> S]
    BY <2>2, <2>4 DEF Elements
  <2> QED BY <2>1, <2>5, SeqDef
<1>2. ServiceAccountKeys(i, s) \in Seq(S)
  <2>1. <<>> \in Seq(S) /\ <<<<"serviceAccount", i[1], getServiceAccount(i, s)>>>> \in Seq(S)
    OBVIOUS
  <2> QED BY <2>1 DEF ServiceAccountKeys
<1>3. RbacKeys(i, s) \in Seq(S)
  <2>1. <<>> \in Seq(S) /\ <<ClusterRole, Binding(i, s), <<"role", i[1], "higress-controller">>,
         <<"roleBinding", i[1], getServiceAccount(i, s)>>>> \in Seq(S)
    OBVIOUS
  <2> QED BY <2>1 DEF RbacKeys
<1>4. WorkloadKeys(i) \in Seq(S)
  BY DEF WorkloadKeys
<1>5. <<Resource(i)>> \in Seq(S)
  OBVIOUS
<1> QED BY <1>1, <1>2, <1>3, <1>4, <1>5

\* What a pass asks for: the elements of those lists, the status last.
ObjectCalls(i, s) ==
  Elements(CRDKeys) \cup Elements(ServiceAccountKeys(i, s))
  \cup Elements(RbacKeys(i, s)) \cup Elements(WorkloadKeys(i))
\* The calls of a pass ask for the objects of its spec and end with the status.
LEMMA CallsFacts ==
  ASSUME NEW i \in Instances, NEW s \in DefaultedSpecs
  PROVE  /\ Calls(i, s) \in Seq(Keys) /\ Calls(i, s) # <<>>
         /\ Calls(i, s)[Len(Calls(i, s))] = Resource(i)
         /\ Elements(Calls(i, s)) = ObjectCalls(i, s) \cup {Resource(i)}
         /\ \A n \in 1..(Len(Calls(i, s)) - 1) : Calls(i, s)[n] \in ObjectCalls(i, s)
<1> DEFINE a == CRDKeys \o ServiceAccountKeys(i, s)
           b == a \o RbacKeys(i, s)
           c == b \o WorkloadKeys(i)
           e == <<Resource(i)>>
           d == c \o e
<1>1. PICK S : /\ CRDKeys \in Seq(S) /\ ServiceAccountKeys(i, s) \in Seq(S)
               /\ RbacKeys(i, s) \in Seq(S) /\ WorkloadKeys(i) \in Seq(S)
               /\ e \in Seq(S)
  BY CallLists
<1>2. Calls(i, s) = d
  BY DEF Calls
<1>0. /\ Joins(a, CRDKeys, ServiceAccountKeys(i, s)) /\ Joins(b, a, RbacKeys(i, s))
      /\ Joins(c, b, WorkloadKeys(i)) /\ Joins(d, c, e)
  BY DEF Joins
<1> HIDE DEF d
<1>3. a \in Seq(S) /\ Elements(a) = Elements(CRDKeys) \cup Elements(ServiceAccountKeys(i, s))
  BY <1>0, <1>1, ElementsOfConcat
<1> HIDE DEF a
<1>4. b \in Seq(S) /\ Elements(b) = Elements(a) \cup Elements(RbacKeys(i, s))
  BY <1>0, <1>1, <1>3, ElementsOfConcat
<1> HIDE DEF b
<1>5. c \in Seq(S) /\ Elements(c) = Elements(b) \cup Elements(WorkloadKeys(i))
  BY <1>0, <1>1, <1>4, ElementsOfConcat
<1> HIDE DEF c
<1>6. Elements(e) = {Resource(i)}
  <2>1. Len(<<Resource(i)>>) = 1 /\ <<Resource(i)>>[1] = Resource(i) /\ 1..1 = {1}
    OBVIOUS
  <2> QED BY <2>1 DEF Elements
<1>00. e # <<>> /\ e[Len(e)] = Resource(i) /\ Len(e) = 1
  OBVIOUS
<1> HIDE DEF e
<1>7. d \in Seq(S) /\ Elements(d) = Elements(c) \cup {Resource(i)}
  BY <1>0, <1>1, <1>5, <1>6, ElementsOfConcat
<1>8. d # <<>> /\ d[Len(d)] = Resource(i)
  BY <1>0, <1>00, <1>1, <1>5, ConcatEnds DEF Joins
<1>9. Elements(d) \subseteq Keys
  BY <1>2 DEF Keys
<1>10. d \in Seq(Keys)
  <2>1. Len(d) \in Nat /\ d \in [1..Len(d) -> S]
    BY <1>7, LenProperties
  <2>2. d \in [1..Len(d) -> Keys]
    BY <1>9, <2>1 DEF Elements
  <2> QED BY <2>1, <2>2, SeqDef
<1>11. \A n \in 1..(Len(d) - 1) : d[n] \in Elements(c)
  <2>1. d = c \o e /\ Len(c) \in Nat
    BY <1>0, <1>5, LenProperties DEF Joins
  <2>2. Len(d) = Len(c) + Len(e)
    BY <1>1, <1>5, <2>1, ConcatProperties, Zenon
  <2>3. ASSUME NEW n \in 1..Len(c)
        PROVE  d[n] = c[n]
    <3>1. n \in 1..(Len(c) + Len(e)) /\ n <= Len(c)
      BY <1>00, <2>1, <2>3
    <3>2. (c \o e)[n] = IF n <= Len(c) THEN c[n] ELSE e[n - Len(c)]
      BY <1>1, <1>5, <3>1, ConcatProperties, Zenon
    <3> QED BY <2>1, <3>1, <3>2
  <2>4. Len(d) - 1 = Len(c)
    BY <1>00, <2>1, <2>2
  <2> QED BY <2>3, <2>4 DEF Elements
<1> QED BY <1>2, <1>3, <1>4, <1>5, <1>7, <1>8, <1>10, <1>11 DEF ObjectCalls

\* The kinds of what a pass asks for.
LEMMA ObjectCallKinds ==
  ASSUME NEW i \in Instances, NEW s \in DefaultedSpecs, NEW k \in ObjectCalls(i, s)
  PROVE  \/ k[1] = "crd" /\ k \in Elements(CRDKeys)
         \/ k = <<"serviceAccount", i[1], getServiceAccount(i, s)>> /\ s.serviceAccount.enable
         \/ k = ClusterRole /\ GrantsRbac(s)
         \/ k = Binding(i, s) /\ GrantsRbac(s)
         \/ k = <<"role", i[1], "higress-controller">> /\ GrantsRbac(s)
         \/ k = <<"roleBinding", i[1], getServiceAccount(i, s)>> /\ GrantsRbac(s)
         \/ k = <<"deployment", i[1], i[2]>>
         \/ k = <<"service", i[1], "higress-controller">>
<1>1. CASE k \in Elements(CRDKeys)
  <2>1. PICK n \in 1..Len(CRDKeys) : k = CRDKeys[n]
    BY <1>1 DEF Elements
  <2>2. Len(CRDs) \in Nat
    BY CRDsAssumption, LenProperties
  <2>3. CRDKeys \in [1..Len(CRDs) -> {CRD(CRDs[m]) : m \in 1..Len(CRDs)}]
    BY DEF CRDKeys
  <2>4. CRDKeys \in Seq({CRD(CRDs[m]) : m \in 1..Len(CRDs)})
    BY <2>2, <2>3, SeqDef
  <2>5. k \in {CRD(CRDs[m]) : m \in 1..Len(CRDs)}
    BY <2>1, <2>4, ElementOfSeq
  <2>6. PICK m \in 1..Len(CRDs) : k = CRD(CRDs[m])
    BY <2>5
  <2>7. k[1] = "crd"
    BY <2>6 DEF CRD
  <2> QED BY <1>1, <2>7
<1>2. CASE k \in Elements(ServiceAccountKeys(i, s))
  <2>1. PICK n \in 1..Len(ServiceAccountKeys(i, s)) : k = ServiceAccountKeys(i, s)[n]
    BY <1>2 DEF Elements
  <2>2. s.serviceAccount.enable
    <3> SUFFICES ASSUME ~s.serviceAccount.enable PROVE FALSE
      OBVIOUS
    <3>1. ServiceAccountKeys(i, s) = <<>>
      BY DEF ServiceAccountKeys
    <3> QED BY <2>1, <3>1
  <2>3. ServiceAccountKeys(i, s) = <<<<"serviceAccount", i[1], getServiceAccount(i, s)>>>>
    BY <2>2 DEF ServiceAccountKeys
  <2> QED BY <2>1, <2>2, <2>3
<1>3. CASE k \in Elements(RbacKeys(i, s))
  <2>1. PICK n \in 1..Len(RbacKeys(i, s)) : k = RbacKeys(i, s)[n]
    BY <1>3 DEF Elements
  <2>2. GrantsRbac(s)
    <3> SUFFICES ASSUME ~GrantsRbac(s) PROVE FALSE
      OBVIOUS
    <3>1. RbacKeys(i, s) = <<>>
      BY DEF RbacKeys
    <3> QED BY <2>1, <3>1
  <2>3. RbacKeys(i, s) = <<ClusterRole, Binding(i, s), <<"role", i[1], "higress-controller">>,
                           <<"roleBinding", i[1], getServiceAccount(i, s)>>>>
    BY <2>2 DEF RbacKeys
  <2>4. n = 1 \/ n = 2 \/ n = 3 \/ n = 4
    BY <2>1, <2>3
  <2> QED BY <2>1, <2>2, <2>3, <2>4
<1>4. CASE k \in Elements(WorkloadKeys(i))
  BY <1>4 DEF WorkloadKeys, Elements
<1> QED BY <1>1, <1>2, <1>3, <1>4 DEF ObjectCalls

\* What a pass asks for, kind by kind, is what its spec enables.
LEMMA CallKinds ==
  ASSUME NEW i \in Instances, NEW s \in DefaultedSpecs, NEW k \in Elements(Calls(i, s))
  PROVE  \/ k[1] = "crd" /\ k \in Elements(CRDKeys)
         \/ k = <<"serviceAccount", i[1], getServiceAccount(i, s)>> /\ s.serviceAccount.enable
         \/ k = ClusterRole /\ GrantsRbac(s)
         \/ k = Binding(i, s) /\ GrantsRbac(s)
         \/ k = <<"role", i[1], "higress-controller">> /\ GrantsRbac(s)
         \/ k = <<"roleBinding", i[1], getServiceAccount(i, s)>> /\ GrantsRbac(s)
         \/ k = <<"deployment", i[1], i[2]>>
         \/ k = <<"service", i[1], "higress-controller">>
         \/ k = Resource(i)
<1>1. k \in ObjectCalls(i, s) \/ k = Resource(i)
  BY CallsFacts
<1>2. CASE k \in ObjectCalls(i, s)
  BY <1>2, ObjectCallKinds
<1> QED BY <1>1, <1>2

\* Every key of an object has another kind than the resources' keys.
LEMMA KeysFacts ==
  /\ \A i \in Instances : Resource(i) \in Keys /\ Resource(i) \in Resources
  /\ \A i \in Instances, j \in Instances : Resource(i) = Resource(j) => i = j
  /\ Objects \subseteq Keys /\ Objects \cap Resources = {}
  /\ \A k \in Resources : k[1] = "higressController"
  /\ \A k \in Objects : k[1] # "higressController"
  /\ \A i \in Instances : Versions(Resource(i)) = {Absent} \cup Controllers
  /\ \A k \in Objects : Versions(k) = {Absent} \cup Managed
  /\ Bindings \subseteq Objects
<1>1. \A i \in Instances : Resource(i) \in Keys /\ Resource(i) \in Resources
  BY DEF Keys, Resources
<1>2. \A i \in Instances, j \in Instances : Resource(i) = Resource(j) => i = j
  BY InstancesAssumption DEF Resource
<1>3. \A k \in Resources : k[1] = "higressController"
  BY DEF Resources, Resource
<1>4. ASSUME NEW k \in Objects
      PROVE  k[1] # "higressController"
  <2>1. PICK i \in Instances, s \in DefaultedSpecs : k \in Elements(Calls(i, s))
    BY DEF Objects, Keys
  <2>2. k # Resource(i)
    BY DEF Objects, Resources
  <2>3. ClusterRole[1] # "higressController" /\ Binding(i, s)[1] # "higressController"
    BY DEF ClusterRole, Binding
  <2> QED BY <2>1, <2>2, <2>3, CallKinds
<1> QED BY <1>1, <1>2, <1>3, <1>4 DEF Objects, Bindings, Versions

\* The objects a pass asks for are known, and so is the binding its handler
\* writes.
LEMMA PassKeys ==
  ASSUME NEW i \in Instances, NEW s \in DefaultedSpecs
  PROVE  /\ Elements(Calls(i, s)) \subseteq Keys
         /\ GrantsRbac(s) => Binding(i, s) \in Bindings
<1>1. Elements(Calls(i, s)) \subseteq Keys
  BY DEF Keys
<1>2. ASSUME GrantsRbac(s)
      PROVE  Binding(i, s) \in Elements(Calls(i, s))
  <2>1. Binding(i, s) = RbacKeys(i, s)[2] /\ 2 \in 1..Len(RbacKeys(i, s))
    BY <1>2 DEF RbacKeys
  <2>2. Binding(i, s) \in Elements(RbacKeys(i, s))
    BY <2>1 DEF Elements
  <2> QED BY <2>2, CallsFacts DEF ObjectCalls
<1>3. Binding(i, s)[1] = "clusterRoleBinding"
  BY DEF Binding
<1> QED BY <1>1, <1>2, <1>3, KeysFacts DEF Objects, Bindings

---------------------------------------------------------------------------
(* The store: writes, deliveries and restarts keep it well formed. *)

\* A write of a well-formed version leaves the store well formed.
LEMMA PutTyped ==
  ASSUME StoreTypes, NEW k \in Keys, NEW obj \in Versions(k), Put(k, obj)
  PROVE  StoreTypes'
<1>1. obj \in AnyVersion /\ server[k] \in AnyVersion /\ server[k] \in Versions(k)
  BY DEF StoreTypes, Versions, AnyVersion
<1>2. server' \in [Keys -> AnyVersion] /\ \A j \in Keys : server'[j] \in Versions(j)
  BY <1>1 DEF StoreTypes, Put
<1>3. past[k] \in Seq(AnyVersion)
  BY DEF StoreTypes
<1>4. Append(past[k], server[k]) \in Seq(AnyVersion)
  BY <1>1, <1>3
<1>5. \A i \in 1..Len(Append(past[k], server[k])) :
        Append(past[k], server[k])[i] \in Versions(k)
  BY <1>1, <1>3 DEF StoreTypes
<1>6. past' \in [Keys -> Seq(AnyVersion)]
  BY <1>4 DEF StoreTypes, Put
<1>7. ASSUME NEW j \in Keys
      PROVE  \A i \in 1..Len(past'[j]) : past'[j][i] \in Versions(j)
  <2>1. past'[j] = past[j] \/ (j = k /\ past'[j] = Append(past[k], server[k]))
    BY DEF StoreTypes, Put
  <2> QED BY <2>1, <1>5 DEF StoreTypes
<1> QED BY <1>2, <1>6, <1>7 DEF StoreTypes, Versions

\* So does an informer that moves on to the next version.
LEMMA AdvanceTyped ==
  ASSUME StoreTypes, NEW k \in Keys, Advance(k)
  PROVE  StoreTypes'
<1>1. past[k] \in Seq(AnyVersion) /\ past[k] # <<>>
  BY DEF StoreTypes, Advance, Current
<1>2. /\ Tail(past[k]) \in Seq(AnyVersion) /\ Len(Tail(past[k])) = Len(past[k]) - 1
      /\ \A i \in 1..Len(Tail(past[k])) : Tail(past[k])[i] = past[k][i + 1]
  BY <1>1, HeadTailProperties
<1>3. Len(past[k]) \in Nat
  BY <1>1, LenProperties
<1>4. \A i \in 1..Len(Tail(past[k])) : Tail(past[k])[i] \in Versions(k)
  <2> TAKE i \in 1..Len(Tail(past[k]))
  <2>1. i + 1 \in 1..Len(past[k])
    BY <1>2, <1>3
  <2> QED BY <1>2, <2>1 DEF StoreTypes
<1>5. past' \in [Keys -> Seq(AnyVersion)]
  BY <1>2 DEF StoreTypes, Advance
<1>6. ASSUME NEW j \in Keys
      PROVE  \A i \in 1..Len(past'[j]) : past'[j][i] \in Versions(j)
  <2>1. past'[j] = past[j] \/ (j = k /\ past'[j] = Tail(past[k]))
    BY DEF StoreTypes, Advance
  <2> QED BY <2>1, <1>4 DEF StoreTypes
<1> QED BY <1>5, <1>6 DEF StoreTypes, Advance, Versions

\* So does a restarted process that lists every kind afresh.
LEMMA RelistTyped ==
  ASSUME StoreTypes, Relist
  PROVE  StoreTypes'
<1>1. past' \in [Keys -> Seq(AnyVersion)] /\ \A k \in Keys : past'[k] = <<>>
  BY EmptySeq DEF StoreTypes, Relist
<1> QED BY <1>1, EmptySeq DEF StoreTypes, Relist, Versions

\* What a Get from the cache returns is well formed.
LEMMA CachedTyped ==
  ASSUME StoreTypes, NEW k \in Keys
  PROVE  Cached(k) \in Versions(k)
<1>1. CASE Current(k)
  BY <1>1 DEF StoreTypes, Cached
<1>2. CASE ~Current(k)
  <2>1. past[k] \in Seq(AnyVersion) /\ past[k] # <<>>
    BY <1>2 DEF StoreTypes, Current
  <2>2. 1 \in 1..Len(past[k]) /\ Head(past[k]) = past[k][1]
    BY <2>1
  <2> QED BY <1>2, <2>2 DEF StoreTypes, Cached
<1> QED BY <1>1, <1>2

---------------------------------------------------------------------------
(* What is written. *)

\* What a pass creates is well formed.
LEMMA InitialTyped ==
  ASSUME NEW k, NEW i \in Instances, NEW cr \in Copies
  PROVE  Initial(k, i, cr) \in Managed
<1> DEFINE o == IF k[1] \in Owned THEN <<i, cr.uid>> ELSE NoOwner
           c == IF k[1] = "deployment" THEN cr.spec.rev ELSE ""
           s == IF k[1] \in {"clusterRoleBinding", "roleBinding"}
                THEN {SubjectOf(i, cr.spec)} ELSE {}
<1>1. cr.uid \in Nat /\ cr.spec \in DefaultedSpecs
  BY DEF Copies, Controllers
<1>2. cr.spec.rev \in Revs
  BY <1>1, DefaultedShape
<1>3. o \in {NoOwner} \cup (Instances \X Nat)
  BY <1>1
<1>4. Rendered(k, cr.spec) \in Revs
  BY <1>2 DEF Rendered, Revs
<1>5. c \in Revs \cup {""}
  BY <1>2
<1>6. s \in SUBSET Subjects
  BY <1>1 DEF Subjects
<1> HIDE DEF o, c, s
<1>7. [owner |-> o, rev |-> Rendered(k, cr.spec), containers |-> c, subjects |-> s] \in Managed
  BY <1>3, <1>4, <1>5, <1>6 DEF Managed
<1> QED BY <1>7 DEF Initial, o, c, s

\* What the MutateFn makes of the object read is well formed; it touches either
\* the subjects, to which it adds, or what is rendered.
LEMMA MutatedTyped ==
  ASSUME NEW k, NEW i \in Instances, NEW cr \in Copies, NEW old \in {Absent} \cup Managed
  PROVE  /\ Mutated(k, old, i, cr) \in Managed
         /\ old # Absent =>
              /\ Mutated(k, old, i, cr).owner = old.owner
              /\ Mutated(k, old, i, cr).containers = old.containers
              /\ old.subjects \subseteq Mutated(k, old, i, cr).subjects
              /\ k[1] \in {"clusterRoleBinding", "roleBinding"} =>
                   /\ Mutated(k, old, i, cr).rev = old.rev
                   /\ Mutated(k, old, i, cr).subjects
                        = old.subjects \cup {SubjectOf(i, cr.spec)}
              /\ k[1] \notin {"clusterRoleBinding", "roleBinding"} =>
                   /\ Mutated(k, old, i, cr).rev = Rendered(k, cr.spec)
                   /\ Mutated(k, old, i, cr).subjects = old.subjects
<1>1. cr.spec \in DefaultedSpecs
  BY DEF Copies
<1>2. cr.spec.rev \in Revs
  BY <1>1, DefaultedShape
<1>3. CASE old = Absent
  BY <1>3, InitialTyped DEF Mutated
<1>4. CASE old # Absent /\ k[1] \in {"clusterRoleBinding", "roleBinding"}
  <2> DEFINE s == old.subjects \cup {SubjectOf(i, cr.spec)}
  <2>1. Mutated(k, old, i, cr) = [old EXCEPT !.subjects = s]
    BY <1>4 DEF Mutated
  <2>2. s \in SUBSET Subjects /\ old.subjects \subseteq s
    <3>1. SubjectOf(i, cr.spec) \in Subjects
      BY <1>1 DEF Subjects
    <3>2. old.subjects \subseteq Subjects
      BY <1>4 DEF Managed
    <3> QED BY <3>1, <3>2
  <2> HIDE DEF s
  <2>3. [old EXCEPT !.subjects = s] \in Managed
    BY <1>4, <2>2 DEF Managed
  <2> QED BY <1>4, <2>1, <2>2, <2>3 DEF Managed, s
<1>5. CASE old # Absent /\ k[1] \notin {"clusterRoleBinding", "roleBinding"}
  <2> DEFINE r == Rendered(k, cr.spec)
  <2>1. Mutated(k, old, i, cr) = [old EXCEPT !.rev = r]
    BY <1>5 DEF Mutated
  <2>2. r \in Revs
    BY <1>2 DEF Rendered, Revs
  <2> HIDE DEF r
  <2>3. [old EXCEPT !.rev = r] \in Managed
    BY <1>5, <2>2 DEF Managed
  <2> QED BY <1>5, <2>1, <2>3 DEF Managed, r
<1> QED BY <1>3, <1>4, <1>5

\* A write together with the event it causes.
LEMMA StoreTyped ==
  ASSUME TypeOK, NEW k \in Keys, NEW obj \in Versions(k), Store(k, obj)
  PROVE  StoreTypes' /\ queued' \subseteq Instances
<1>1. StoreTypes'
  BY PutTyped DEF TypeOK, Store
<1>2. Woken(k, server[k], obj) \subseteq Instances
  <2>1. CASE k \in Resources
    BY <2>1, InstancesAssumption DEF Woken, Resources, Resource
  <2>2. CASE k \notin Resources
    <3>1. {server[k], obj} \subseteq {Absent} \cup Managed
      BY <2>2 DEF TypeOK, StoreTypes, Versions
    <3>2. Owners({server[k], obj}) \subseteq Instances
      BY <3>1 DEF Owners, Managed
    <3> QED BY <2>2, <3>2 DEF Woken
  <2> QED BY <2>1, <2>2
<1> QED BY <1>1, <1>2 DEF Store, TypeOK, PassTypes

\* A call that does not write.
LEMMA NoWriteTyped ==
  ASSUME TypeOK, NoWrite
  PROVE  StoreTypes' /\ queued' \subseteq Instances
BY DEF TypeOK, NoWrite, StoreTypes, PassTypes, Versions

\* A step that leaves the surroundings alone.
ClusterTypes == terminating \subseteq {i[1] : i \in Instances} /\ lastUid \in [Instances -> Nat]
\* It keeps their types.
LEMMA ClusterKept ==
  ASSUME TypeOK, UNCHANGED cluster
  PROVE  ClusterTypes'
BY DEF TypeOK, ClusterTypes, cluster

---------------------------------------------------------------------------
(* Types: one lemma per group of actions. *)

\* A finished pass is well formed.
LEMMA EndPassTyped ==
  ASSUME EndPass, queued' \subseteq Instances
  PROVE  PassTypes'
BY DEF EndPass, PassTypes

\* Reconcile returns an error.
LEMMA RequeueTyped ==
  ASSUME TypeOK, pc # "idle", Requeue
  PROVE  TypeOK'
<1>1. queued' \subseteq Instances
  BY DEF Requeue, TypeOK, PassTypes
<1>2. PassTypes'
  BY <1>1, EndPassTyped DEF Requeue
<1> QED BY <1>2 DEF Requeue, TypeOK, StoreTypes, cluster, Versions

\* The copy of a pass that is under way.
LEMMA CopyOfPass ==
  ASSUME TypeOK, pc # "idle"
  PROVE  /\ who \in Instances /\ who # Absent /\ inst \in Copies /\ inst \in Controllers
         /\ inst # Absent /\ inst.spec \in DefaultedSpecs /\ WithDefaults(inst) = inst
<1>1. who \in Instances /\ inst \in Copies
  BY DEF TypeOK, PassTypes
<1> QED BY <1>1, CopyFacts, AbsentAssumption

\* The call a pass is at is for an object, unless it is the last.
LEMMA CallOfPass ==
  ASSUME TypeOK, pc \in {"apply", "writeCRD"}, Head(todo)[1] # "higressController"
  PROVE  /\ Head(todo) \in Objects /\ Head(todo) \in Keys /\ todo \in Seq(Keys) /\ todo # <<>>
         /\ Head(todo) # todo[Len(todo)]
<1>1. todo \in Seq(Keys) /\ todo # <<>> /\ todo[Len(todo)] = Resource(who) /\ who \in Instances
  BY DEF TypeOK, PassTypes
<1>2. Head(todo) \in Keys
  BY <1>1, HeadAndTail
<1>3. Resource(who)[1] = "higressController" /\ Head(todo) \notin Resources
  BY <1>1, <1>2, KeysFacts
<1> QED BY <1>1, <1>2, <1>3 DEF Objects

\* A pass that goes on after a call other than the last still has calls left.
LEMMA ProceedTyped ==
  ASSUME TypeOK, pc \in {"apply", "writeCRD"}, Head(todo)[1] # "higressController",
         Proceed, StoreTypes', queued' \subseteq Instances
  PROVE  TypeOK'
<1>1. /\ todo' \in Seq(Keys) /\ todo' # <<>> /\ todo'[Len(todo')] = todo[Len(todo)]
  BY CallOfPass, TailEnds DEF Proceed
<1>2. PassTypes'
  BY <1>1 DEF Proceed, TypeOK, PassTypes
<1> QED BY <1>2, ClusterKept DEF Proceed, TypeOK, ClusterTypes

\* A step that only moves the pass to another place before its calls.
LEMMA GotoTyped ==
  ASSUME TypeOK, pc # "idle", NEW label \in {"removeFinalizer", "addFinalizer"},
         Goto(label), StoreTypes', queued' \subseteq Instances
  PROVE  TypeOK'
<1>1. PassTypes'
  BY DEF Goto, TypeOK, PassTypes
<1> QED BY <1>1, ClusterKept DEF Goto, TypeOK, ClusterTypes

\* Reconcile begins on the cached resource, or has nothing to do.
LEMMA StartTyped ==
  ASSUME TypeOK, NEW i \in Instances, DropRequest(i) \/ StartReconcile(i)
  PROVE  TypeOK'
<1>1. CASE DropRequest(i)
  BY <1>1 DEF DropRequest, pass, cluster, TypeOK, StoreTypes, PassTypes, Versions
<1>2. CASE StartReconcile(i)
  <2> DEFINE cr == Cached(Resource(i))
  <2>1. cr \in {Absent} \cup Controllers
    BY CachedTyped, KeysFacts DEF TypeOK
  <2>2. cr # Absent
    BY <1>2 DEF StartReconcile, NothingToDo
  <2>3. inst' \in Copies /\ who' = i /\ i # Absent
    BY <1>2, <2>1, <2>2, DefaultsTyped, AbsentAssumption DEF StartReconcile
  <2>4. PassTypes'
    BY <1>2, <2>3 DEF StartReconcile, TypeOK, PassTypes, Current
  <2> QED BY <1>2, <2>4, ClusterKept DEF StartReconcile, TypeOK, StoreTypes, ClusterTypes, Versions
<1> QED BY <1>1, <1>2

\* Taking a subject out of a binding leaves it well formed.
LEMMA WithoutSubjectTyped ==
  ASSUME NEW crb \in Managed, NEW subject
  PROVE  [crb EXCEPT !.subjects = WithoutSubject(@, subject)] \in Managed
<1> DEFINE s == WithoutSubject(crb.subjects, subject)
<1>1. s \in SUBSET Subjects
  BY DEF WithoutSubject, Managed
<1> HIDE DEF s
<1>2. [crb EXCEPT !.subjects = s] \in Managed
  BY <1>1 DEF Managed
<1> QED BY <1>2 DEF s

\* finalizeHigressController writes the binding without the subject.
LEMMA FinalizeTyped ==
  ASSUME TypeOK, FinalizeBinding
  PROVE  TypeOK'
<1> DEFINE k == Binding(who, inst.spec)
           crb == Cached(k)
           new == [crb EXCEPT !.subjects = WithoutSubject(@, SubjectOf(who, inst.spec))]
<1>1. CASE Goto("removeFinalizer") /\ NoWrite
  BY <1>1, GotoTyped, NoWriteTyped DEF FinalizeBinding
<1>2. CASE Requeue
  BY <1>2, RequeueTyped DEF FinalizeBinding
<1>3. CASE GrantsRbac(inst.spec) /\ crb # Absent /\ Store(k, new) /\ Goto("removeFinalizer")
  <2>1. pc # "idle"
    BY DEF FinalizeBinding
  <2>2. k \in Objects /\ k \in Keys
    BY <1>3, <2>1, CopyOfPass, PassKeys, KeysFacts
  <2>3. crb \in Managed
    BY <1>3, <2>2, CachedTyped, KeysFacts DEF TypeOK
  <2>4. new \in Versions(k)
    BY <2>2, <2>3, WithoutSubjectTyped, KeysFacts
  <2> HIDE DEF new, crb, k
  <2>5. StoreTypes' /\ queued' \subseteq Instances
    BY <1>3, <2>2, <2>4, StoreTyped
  <2> QED BY <1>3, <2>1, <2>5, GotoTyped
<1> QED BY <1>1, <1>2, <1>3 DEF FinalizeBinding

\* The finalizer is removed.
LEMMA RemoveTyped ==
  ASSUME TypeOK, RemoveFinalizer
  PROVE  TypeOK'
<1>1. CASE Requeue
  BY <1>1, RequeueTyped DEF RemoveFinalizer
<1>2. CASE Store(Resource(who), Absent) /\ EndPass /\ UNCHANGED cluster
  <2>1. who \in Instances
    BY CopyOfPass DEF RemoveFinalizer
  <2>2. StoreTypes' /\ queued' \subseteq Instances
    BY <1>2, <2>1, StoreTyped, KeysFacts
  <2> QED BY <1>2, <2>2, EndPassTyped, ClusterKept DEF TypeOK, ClusterTypes
<1> QED BY <1>1, <1>2 DEF RemoveFinalizer

\* The calls of a pass begin.
LEMMA BeginTyped ==
  ASSUME TypeOK, pc # "idle", BeginCalls, who' = who, inst' \in Copies, inst'.spec = inst.spec,
         instCurrent' = instCurrent, queued' \subseteq Instances
  PROVE  PassTypes'
<1>1. who \in Instances /\ who # Absent /\ inst.spec \in DefaultedSpecs
  BY CopyOfPass
<1>2. /\ todo' \in Seq(Keys) /\ todo' # <<>> /\ todo'[Len(todo')] = Resource(who)
  BY <1>1, CallsFacts DEF BeginCalls
<1> QED BY <1>1, <1>2 DEF BeginCalls, TypeOK, PassTypes

\* The Namespace is checked before the first write.
LEMMA NamespaceTyped ==
  ASSUME TypeOK, CheckNamespace \/ NamespaceTerminating
  PROVE  TypeOK'
<1>1. StoreTypes' /\ queued' \subseteq Instances /\ ClusterTypes' /\ pc # "idle"
  BY NoWriteTyped, ClusterKept DEF CheckNamespace, NamespaceTerminating, cluster
<1>2. CASE CheckNamespace
  <2>1. inst' \in Copies /\ inst'.spec = inst.spec /\ who' = who /\ instCurrent' = instCurrent
    BY <1>1, <1>2, CopyOfPass DEF CheckNamespace
  <2>2. CASE BeginCalls
    BY <1>1, <2>1, <2>2, BeginTyped DEF TypeOK, ClusterTypes
  <2>3. CASE pc' = "addFinalizer"
    <3>1. PassTypes'
      BY <1>1, <2>1, <2>3 DEF TypeOK, PassTypes
    <3> QED BY <1>1, <3>1 DEF TypeOK, ClusterTypes
  <2> QED BY <1>2, <2>2, <2>3 DEF CheckNamespace
<1>3. CASE NamespaceTerminating
  BY <1>1, <1>3, EndPassTyped DEF NamespaceTerminating, TypeOK, ClusterTypes
<1> QED BY <1>2, <1>3

\* The finalizer is added to the copy and the copy is written.
LEMMA AddFinalizerTyped ==
  ASSUME TypeOK, AddFinalizer
  PROVE  TypeOK'
<1> DEFINE written == [inst EXCEPT !.finalizer = TRUE]
<1>1. CASE Requeue
  BY <1>1, RequeueTyped DEF AddFinalizer
<1>2. CASE instCurrent
  <2>1. pc # "idle" /\ inst \in Copies /\ who \in Instances
    BY CopyOfPass DEF AddFinalizer
  <2>2. /\ Store(Resource(who), written) /\ inst' = written /\ BeginCalls
        /\ UNCHANGED <<who, instCurrent, crdSeen, cluster>>
    BY <1>2 DEF AddFinalizer
  <2>3. written \in Copies /\ written \in Controllers /\ written.spec = inst.spec
    BY <2>1 DEF Copies, Controllers
  <2> HIDE DEF written
  <2>4. StoreTypes' /\ queued' \subseteq Instances
    BY <2>1, <2>2, <2>3, StoreTyped, KeysFacts
  <2>5. PassTypes'
    BY <2>1, <2>2, <2>3, <2>4, BeginTyped
  <2> QED BY <2>2, <2>4, <2>5, ClusterKept DEF TypeOK, ClusterTypes
<1> QED BY <1>1, <1>2 DEF AddFinalizer

\* createCRDs: the Get, and what follows it.
LEMMA CRDTyped ==
  ASSUME TypeOK, GetCRD \/ SkipCRD \/ WriteCRD
  PROVE  TypeOK'
<1> DEFINE k == Head(todo)
<1>1. pc \in {"apply", "writeCRD"} /\ pc # "idle" /\ k[1] = "crd" /\ k[1] # "higressController"
  BY DEF GetCRD, SkipCRD, WriteCRD, Calling, TypeOK, PassTypes
<1>2. k \in Keys /\ k \in Objects
  BY <1>1, CallOfPass
<1> HIDE DEF k
<1>3. CASE GetCRD
  <2>1. StoreTypes' /\ queued' \subseteq Instances /\ ClusterTypes'
    BY <1>3, NoWriteTyped, ClusterKept DEF GetCRD, cluster
  <2>2. crdSeen' \in Versions(k) /\ Versions(k)' = Versions(k)
    BY <1>2, <1>3 DEF GetCRD, TypeOK, StoreTypes, k, Versions
  <2>3. PassTypes'
    BY <1>1, <1>3, <2>1, <2>2 DEF GetCRD, TypeOK, PassTypes, k, Versions
  <2> QED BY <2>1, <2>3 DEF TypeOK, ClusterTypes
<1>4. CASE Proceed /\ NoWrite
  BY <1>1, <1>4, ProceedTyped, NoWriteTyped DEF k
<1>5. CASE Store(k, Initial(k, who, inst)) /\ Proceed
  <2>1. Initial(k, who, inst) \in Versions(k)
    BY <1>1, <1>2, CopyOfPass, InitialTyped, KeysFacts
  <2>2. StoreTypes' /\ queued' \subseteq Instances
    BY <1>2, <1>5, <2>1, StoreTyped
  <2> QED BY <1>1, <1>5, <2>2, ProceedTyped DEF k
<1>6. CASE Requeue
  BY <1>1, <1>6, RequeueTyped
<1> QED BY <1>3, <1>4, <1>5, <1>6 DEF SkipCRD, WriteCRD, k

\* CreateIfNotExits writes a fresh service account or nothing.
LEMMA CreateServiceAccountTyped ==
  ASSUME TypeOK, CreateServiceAccount
  PROVE  TypeOK'
<1> DEFINE k == Head(todo)
<1>1. pc = "apply" /\ pc # "idle" /\ k[1] = "serviceAccount" /\ k[1] # "higressController"
  BY DEF CreateServiceAccount, Calling
<1>2. k \in Keys /\ k \in Objects
  BY <1>1, CallOfPass
<1> HIDE DEF k
<1>3. CASE Proceed /\ NoWrite
  BY <1>1, <1>3, ProceedTyped, NoWriteTyped DEF k
<1>4. CASE Store(k, Initial(k, who, inst)) /\ Proceed
  <2>1. Initial(k, who, inst) \in Versions(k)
    BY <1>1, <1>2, CopyOfPass, InitialTyped, KeysFacts
  <2>2. StoreTypes' /\ queued' \subseteq Instances
    BY <1>2, <1>4, <2>1, StoreTyped
  <2> QED BY <1>1, <1>4, <2>2, ProceedTyped DEF k
<1>5. CASE Requeue
  BY <1>1, <1>5, RequeueTyped
<1> QED BY <1>3, <1>4, <1>5 DEF CreateServiceAccount, k

\* CreateOrUpdate writes the mutated object or nothing.
LEMMA CreateOrUpdateTyped ==
  ASSUME TypeOK, NEW kind, kind # "higressController", CreateOrUpdate(kind)
  PROVE  TypeOK'
<1> DEFINE k == Head(todo)
           new == Mutated(k, Cached(k), who, inst)
<1>1. pc = "apply" /\ pc # "idle" /\ k[1] # "higressController"
  BY DEF CreateOrUpdate, Calling
<1>2. k \in Keys /\ k \in Objects
  BY <1>1, CallOfPass
<1>3. \/ Proceed /\ NoWrite
      \/ Store(k, new) /\ Proceed
      \/ Requeue
  BY DEF CreateOrUpdate
<1> HIDE DEF k, new
<1>4. CASE Proceed /\ NoWrite
  BY <1>1, <1>4, ProceedTyped, NoWriteTyped DEF k
<1>5. CASE Store(k, new) /\ Proceed
  <2>1. Cached(k) \in {Absent} \cup Managed
    BY <1>2, CachedTyped, KeysFacts DEF TypeOK
  <2>2. new \in Versions(k)
    BY <1>1, <1>2, <2>1, CopyOfPass, MutatedTyped, KeysFacts DEF new
  <2>3. StoreTypes' /\ queued' \subseteq Instances
    BY <1>2, <1>5, <2>2, StoreTyped
  <2> QED BY <1>1, <1>5, <2>3, ProceedTyped DEF k
<1>6. CASE Requeue
  BY <1>1, <1>6, RequeueTyped
<1> QED BY <1>3, <1>4, <1>5, <1>6

\* Status().Update of the whole copy: it is accepted only if the resource is there.
LEMMA UpdateStatusTyped ==
  ASSUME TypeOK, CopyTrust, UpdateStatus
  PROVE  TypeOK'
<1> DEFINE cr == server[Resource(who)]
           new == [cr EXCEPT !.deployed = TRUE]
<1>1. pc # "idle" /\ who \in Instances /\ Resource(who) \in Keys
  BY CopyOfPass, KeysFacts DEF UpdateStatus, Calling
<1>2. CASE NoWrite /\ EndPass /\ UNCHANGED cluster
  BY <1>2, NoWriteTyped, EndPassTyped, ClusterKept DEF TypeOK, ClusterTypes
<1>3. CASE Requeue
  BY <1>1, <1>3, RequeueTyped
<1>4. CASE instCurrent /\ Store(Resource(who), new) /\ EndPass /\ UNCHANGED cluster
  <2>1. cr \in Controllers
    BY <1>1, <1>4, KeysFacts DEF TypeOK, StoreTypes, CopyTrust
  <2>2. new \in Controllers
    BY <2>1 DEF Controllers
  <2> HIDE DEF new
  <2>3. StoreTypes' /\ queued' \subseteq Instances
    BY <1>1, <1>4, <2>2, StoreTyped, KeysFacts
  <2> QED BY <1>4, <2>3, EndPassTyped, ClusterKept DEF TypeOK, ClusterTypes
<1> QED BY <1>2, <1>3, <1>4 DEF UpdateStatus

\* Every action of a pass keeps the types.
LEMMA WorkerTyped ==
  ASSUME TypeOK, CopyTrust, Worker
  PROVE  TypeOK'
<1>1. CASE \E i \in Instances : DropRequest(i) \/ StartReconcile(i)
  BY <1>1, StartTyped
<1>2. CASE \/ FinalizeBinding \/ RemoveFinalizer \/ CheckNamespace \/ NamespaceTerminating
           \/ AddFinalizer
  BY <1>2, FinalizeTyped, RemoveTyped, NamespaceTyped, AddFinalizerTyped
<1>3. CASE GetCRD \/ SkipCRD \/ WriteCRD \/ CreateServiceAccount
  BY <1>3, CRDTyped, CreateServiceAccountTyped
<1>4. CASE \E kind \in {"clusterRole", "clusterRoleBinding", "role", "roleBinding",
                       "deployment", "service"} : CreateOrUpdate(kind)
  BY <1>4, CreateOrUpdateTyped
<1>5. CASE UpdateStatus
  BY <1>5, UpdateStatusTyped
<1> QED BY <1>1, <1>2, <1>3, <1>4, <1>5 DEF Worker

\* The user writes a resource.
LEMMA WriteResourceTyped ==
  ASSUME TypeOK, NEW i \in Instances, NEW cr \in {Absent} \cup Controllers,
         WriteResource(i, cr)
  PROVE  StoreTypes' /\ PassTypes' /\ UNCHANGED terminating
<1>1. Store(Resource(i), cr) /\ UNCHANGED <<pc, who, todo, inst, crdSeen, terminating>>
  BY DEF WriteResource
<1>2. StoreTypes' /\ queued' \subseteq Instances
  BY <1>1, StoreTyped, KeysFacts
<1>3. instCurrent' \in BOOLEAN
  BY DEF WriteResource, TypeOK, PassTypes
<1>4. PassTypes'
  BY <1>1, <1>2, <1>3 DEF TypeOK, PassTypes, Versions
<1> QED BY <1>1, <1>2, <1>4

\* What the user does keeps the types.
LEMMA UserTyped ==
  ASSUME TypeOK, NEW i \in Instances,
         \/ \E spec \in CreatedSpecs : Create(i, spec)
         \/ \E spec \in Specs : Edit(i, spec)
         \/ Delete(i)
  PROVE  TypeOK'
<1> DEFINE cr == server[Resource(i)]
<1>1. cr \in {Absent} \cup Controllers /\ lastUid[i] \in Nat
  BY KeysFacts DEF TypeOK, StoreTypes
<1>2. ASSUME NEW obj \in {Absent} \cup Controllers, WriteResource(i, obj),
             lastUid' \in [Instances -> Nat]
      PROVE  TypeOK'
  BY <1>2, WriteResourceTyped DEF TypeOK
<1> HIDE DEF cr
<1>3. ASSUME NEW spec \in CreatedSpecs, Create(i, spec)
      PROVE  TypeOK'
  <2> DEFINE new == [uid |-> lastUid[i] + 1, spec |-> spec, finalizer |-> FALSE,
                     deleting |-> FALSE, deployed |-> FALSE]
  <2>1. new \in Controllers
    BY <1>1, CreatedSpecsAssumption DEF Controllers
  <2>2. lastUid' \in [Instances -> Nat]
    BY <1>1, <1>3 DEF Create, TypeOK
  <2>3. WriteResource(i, new)
    BY <1>3 DEF Create
  <2> HIDE DEF new
  <2> QED BY <1>2, <2>1, <2>2, <2>3
<1>4. ASSUME NEW spec \in Specs, Edit(i, spec)
      PROVE  TypeOK'
  <2> DEFINE new == [cr EXCEPT !.spec = spec]
  <2>1. cr # Absent /\ WriteResource(i, new) /\ lastUid' = lastUid
    BY <1>4 DEF Edit, cr
  <2>2. new \in Controllers
    BY <1>1, <2>1 DEF Controllers
  <2> HIDE DEF new
  <2> QED BY <1>2, <2>1, <2>2 DEF TypeOK
<1>5. ASSUME Delete(i)
      PROVE  TypeOK'
  <2> DEFINE new == IF cr.finalizer THEN [cr EXCEPT !.deleting = TRUE] ELSE Absent
  <2>1. cr # Absent /\ WriteResource(i, new) /\ lastUid' = lastUid
    BY <1>5 DEF Delete, cr
  <2>2. new \in {Absent} \cup Controllers
    BY <1>1, <2>1 DEF Controllers
  <2> HIDE DEF new
  <2> QED BY <1>2, <2>1, <2>2 DEF TypeOK
<1> QED BY <1>3, <1>4, <1>5

\* An object written by nobody's pass.
LEMMA OutsideWriteTyped ==
  ASSUME TypeOK, NEW k \in Keys, NEW obj \in Versions(k), Store(k, obj),
         UNCHANGED <<pass, terminating, lastUid>>
  PROVE  TypeOK'
<1>1. StoreTypes' /\ queued' \subseteq Instances
  BY StoreTyped
<1>2. PassTypes'
  BY <1>1 DEF TypeOK, PassTypes, pass, Versions
<1> QED BY <1>1, <1>2 DEF TypeOK

\* An informer's event wakes the resource or the object's owners.
LEMMA DeliverTyped ==
  ASSUME TypeOK, NEW k \in Keys, Deliver(k)
  PROVE  TypeOK'
<1>1. StoreTypes' /\ Cached(k) \in Versions(k)
  BY AdvanceTyped, CachedTyped DEF TypeOK, Deliver
<1>2. NextVersion(k) \in Versions(k)
  <2>1. past[k] \in Seq(AnyVersion) /\ past[k] # <<>>
    BY DEF Deliver, Advance, Current, TypeOK, StoreTypes
  <2>2. Len(past[k]) \in Nat /\ Len(past[k]) # 0
    BY <2>1, EmptySeq, LenProperties
  <2>0. \A n \in Nat : n # 0 => n = 1 \/ 2 \in 1..n
    OBVIOUS
  <2>3. Len(past[k]) = 1 \/ 2 \in 1..Len(past[k])
    BY <2>2, <2>0, Zenon
  <2> QED BY <2>3 DEF NextVersion, TypeOK, StoreTypes
<1>3. Woken(k, Cached(k), NextVersion(k)) \subseteq Instances
  <2>1. CASE k \in Resources
    BY <2>1, InstancesAssumption DEF Woken, Resources, Resource
  <2>2. CASE k \notin Resources
    <3>1. {Cached(k), NextVersion(k)} \subseteq {Absent} \cup Managed
      BY <1>1, <1>2, <2>2 DEF Versions
    <3>2. Owners({Cached(k), NextVersion(k)}) \subseteq Instances
      BY <3>1 DEF Owners, Managed
    <3> QED BY <2>2, <3>2 DEF Woken
  <2> QED BY <2>1, <2>2
<1>4. PassTypes'
  BY <1>3 DEF Deliver, TypeOK, PassTypes, pass, Versions
<1> QED BY <1>1, <1>4, ClusterKept DEF Deliver, TypeOK, ClusterTypes

\* What happens outside the operator keeps the types.
LEMMA EnvironmentTyped ==
  ASSUME TypeOK, Environment
  PROVE  TypeOK'
<1>1. CASE \E k \in Keys : Deliver(k)
  BY <1>1, DeliverTyped
<1>2. ASSUME NEW i \in Instances,
             \/ \E spec \in CreatedSpecs : Create(i, spec)
             \/ \E spec \in Specs : Edit(i, spec)
             \/ Delete(i)
      PROVE  TypeOK'
  BY <1>2, UserTyped
<1>3. ASSUME NEW i \in Instances, Terminate(i)
      PROVE  TypeOK'
  <2>1. StoreTypes' /\ queued' \subseteq Instances
    BY <1>3, NoWriteTyped DEF Terminate
  <2>2. PassTypes'
    BY <1>3, <2>1 DEF Terminate, TypeOK, PassTypes, pass, Versions
  <2> QED BY <1>3, <2>1, <2>2 DEF Terminate, TypeOK
<1>4. CASE \E k \in Objects : CollectGarbage(k)
  BY <1>4, OutsideWriteTyped, KeysFacts DEF CollectGarbage, cluster
<1>5. ASSUME NEW k \in Objects, InstallCRD(k)
      PROVE  TypeOK'
  <2> DEFINE new == [owner |-> NoOwner, rev |-> Foreign, containers |-> "", subjects |-> {}]
  <2>1. new \in Managed
    BY DEF Managed, Revs
  <2>2. Store(k, new) /\ UNCHANGED <<pass, terminating, lastUid>>
    BY <1>5 DEF InstallCRD
  <2> HIDE DEF new
  <2> QED BY <2>1, <2>2, OutsideWriteTyped, KeysFacts
<1>6. CASE \E k \in Bindings : DeleteBinding(k)
  BY <1>6, OutsideWriteTyped, KeysFacts DEF DeleteBinding
<1>7. CASE Crash
  BY <1>7, RelistTyped, EndPassTyped DEF Crash, TypeOK
<1>8. CASE ApiError
  <2>1. queued' \subseteq Instances
    BY <1>8 DEF ApiError, TypeOK, PassTypes
  <2> QED BY <1>8, <2>1, EndPassTyped DEF ApiError, TypeOK, StoreTypes, Versions
<1>9. CASE NamespaceError
  BY <1>9, NoWriteTyped, EndPassTyped DEF NamespaceError, TypeOK
<1> QED BY <1>1, <1>2, <1>3, <1>4, <1>5, <1>6, <1>7, <1>8, <1>9 DEF Environment

\* The empty cluster is well typed.
LEMMA InitTyped ==
  ASSUME Init
  PROVE  TypeOK
<1>1. server \in [Keys -> AnyVersion] /\ past \in [Keys -> Seq(AnyVersion)]
  BY DEF Init, AnyVersion
<1>2. \A k \in Keys : server[k] = Absent /\ past[k] = <<>>
  BY DEF Init
<1>3. StoreTypes
  BY <1>1, <1>2 DEF StoreTypes, Versions
<1> QED BY <1>3 DEF Init, TypeOK, PassTypes

\* So is every state that follows a well typed one whose copy can be trusted.
LEMMA StepTyped ==
  ASSUME TypeOK, CopyTrust, [Next]_vars
  PROVE  TypeOK'
<1>1. CASE UNCHANGED vars
  BY <1>1 DEF vars, pass, cluster, TypeOK, StoreTypes, PassTypes, Versions
<1> QED BY <1>1, WorkerTyped, EnvironmentTyped DEF Next
===============================================================================
