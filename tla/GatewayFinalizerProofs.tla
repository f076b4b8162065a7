------------------------ MODULE GatewayFinalizerProofs ------------------------
(***************************************************************************)
(* Proofs about GatewayReconciler: its types; then the finalizer protocol, *)
(* FinalizerProtocol, which is inductive, and what follows from it.        *)
(***************************************************************************)
EXTENDS GatewayProperties, SequenceLemmas

---------------------------------------------------------------------------
(* Data. *)

\* Filling in the defaults (setDefaultValues) turns any gateway the server may
\* hold into a copy Reconcile can work on.
LEMMA DefaultsTyped ==
  ASSUME NEW gw \in Gateways
  PROVE  WithDefaults(gw) \in Copies
BY DEF WithDefaults, setDefaultValues, OrDefault, Gateways, RawSpecs, Copies, DefaultedSpecs

\* A copy may be written back to the server.
LEMMA CopyIsGateway ==
  ASSUME NEW gw \in Copies
  PROVE  gw \in Gateways
BY DEF Gateways, RawSpecs, Copies, DefaultedSpecs

\* getEffectiveScaleMode answers with one of the three modes.
LEMMA ModeTyped ==
  ASSUME NEW spec, spec.autoScaling \in AutoScalings
  PROVE  getEffectiveScaleMode(spec) \in AutoScalingModes
BY DEF getEffectiveScaleMode, AutoScalings, AutoScalingModes

\* The status a pass computes is well formed.
LEMMA DesiredStatusTyped ==
  ASSUME NEW gw \in Copies, NEW found \in BOOLEAN
  PROVE  DesiredStatus(gw, found) \in Statuses
<1>1. getEffectiveScaleMode(gw.spec) \in AutoScalingModes
  BY ModeTyped DEF Copies, DefaultedSpecs
<1> QED
  BY <1>1 DEF DesiredStatus, markConfigurationInvalid, markResourcesReady,
              Statuses, Conditions, Copies

\* patchStatus's merge patch of well-formed statuses is well formed.
LEMMA MergePatchTyped ==
  ASSUME NEW s \in Statuses, NEW b \in Statuses, NEW n \in Statuses
  PROVE  MergePatch(s, b, n) \in Statuses
BY DEF MergePatch, Patched, Statuses

\* What CreateOrUpdate sends is well formed.
LEMMA InitialTyped ==
  ASSUME NEW k, NEW gw \in Copies
  PROVE  Initial(k, gw) \in Managed
<1>1. gw.uid \in Nat /\ gw.spec.rev \in Revs /\ gw.spec.replicas \in Nat
  BY DEF Copies, DefaultedSpecs
<1>2. Rendered(k, gw) \in Revs
  BY <1>1 DEF Rendered, Revs
<1> DEFINE o == IF k \in Controlled THEN gw.uid ELSE NoOwner
           n == IF k = "deployment" THEN gw.spec.replicas ELSE 0
           s == IF k \in {"clusterRoleBinding", "roleBinding"} THEN {Subject} ELSE {}
<1>3. o \in Nat
  BY <1>1 DEF NoOwner
<1>4. n \in Nat
  BY <1>1
<1>5. s \in SUBSET {Subject}
  OBVIOUS
<1> HIDE DEF o, n, s
<1>6. [owner |-> o, rev |-> Rendered(k, gw), replicas |-> n, subjects |-> s] \in Managed
  BY <1>2, <1>3, <1>4, <1>5 DEF Managed
<1> QED
  BY <1>6 DEF Initial, o, n, s

\* What the MutateFn makes of the object read is well formed.
LEMMA MutatedTyped ==
  ASSUME NEW k, NEW gw \in Copies, NEW old \in {Absent} \cup Managed
  PROVE  Mutated(k, old, gw) \in Managed
<1>1. CASE old = Absent
  BY <1>1, InitialTyped DEF Mutated
<1>2. CASE old # Absent /\ k = "deployment"
  BY <1>2 DEF Mutated, updateDeploymentSpec, Managed, Copies, DefaultedSpecs
<1>3. CASE old # Absent /\ k \in {"clusterRoleBinding", "roleBinding"}
  BY <1>3 DEF Mutated, Managed, Subject
<1>4. CASE old # Absent /\ k \notin {"deployment", "clusterRoleBinding", "roleBinding"}
  BY <1>4 DEF Mutated, Managed, Rendered, Copies, DefaultedSpecs, Revs
<1> QED BY <1>1, <1>2, <1>3, <1>4

\* The calls of a pass are known calls, and the last of them is patchStatus or
\* the lookup of KEDA, which puts patchStatus last.
LEMMA CallsTyped ==
  ASSUME NEW spec \in DefaultedSpecs
  PROVE  /\ Calls(spec) \in Seq(CallNames) /\ Calls(spec) # <<>>
         /\ Calls(spec)[Len(Calls(spec))] \in LastCalls
<1> DEFINE mode == getEffectiveScaleMode(spec)
<1>1. mode \in AutoScalingModes
  BY ModeTyped DEF DefaultedSpecs
<1>2. {"serviceAccount", "clusterRole", "clusterRoleBinding", "role", "roleBinding",
       "gatewayConfigMap", "skywalkingConfigMap", "deployment", "hpa", "scaledObject",
       "service", "deleteHPA", "deleteScaledObject", "findKEDA", "patchStatus"}
      \subseteq CallNames
  BY DEF CallNames, Objects, Controlled, Rbac
<1>3. <<"serviceAccount">> \in Seq(CallNames) /\ <<"deployment">> \in Seq(CallNames)
  BY <1>2
<1>4. RbacCalls(spec) \in Seq(CallNames)
  BY <1>2 DEF RbacCalls
<1>5. ConfigMapCalls(spec) \in Seq(CallNames)
  BY <1>2 DEF ConfigMapCalls
<1>6. /\ AutoscalerCalls(mode) \in Seq(CallNames) /\ AutoscalerCalls(mode) # <<>>
      /\ AutoscalerCalls(mode)[Len(AutoscalerCalls(mode))] \in LastCalls
  <2> HIDE DEF mode
  <2> QED BY <1>1, <1>2 DEF AutoscalerCalls, AutoScalingModes, LastCalls
<1>7. CASE ~Valid(spec)
  BY <1>2, <1>7 DEF Calls, LastCalls
<1>8. CASE Valid(spec)
  <2> DEFINE a == <<"serviceAccount">> \o RbacCalls(spec)
             b == a \o ConfigMapCalls(spec)
             c == b \o <<"deployment">>
             d == c \o AutoscalerCalls(mode)
  <2>1. Calls(spec) = d
    BY <1>8 DEF Calls
  <2>2. a \in Seq(CallNames)
    BY <1>3, <1>4, ConcatProperties
  <2> HIDE DEF a
  <2>3. b \in Seq(CallNames)
    BY <2>2, <1>5, ConcatProperties
  <2> HIDE DEF b
  <2>4. c \in Seq(CallNames)
    BY <2>3, <1>3, ConcatProperties
  <2> HIDE DEF c, mode
  <2>5. d \in Seq(CallNames) /\ d # <<>> /\ d[Len(d)] \in LastCalls
    BY <2>4, <1>6, ConcatEnds
  <2> QED BY <2>1, <2>5
<1> QED BY <1>7, <1>8

---------------------------------------------------------------------------
(* The store: writes, deliveries and restarts keep it well formed. *)

\* A write of a well-formed version leaves the store well formed.
LEMMA PutTyped ==
  ASSUME StoreTypes, NEW k \in Kinds, NEW obj \in Versions(k), Put(k, obj)
  PROVE  StoreTypes'
<1>1. obj \in AnyVersion /\ server[k] \in AnyVersion /\ server[k] \in Versions(k)
  BY DEF StoreTypes, Versions, AnyVersion
<1>2. server' \in [Kinds -> AnyVersion] /\ \A j \in Kinds : server'[j] \in Versions(j)
  BY <1>1 DEF StoreTypes, Put
<1>3. past[k] \in Seq(AnyVersion)
  BY DEF StoreTypes
<1>4. Append(past[k], server[k]) \in Seq(AnyVersion)
  BY <1>1, <1>3
<1>5. \A i \in 1..Len(Append(past[k], server[k])) :
        Append(past[k], server[k])[i] \in Versions(k)
  BY <1>1, <1>3 DEF StoreTypes
<1>6. past' \in [Kinds -> Seq(AnyVersion)]
  BY <1>4 DEF StoreTypes, Put
<1>7. ASSUME NEW j \in Kinds
      PROVE  \A i \in 1..Len(past'[j]) : past'[j][i] \in Versions(j)
  <2>1. past'[j] = past[j] \/ (j = k /\ past'[j] = Append(past[k], server[k]))
    BY DEF StoreTypes, Put
  <2> QED BY <2>1, <1>5 DEF StoreTypes
<1> QED BY <1>2, <1>6, <1>7 DEF StoreTypes, Versions

\* So does an informer that moves on to the next version.
LEMMA AdvanceTyped ==
  ASSUME StoreTypes, NEW k \in Kinds, Advance(k)
  PROVE  StoreTypes'
<1>1. past[k] \in Seq(AnyVersion) /\ past[k] # <<>>
  BY DEF StoreTypes, Advance, Current
<1>2. /\ Tail(past[k]) \in Seq(AnyVersion) /\ Len(Tail(past[k])) = Len(past[k]) - 1
      /\ \A i \in 1..Len(Tail(past[k])) : Tail(past[k])[i] = past[k][i + 1]
  BY <1>1, HeadTailProperties
<1>3. Len(past[k]) \in Nat
  BY <1>1, LenProperties
<1>4. \A i \in 1..Len(Tail(past[k])) : Tail(past[k])[i] \in Versions(k)
  <2> TAKE i \in 1..Len(Tail(past[k]))
  <2>1. i + 1 \in 1..Len(past[k])
    BY <1>2, <1>3
  <2> QED BY <1>2, <2>1 DEF StoreTypes
<1>5. past' \in [Kinds -> Seq(AnyVersion)]
  BY <1>2 DEF StoreTypes, Advance
<1>6. ASSUME NEW j \in Kinds
      PROVE  \A i \in 1..Len(past'[j]) : past'[j][i] \in Versions(j)
  <2>1. past'[j] = past[j] \/ (j = k /\ past'[j] = Tail(past[k]))
    BY DEF StoreTypes, Advance
  <2> QED BY <2>1, <1>4 DEF StoreTypes
<1> QED BY <1>5, <1>6 DEF StoreTypes, Advance, Versions

\* So does a restarted process that lists every kind afresh.
LEMMA RelistTyped ==
  ASSUME StoreTypes, Relist
  PROVE  StoreTypes'
<1>1. past' \in [Kinds -> Seq(AnyVersion)] /\ \A k \in Kinds : past'[k] = <<>>
  BY EmptySeq DEF StoreTypes, Relist
<1> QED BY <1>1, EmptySeq DEF StoreTypes, Relist, Versions

\* What a Get from the cache returns is well formed.
LEMMA CachedTyped ==
  ASSUME StoreTypes, NEW k \in Kinds
  PROVE  Cached(k) \in Versions(k)
<1>1. CASE Current(k)
  BY <1>1 DEF StoreTypes, Cached
<1>2. CASE ~Current(k)
  <2>1. past[k] \in Seq(AnyVersion) /\ past[k] # <<>>
    BY <1>2 DEF StoreTypes, Current
  <2>2. 1 \in 1..Len(past[k]) /\ Head(past[k]) = past[k][1]
    BY <2>1
  <2> QED BY <1>2, <2>2 DEF StoreTypes, Cached
<1> QED BY <1>1, <1>2
---------------------------------------------------------------------------
(* The pass. *)

\* A finished pass is well formed: it has neither copy nor calls.
LEMMA EndPassTyped ==
  ASSUME EndPass, queued' \in BOOLEAN
  PROVE  PassTypes'
BY EmptySeq DEF EndPass, PassTypes

\* A pass that goes on after a call other than the last still has calls left.
LEMMA ProceedTyped ==
  ASSUME PassTypes, NEW call, Calling(call), call \notin LastCalls, Proceed,
         queued' \in BOOLEAN
  PROVE  PassTypes'
<1>1. todo \in Seq(CallNames) /\ todo # <<>> /\ Head(todo) # todo[Len(todo)]
  BY DEF PassTypes, Calling
<1>2. todo' \in Seq(CallNames) /\ todo' # <<>> /\ todo'[Len(todo')] = todo[Len(todo)]
  BY <1>1, TailEnds DEF Proceed
<1> QED BY <1>2 DEF Proceed, PassTypes, Calling

\* Reconcile returns an error.
LEMMA RequeueTyped ==
  ASSUME TypeOK, Requeue
  PROVE  TypeOK'
<1>1. PassTypes'
  BY EndPassTyped DEF Requeue
<1> QED BY <1>1 DEF Requeue, TypeOK, StoreTypes, ClusterTypes, cluster, Versions

\* A write together with the event it causes.
LEMMA StoreTyped ==
  ASSUME TypeOK, NEW k \in Kinds, NEW obj \in Versions(k), Store(k, obj)
  PROVE  StoreTypes' /\ queued' \in BOOLEAN
BY PutTyped DEF TypeOK, Store, Notifies, PassTypes

\* A call that does not write.
LEMMA NoWriteTyped ==
  ASSUME TypeOK, NoWrite
  PROVE  StoreTypes' /\ queued' \in BOOLEAN
BY DEF TypeOK, NoWrite, StoreTypes, PassTypes, Versions

\* A step that leaves the surroundings alone.
LEMMA ClusterKept ==
  ASSUME TypeOK, UNCHANGED cluster
  PROVE  ClusterTypes'
BY DEF TypeOK, ClusterTypes, cluster

\* The names of the objects the code works on are among the kinds.
LEMMA KindsFacts ==
  /\ "gateway" \in Kinds /\ "gateway" \notin Objects /\ Objects \subseteq Kinds
  /\ "clusterRoleBinding" \in Objects /\ "deployment" \in Objects
  /\ "serviceAccount" \in Objects /\ "hpa" \in Objects /\ "scaledObject" \in Objects
BY DEF Kinds, Objects, Controlled, Rbac

\* An object's versions are Managed, the gateway's are Gateways.
LEMMA VersionsFacts ==
  /\ Versions("gateway") = {Absent} \cup Gateways
  /\ \A k \in Objects : Versions(k) = {Absent} \cup Managed
BY KindsFacts DEF Versions

---------------------------------------------------------------------------
(* Types: one lemma per group of actions. *)

\* Reconcile begins on the cached gateway, or has nothing to do.
LEMMA StartTyped ==
  ASSUME TypeOK, DropRequest \/ StartReconcile
  PROVE  TypeOK'
<1>1. CASE DropRequest
  BY <1>1 DEF DropRequest, pass, cluster, TypeOK, StoreTypes, PassTypes, ClusterTypes, Versions
<1>2. CASE StartReconcile
  <2>1. Cached("gateway") \in Versions("gateway")
    BY CachedTyped, KindsFacts DEF TypeOK
  <2>2. Cached("gateway") # Absent
    BY <1>2 DEF StartReconcile, NothingToDo
  <2>3. inst' \in Copies
    BY <1>2, <2>1, <2>2, VersionsFacts, DefaultsTyped DEF StartReconcile
  <2>4. inst' # Absent
    BY <2>3, CopyIsGateway, AbsentAssumption
  <2>5. PassTypes'
    BY <1>2, <2>3, <2>4 DEF StartReconcile, TypeOK, PassTypes, Current
  <2> QED BY <1>2, <2>5 DEF StartReconcile, TypeOK, StoreTypes, ClusterTypes, cluster, Versions
<1> QED BY <1>1, <1>2

\* finalizeHigressGateway writes the binding without the subject.
LEMMA FinalizeTyped ==
  ASSUME TypeOK, FinalizeBinding
  PROVE  TypeOK'
<1> DEFINE crb == Cached("clusterRoleBinding")
           new == [crb EXCEPT !.subjects = @ \ {Subject}]
<1>1. CASE Requeue
  BY <1>1, RequeueTyped
<1>2. CASE crb # Absent /\ Current("clusterRoleBinding")
  <2>1. crb \in Managed
    BY <1>2, CachedTyped, KindsFacts, VersionsFacts DEF TypeOK
  <2>2. new \in Managed
    BY <2>1 DEF Managed
  <2>3. /\ Store("clusterRoleBinding", new) /\ pc' = "removeFinalizer"
        /\ UNCHANGED <<todo, inst, instCurrent, kedaFound, cluster>>
    BY <1>2 DEF FinalizeBinding
  <2> HIDE DEF crb, new
  <2>4. StoreTypes' /\ queued' \in BOOLEAN
    BY <2>2, <2>3, StoreTyped, KindsFacts, VersionsFacts
  <2>5. PassTypes'
    BY <2>3, <2>4 DEF TypeOK, PassTypes, FinalizeBinding
  <2> QED BY <2>3, <2>4, <2>5, ClusterKept DEF TypeOK
<1> QED BY <1>1, <1>2 DEF FinalizeBinding

\* The finalizer is removed.
LEMMA RemoveTyped ==
  ASSUME TypeOK, RemoveFinalizer
  PROVE  TypeOK'
<1>1. CASE Requeue
  BY <1>1, RequeueTyped
<1>2. CASE Store("gateway", Absent) /\ EndPass /\ UNCHANGED cluster
  <2>1. StoreTypes' /\ queued' \in BOOLEAN
    BY <1>2, StoreTyped, KindsFacts, VersionsFacts
  <2> QED BY <1>2, <2>1, EndPassTyped, ClusterKept DEF TypeOK
<1> QED BY <1>1, <1>2 DEF RemoveFinalizer

\* The copy of a pass that is under way.
LEMMA CopyOfPass ==
  ASSUME TypeOK, pc # "idle"
  PROVE  inst \in Copies /\ inst \in Gateways /\ inst.spec \in DefaultedSpecs
<1>1. inst \in Copies
  BY DEF TypeOK, PassTypes
<1> QED BY <1>1, CopyIsGateway DEF Copies

\* The Namespace is checked before the first write.
LEMMA NamespaceTyped ==
  ASSUME TypeOK, CheckNamespace \/ NamespaceTerminating
  PROVE  TypeOK'
<1>1. StoreTypes' /\ queued' \in BOOLEAN /\ ClusterTypes'
  BY NoWriteTyped, ClusterKept DEF CheckNamespace, NamespaceTerminating, cluster
<1>2. CASE CheckNamespace
  <2>1. /\ Calls(inst.spec) \in Seq(CallNames) /\ Calls(inst.spec) # <<>>
        /\ Calls(inst.spec)[Len(Calls(inst.spec))] \in LastCalls
    BY <1>2, CopyOfPass, CallsTyped DEF CheckNamespace
  <2>2. PassTypes'
    BY <1>1, <1>2, <2>1 DEF CheckNamespace, BeginCalls, TypeOK, PassTypes
  <2> QED BY <1>1, <2>2 DEF TypeOK
<1>3. CASE NamespaceTerminating
  BY <1>1, <1>3, EndPassTyped DEF NamespaceTerminating, TypeOK
<1> QED BY <1>2, <1>3

\* The finalizer is added to the copy and the copy is written.
LEMMA AddFinalizerTyped ==
  ASSUME TypeOK, AddFinalizer
  PROVE  TypeOK'
<1> DEFINE g == IF inst.spec = server["gateway"].spec THEN inst.gen ELSE inst.gen + 1
           written == [inst EXCEPT !.finalizer = TRUE, !.gen = g]
<1>1. CASE Requeue
  BY <1>1, RequeueTyped
<1>2. CASE instCurrent
  <2>1. inst \in Gateways
    BY CopyOfPass DEF AddFinalizer
  <2>2. g \in Nat
    BY <2>1 DEF Gateways
  <2>3. /\ Store("gateway", written) /\ pc' = "reread" /\ instCurrent' = FALSE
        /\ UNCHANGED <<todo, inst, kedaFound, cluster>> /\ pc = "addFinalizer"
    BY <1>2 DEF AddFinalizer
  <2> HIDE DEF g
  <2>4. written \in Gateways
    BY <2>1, <2>2 DEF Gateways
  <2> HIDE DEF written
  <2>5. StoreTypes' /\ queued' \in BOOLEAN
    BY <2>3, <2>4, StoreTyped, KindsFacts, VersionsFacts
  <2>6. PassTypes'
    BY <2>3, <2>5 DEF TypeOK, PassTypes
  <2> QED BY <2>3, <2>5, <2>6, ClusterKept DEF TypeOK
<1> QED BY <1>1, <1>2 DEF AddFinalizer

\* The second Get replaces the copy.
LEMMA RereadTyped ==
  ASSUME TypeOK, Reread
  PROVE  TypeOK'
<1>1. CASE Requeue
  BY <1>1, RequeueTyped
<1>2. CASE Cached("gateway") # Absent
  <2>1. /\ inst' = WithDefaults(Cached("gateway")) /\ pc' = "apply"
        /\ todo' = Calls(inst'.spec)
        /\ UNCHANGED <<instCurrent, kedaFound, cluster>> /\ NoWrite
    BY <1>2 DEF Reread, BeginCalls
  <2>2. inst' \in Copies
    BY <1>2, <2>1, CachedTyped, KindsFacts, VersionsFacts, DefaultsTyped DEF TypeOK
  <2>3. inst' # Absent /\ inst'.spec \in DefaultedSpecs
    BY <2>2, CopyIsGateway, AbsentAssumption DEF Copies
  <2>4. todo' \in Seq(CallNames) /\ todo' # <<>> /\ todo'[Len(todo')] \in LastCalls
    BY <2>1, <2>3, CallsTyped
  <2>5. StoreTypes' /\ queued' \in BOOLEAN
    BY <2>1, NoWriteTyped
  <2>6. PassTypes'
    BY <2>1, <2>2, <2>3, <2>4, <2>5 DEF TypeOK, PassTypes
  <2> QED BY <2>1, <2>5, <2>6, ClusterKept DEF TypeOK
<1> QED BY <1>1, <1>2 DEF Reread

\* A successful call: the store stays well formed and the pass goes on.
LEMMA CallTyped ==
  ASSUME TypeOK, NEW call, Calling(call), call \notin LastCalls, Proceed,
         UNCHANGED cluster, StoreTypes', queued' \in BOOLEAN
  PROVE  TypeOK'
BY ProceedTyped, ClusterKept DEF TypeOK

\* CreateIfNotExits writes a fresh service account or nothing.
LEMMA CreateServiceAccountTyped ==
  ASSUME TypeOK, CreateServiceAccount
  PROVE  TypeOK'
<1> DEFINE new == Initial("serviceAccount", inst)
<1>1. pc = "apply" /\ Calling("serviceAccount") /\ "serviceAccount" \notin LastCalls
  BY DEF CreateServiceAccount, Calling, LastCalls
<1>2. CASE Proceed /\ NoWrite /\ UNCHANGED cluster
  BY <1>1, <1>2, CallTyped, NoWriteTyped
<1>3. CASE Store("serviceAccount", new) /\ Proceed /\ UNCHANGED cluster
  <2>1. new \in Versions("serviceAccount")
    BY <1>1, CopyOfPass, InitialTyped, KindsFacts, VersionsFacts
  <2>2. StoreTypes' /\ queued' \in BOOLEAN
    BY <1>3, <2>1, StoreTyped, KindsFacts
  <2> QED BY <1>1, <1>3, <2>2, CallTyped
<1>4. CASE Requeue
  BY <1>4, RequeueTyped
<1> QED BY <1>2, <1>3, <1>4 DEF CreateServiceAccount

\* CreateOrUpdate writes the mutated object or nothing.
LEMMA CreateOrUpdateTyped ==
  ASSUME TypeOK, NEW k \in Objects, CreateOrUpdate(k)
  PROVE  TypeOK'
<1> DEFINE new == Mutated(k, Cached(k), inst)
<1>1. pc = "apply" /\ Calling(k) /\ k \notin LastCalls
  BY DEF CreateOrUpdate, Calling, LastCalls, Objects, Controlled, Rbac
<1>2. CASE Proceed /\ NoWrite /\ UNCHANGED cluster
  BY <1>1, <1>2, CallTyped, NoWriteTyped
<1>3. CASE Store(k, new) /\ Proceed /\ UNCHANGED cluster
  <2>1. Cached(k) \in {Absent} \cup Managed
    BY CachedTyped, KindsFacts, VersionsFacts DEF TypeOK
  <2>2. new \in Versions(k)
    BY <1>1, <2>1, CopyOfPass, MutatedTyped, VersionsFacts
  <2>3. StoreTypes' /\ queued' \in BOOLEAN
    BY <1>3, <2>2, StoreTyped, KindsFacts
  <2> QED BY <1>1, <1>3, <2>3, CallTyped
<1>4. CASE Requeue
  BY <1>4, RequeueTyped
<1> QED BY <1>2, <1>3, <1>4 DEF CreateOrUpdate

\* deleteNativeHPAIfExists and deleteKEDAScaledObjectIfExists.
LEMMA DeleteTyped ==
  ASSUME TypeOK, NEW k \in Objects, NEW call, call \notin LastCalls, DeleteIfExists(call, k)
  PROVE  TypeOK'
<1>1. Calling(call) /\ Proceed /\ UNCHANGED cluster
  BY DEF DeleteIfExists
<1>2. StoreTypes' /\ queued' \in BOOLEAN
  <2>1. CASE NoWrite
    BY <2>1, NoWriteTyped
  <2>2. CASE Store(k, Absent)
    BY <2>2, StoreTyped, KindsFacts, VersionsFacts
  <2> QED BY <2>1, <2>2 DEF DeleteIfExists
<1> QED BY <1>1, <1>2, CallTyped

\* isKEDACRDInstalled decides which calls are left.
LEMMA FindKEDATyped ==
  ASSUME TypeOK, FindKEDA
  PROVE  TypeOK'
<1>1. StoreTypes' /\ queued' \in BOOLEAN /\ ClusterTypes'
  BY NoWriteTyped, ClusterKept DEF FindKEDA
<1>2. todo' \in Seq(CallNames) /\ todo' # <<>> /\ todo'[Len(todo')] \in LastCalls
  <2>1. {"scaledObject", "service", "patchStatus"} \subseteq CallNames
    BY DEF CallNames, Objects, Controlled
  <2>2. /\ <<"scaledObject", "service", "patchStatus">> \in Seq(CallNames)
        /\ <<"service", "patchStatus">> \in Seq(CallNames)
    BY <2>1
  <2> QED BY <2>2 DEF FindKEDA, LastCalls
<1>3. PassTypes'
  BY <1>1, <1>2 DEF FindKEDA, TypeOK, PassTypes, ClusterTypes
<1> QED BY <1>1, <1>3 DEF TypeOK

\* What Restart does to the pass and the store.
LEMMA RestartTyped ==
  ASSUME TypeOK, Restart
  PROVE  StoreTypes' /\ PassTypes'
BY RelistTyped, EndPassTyped DEF TypeOK, Restart

\* The two ways in which initSkywalkingConfigMap ends a pass.
LEMMA SkywalkingTyped ==
  ASSUME TypeOK, SkywalkingError \/ SkywalkingPanic
  PROVE  TypeOK'
BY RequeueTyped, RestartTyped, ClusterKept DEF SkywalkingError, SkywalkingPanic, TypeOK

\* patchStatus writes a merged status.
LEMMA PatchStatusTyped ==
  ASSUME TypeOK, PatchStatus
  PROVE  TypeOK'
<1> DEFINE gw == server["gateway"]
           new == DesiredStatus(inst, kedaFound)
           patched == [gw EXCEPT !.status = MergePatch(@, inst.status, new)]
<1>1. CASE NoWrite /\ EndPass /\ UNCHANGED cluster
  BY <1>1, NoWriteTyped, EndPassTyped, ClusterKept DEF TypeOK
<1>2. CASE Requeue
  BY <1>2, RequeueTyped
<1>3. CASE gw # Absent /\ Store("gateway", patched) /\ EndPass /\ UNCHANGED cluster
  <2>1. gw \in Gateways
    BY <1>3, KindsFacts, VersionsFacts DEF TypeOK, StoreTypes
  <2>2. new \in Statuses /\ inst.status \in Statuses
    BY CopyOfPass, DesiredStatusTyped DEF PatchStatus, Calling, Copies, TypeOK, PassTypes
  <2> HIDE DEF new, gw
  <2>3. MergePatch(gw.status, inst.status, new) \in Statuses
    BY <2>1, <2>2, MergePatchTyped DEF Gateways
  <2>4. patched \in Gateways
    BY <2>1, <2>3 DEF Gateways
  <2> HIDE DEF patched
  <2>5. StoreTypes' /\ queued' \in BOOLEAN
    BY <1>3, <2>4, StoreTyped, KindsFacts, VersionsFacts
  <2> QED BY <1>3, <2>5, EndPassTyped, ClusterKept DEF TypeOK
<1> QED BY <1>1, <1>2, <1>3 DEF PatchStatus

\* Every action of a pass keeps the types.
LEMMA WorkerTyped ==
  ASSUME TypeOK, Worker
  PROVE  TypeOK'
<1>1. CASE \/ DropRequest \/ StartReconcile \/ FinalizeBinding \/ RemoveFinalizer
           \/ CheckNamespace \/ NamespaceTerminating \/ AddFinalizer \/ Reread
  BY <1>1, StartTyped, FinalizeTyped, RemoveTyped, NamespaceTyped, AddFinalizerTyped,
     RereadTyped
<1>2. CASE CreateServiceAccount
  BY <1>2, CreateServiceAccountTyped
<1>3. CASE \E k \in Objects \ {"serviceAccount"} : CreateOrUpdate(k)
  BY <1>3, CreateOrUpdateTyped
<1>4. CASE DeleteIfExists("deleteHPA", "hpa")
  BY <1>4, KindsFacts, DeleteTyped DEF LastCalls
<1>5. CASE DeleteIfExists("deleteScaledObject", "scaledObject")
  BY <1>5, KindsFacts, DeleteTyped DEF LastCalls
<1>6. CASE FindKEDA \/ SkywalkingError \/ SkywalkingPanic \/ PatchStatus
  BY <1>6, FindKEDATyped, SkywalkingTyped, PatchStatusTyped
<1> QED BY <1>1, <1>2, <1>3, <1>4, <1>5, <1>6 DEF Worker

---------------------------------------------------------------------------
(* Types: everybody else. *)

\* Another client writes the gateway beside the pass.
LEMMA WriteGatewayTyped ==
  ASSUME TypeOK, NEW obj \in {Absent} \cup Gateways, WriteGateway(obj)
  PROVE  StoreTypes' /\ PassTypes'
<1>1. StoreTypes' /\ queued' \in BOOLEAN
  BY StoreTyped, KindsFacts, VersionsFacts DEF WriteGateway
<1> QED BY <1>1 DEF WriteGateway, TypeOK, PassTypes

\* The user creates, edits or deletes the gateway.
LEMMA UserTyped ==
  ASSUME TypeOK, User
  PROVE  TypeOK'
<1> DEFINE gw == server["gateway"]
<1>1. gw \in {Absent} \cup Gateways
  BY KindsFacts, VersionsFacts DEF TypeOK, StoreTypes
<1>2. CASE \E spec \in Specs : CreateGateway(spec)
  <2>1. PICK spec \in Specs : CreateGateway(spec)
    BY <1>2
  <2> DEFINE new == [uid |-> lastUid + 1, gen |-> 1, spec |-> spec, finalizer |-> FALSE,
                     deleting |-> FALSE, status |-> NoStatus]
  <2>2. NoStatus \in Statuses
    BY DEF NoStatus, NoConditions, Statuses, Conditions
  <2>3. spec \in RawSpecs /\ lastUid + 1 \in Nat
    BY SpecsAssumption DEF TypeOK, ClusterTypes
  <2>4. new \in Gateways
    BY <2>2, <2>3 DEF Gateways
  <2>5. WriteGateway(new) /\ lastUid' = lastUid + 1
        /\ UNCHANGED <<keda, namespace, edits, disturbances>>
    BY <2>1 DEF CreateGateway
  <2> HIDE DEF new
  <2>6. StoreTypes' /\ PassTypes'
    BY <2>4, <2>5, WriteGatewayTyped
  <2> QED BY <2>3, <2>5, <2>6 DEF TypeOK, ClusterTypes
<1>3. CASE \E spec \in Specs : EditSpec(spec)
  <2>1. PICK spec \in Specs : EditSpec(spec)
    BY <1>3
  <2> DEFINE new == [gw EXCEPT !.spec = spec, !.gen = @ + 1]
  <2>2. spec \in RawSpecs /\ gw \in Gateways
    BY <1>1, <2>1, SpecsAssumption DEF EditSpec
  <2> HIDE DEF gw
  <2>3. new \in Gateways
    <3>1. gw.gen + 1 \in Nat
      BY <2>2 DEF Gateways
    <3> QED BY <2>2, <3>1, Zenon DEF Gateways
  <2>4. WriteGateway(new) /\ edits' = edits + 1
        /\ UNCHANGED <<keda, namespace, lastUid, disturbances>>
    BY <2>1 DEF EditSpec, gw
  <2> HIDE DEF new
  <2>5. StoreTypes' /\ PassTypes'
    BY <2>3, <2>4, WriteGatewayTyped
  <2> QED BY <2>4, <2>5 DEF TypeOK, ClusterTypes
<1>4. CASE DeleteGateway
  <2> DEFINE new == IF gw.finalizer THEN [gw EXCEPT !.deleting = TRUE, !.gen = @ + 1]
                    ELSE Absent
  <2>1. gw \in Gateways
    BY <1>1, <1>4 DEF DeleteGateway
  <2>2. WriteGateway(new) /\ UNCHANGED cluster
    BY <1>4 DEF DeleteGateway
  <2> HIDE DEF gw
  <2>3. new \in {Absent} \cup Gateways
    <3>1. gw.gen + 1 \in Nat
      BY <2>1 DEF Gateways
    <3> QED BY <2>1, <3>1, Zenon DEF Gateways
  <2> HIDE DEF new
  <2> QED BY <2>2, <2>3, WriteGatewayTyped, ClusterKept DEF TypeOK
<1> QED BY <1>2, <1>3, <1>4 DEF User

\* A disturbance or a collection that writes one object of the store.
LEMMA WriteObjectTyped ==
  ASSUME TypeOK, NEW k \in Objects, NEW obj \in {Absent} \cup Managed, Store(k, obj),
         UNCHANGED pass
  PROVE  StoreTypes' /\ PassTypes'
<1>1. StoreTypes' /\ queued' \in BOOLEAN
  BY StoreTyped, KindsFacts, VersionsFacts
<1> QED BY <1>1 DEF pass, TypeOK, PassTypes

\* Disturbances are counted.
LEMMA DisturbTyped ==
  ASSUME TypeOK, NEW kind, Disturb(kind)
  PROVE  disturbances' \in Nat
BY DEF Disturb, TypeOK, ClusterTypes

\* The disturbances that write no object.
LEMMA DisturbancesTyped ==
  ASSUME TypeOK,
         Crash \/ ApiError \/ NamespaceError \/ InstallKEDA \/ TerminateNamespace
  PROVE  TypeOK'
<1>1. disturbances' \in Nat
  BY DisturbTyped DEF Crash, ApiError, NamespaceError, InstallKEDA, TerminateNamespace
<1>2. CASE Crash
  BY <1>1, <1>2, RestartTyped DEF Crash, TypeOK, ClusterTypes
<1>3. CASE ApiError
  <2>1. PassTypes'
    BY <1>3, EndPassTyped DEF ApiError
  <2> QED BY <1>1, <1>3, <2>1 DEF ApiError, TypeOK, StoreTypes, ClusterTypes, Versions
<1>4. CASE NamespaceError
  <2>1. StoreTypes' /\ PassTypes'
    BY <1>4, NoWriteTyped, EndPassTyped DEF NamespaceError
  <2> QED BY <1>1, <1>4, <2>1 DEF NamespaceError, TypeOK, ClusterTypes
<1>5. CASE InstallKEDA \/ TerminateNamespace
  <2>1. StoreTypes' /\ queued' \in BOOLEAN
    BY <1>5, NoWriteTyped DEF InstallKEDA, TerminateNamespace
  <2>2. PassTypes'
    BY <1>5, <2>1 DEF InstallKEDA, TerminateNamespace, pass, TypeOK, PassTypes
  <2> QED BY <1>1, <1>5, <2>1, <2>2 DEF InstallKEDA, TerminateNamespace, TypeOK, ClusterTypes
<1> QED BY <1>2, <1>3, <1>4, <1>5

\* What a neighbour makes of the binding: an object again, with no more than
\* its own subject added.
LEMMA NeighbourWrites ==
  ASSUME TypeOK, NEW n \in Neighbours, NeighbourGrants(n) \/ NeighbourRevokes(n)
  PROVE  /\ UNCHANGED <<pass, keda, namespace, lastUid, edits>> /\ Disturb("neighbour")
         /\ \E obj \in Managed :
              /\ Store("clusterRoleBinding", obj)
              /\ Subject \in obj.subjects =>
                   /\ server["clusterRoleBinding"] # Absent
                   /\ Subject \in server["clusterRoleBinding"].subjects
<1> DEFINE crb == server["clusterRoleBinding"]
           fresh == [owner |-> NoOwner, rev |-> Fixed, replicas |-> 0, subjects |-> {n}]
           more == [crb EXCEPT !.subjects = @ \cup {n}]
           less == [crb EXCEPT !.subjects = @ \ {n}]
<1>1. crb \in {Absent} \cup Managed
  BY KindsFacts, VersionsFacts DEF TypeOK, StoreTypes
<1>2. n # Subject
  BY NeighboursAssumption
<1>3. fresh \in Managed /\ Subject \notin fresh.subjects
  BY <1>2 DEF Managed, NoOwner, Revs
<1>4. crb # Absent => /\ more \in Managed /\ (Subject \in more.subjects => Subject \in crb.subjects)
                      /\ less \in Managed /\ (Subject \in less.subjects => Subject \in crb.subjects)
  BY <1>1, <1>2 DEF Managed
<1>5. \/ crb = Absent /\ Store("clusterRoleBinding", fresh)
      \/ crb # Absent /\ Store("clusterRoleBinding", more)
      \/ crb # Absent /\ Store("clusterRoleBinding", less)
  BY DEF NeighbourGrants, NeighbourRevokes
<1>6. UNCHANGED <<pass, keda, namespace, lastUid, edits>> /\ Disturb("neighbour")
  BY DEF NeighbourGrants, NeighbourRevokes
<1> HIDE DEF fresh, more, less
<1> QED BY <1>3, <1>4, <1>5, <1>6

\* Informers, collector, autoscaler, neighbours and disturbances keep the types.
LEMMA EnvironmentTyped ==
  ASSUME TypeOK, Environment
  PROVE  TypeOK'
<1>1. CASE \E k \in Kinds : Deliver(k)
  <2>1. PICK k \in Kinds : Deliver(k)
    BY <1>1
  <2>2. StoreTypes'
    BY <2>1, AdvanceTyped DEF Deliver, TypeOK
  <2>3. PassTypes' /\ ClusterTypes'
    BY <2>1 DEF Deliver, Wakes, pass, cluster, TypeOK, PassTypes, ClusterTypes
  <2> QED BY <2>2, <2>3 DEF TypeOK
<1>2. CASE \E k \in Objects : CollectGarbage(k)
  <2>1. PICK k \in Objects : CollectGarbage(k)
    BY <1>2
  <2> QED BY <2>1, WriteObjectTyped, ClusterKept DEF CollectGarbage, TypeOK
<1>3. CASE \E k \in Deletable : ExternalDelete(k)
  <2>1. PICK k \in Objects : ExternalDelete(k)
    BY <1>3, DeletableAssumption
  <2>2. StoreTypes' /\ PassTypes' /\ disturbances' \in Nat
    BY <2>1, WriteObjectTyped, DisturbTyped DEF ExternalDelete
  <2> QED BY <2>1, <2>2 DEF ExternalDelete, TypeOK, ClusterTypes
<1>4. CASE \E n \in AutoscaledReplicas : Scale(n)
  <2>1. PICK n \in AutoscaledReplicas : Scale(n)
    BY <1>4
  <2> DEFINE new == [server["deployment"] EXCEPT !.replicas = n]
  <2>2. server["deployment"] \in Managed
    BY <2>1, KindsFacts, VersionsFacts DEF Scale, TypeOK, StoreTypes
  <2>3. new \in Managed
    BY <2>2, ReplicasAssumption DEF Managed
  <2>4. StoreTypes' /\ PassTypes' /\ disturbances' \in Nat
    BY <2>1, <2>3, KindsFacts, WriteObjectTyped, DisturbTyped DEF Scale
  <2> QED BY <2>1, <2>4 DEF Scale, TypeOK, ClusterTypes
<1>5. CASE Crash \/ ApiError \/ NamespaceError \/ InstallKEDA \/ TerminateNamespace
  BY <1>5, DisturbancesTyped
<1>6. CASE \E n \in Neighbours : NeighbourGrants(n) \/ NeighbourRevokes(n)
  <2>1. PICK n \in Neighbours : NeighbourGrants(n) \/ NeighbourRevokes(n)
    BY <1>6
  <2>2. PICK obj \in Managed : Store("clusterRoleBinding", obj)
    BY <2>1, NeighbourWrites
  <2>3. UNCHANGED <<pass, keda, namespace, lastUid, edits>> /\ Disturb("neighbour")
    BY <2>1, NeighbourWrites
  <2>4. "clusterRoleBinding" \in Objects
    BY DEF Objects, Rbac
  <2>5. StoreTypes' /\ PassTypes' /\ disturbances' \in Nat
    BY <2>2, <2>3, <2>4, WriteObjectTyped, DisturbTyped
  <2> QED BY <2>3, <2>5 DEF TypeOK, ClusterTypes
<1> QED BY <1>1, <1>2, <1>3, <1>4, <1>5, <1>6 DEF Environment

\* A resync only queues the request.
LEMMA ResyncTyped ==
  ASSUME TypeOK, Resync
  PROVE  TypeOK'
BY DEF Resync, pass, cluster, TypeOK, StoreTypes, PassTypes, ClusterTypes, Versions

\* Nothing happens.
LEMMA StutterTyped ==
  ASSUME TypeOK, UNCHANGED vars
  PROVE  TypeOK'
BY DEF vars, pass, cluster, TypeOK, StoreTypes, PassTypes, ClusterTypes, Versions

\* At the start no object exists and no pass runs.
LEMMA InitTyped ==
  ASSUME Init
  PROVE  TypeOK
<1>1. StoreTypes
  BY EmptySeq DEF Init, StoreTypes, AnyVersion, Versions
<1> QED BY <1>1, EmptySeq, KEDAAssumption DEF Init, TypeOK, PassTypes, ClusterTypes

\* Every behaviour of the reconciler and its surroundings is well typed: in
\* particular a pass always works on a gateway it has read, with defaults, and
\* never runs out of calls before its last one.
THEOREM TypeCorrect == Safety => []TypeOK
<1>1. TypeOK /\ [Next]_vars => TypeOK'
  BY WorkerTyped, UserTyped, EnvironmentTyped, ResyncTyped, StutterTyped DEF Next
<1> QED BY <1>1, InitTyped, PTL DEF Safety

---------------------------------------------------------------------------
(* The finalizer protocol. *)

\* The gateway's versions, and the part of a pass the protocol is about, stay.
GatewayKept ==
  /\ server'["gateway"] = server["gateway"] /\ past'["gateway"] = past["gateway"]

PassKept == UNCHANGED <<pc, inst, instCurrent>>

---------------------------------------------------------------------------
(* What a write does to the gateway's versions and to the grant. *)

\* A write of an object is no write of the gateway.
LEMMA PutObjectKeepsGateway ==
  ASSUME TypeOK, NEW k \in Objects, NEW obj, Put(k, obj)
  PROVE  /\ GatewayKept
         /\ k # "clusterRoleBinding" => (Granted' <=> Granted)
         /\ server'[k] = obj
<1>1. k \in Kinds /\ k # "gateway" /\ "gateway" \in Kinds /\ "clusterRoleBinding" \in Kinds
  BY KindsFacts
<1> QED BY <1>1 DEF TypeOK, StoreTypes, Put, GatewayKept, Granted

\* A write of the gateway adds at most the version it replaces to the informer's.
LEMMA PutGatewayEffect ==
  ASSUME TypeOK, NEW obj, Put("gateway", obj)
  PROVE  /\ Gateway' = obj
         /\ Granted' <=> Granted
         /\ \A i \in 1..Len(past'["gateway"]) :
              \/ past'["gateway"][i] = Gateway
              \/ \E j \in 1..Len(past["gateway"]) : past'["gateway"][i] = past["gateway"][j]
<1>1. "gateway" \in Kinds /\ "clusterRoleBinding" \in Kinds /\ "gateway" # "clusterRoleBinding"
  BY KindsFacts
<1>2. Gateway' = obj /\ (Granted' <=> Granted)
  BY <1>1 DEF TypeOK, StoreTypes, Put, Gateway, Granted
<1>3. past["gateway"] \in Seq(AnyVersion) /\ Gateway \in AnyVersion
  BY <1>1 DEF TypeOK, StoreTypes, Gateway
<1>4. CASE past'["gateway"] = past["gateway"]
  BY <1>2, <1>4
<1>5. CASE past'["gateway"] = Append(past["gateway"], Gateway)
  BY <1>2, <1>3, <1>5
<1>6. past'["gateway"] = past["gateway"] \/ past'["gateway"] = Append(past["gateway"], Gateway)
  BY <1>1 DEF TypeOK, StoreTypes, Put, Gateway
<1> QED BY <1>4, <1>5, <1>6

---------------------------------------------------------------------------
(* Steps that leave the gateway alone. *)

\* The pass stays where it is or ends, and a grant is given only by a call.
LEMMA GatewayKeptStep ==
  ASSUME FinalizerProtocol, GatewayKept, PassKept \/ EndPass,
         Granted' => Granted \/ pc = "apply"
  PROVE  FinalizerProtocol'
<1>1. InformerTrust'
  BY DEF FinalizerProtocol, InformerTrust, GatewayKept, Kept, Protected, Gateway
<1>2. PassTrust' /\ RereadTrust' /\ CopyTrust' /\ PassStage'
  BY DEF FinalizerProtocol, PassTrust, RereadTrust, CopyTrust, PassStage, GatewayKept,
         Protected, Gateway, PassKept, EndPass
<1>3. RevokedFirst'
  BY DEF FinalizerProtocol, RevokedFirst, PassKept, EndPass
<1>4. SubjectHasFinalizer'
  BY DEF FinalizerProtocol, SubjectHasFinalizer, PassTrust, Protected, GatewayKept, Gateway
<1> QED BY <1>1, <1>2, <1>3, <1>4 DEF FinalizerProtocol

\* Somebody writes the gateway, keeping its identity and its finalizer.
LEMMA SameGatewayStep ==
  ASSUME TypeOK, FinalizerProtocol, NEW obj, Put("gateway", obj),
         Gateway # Absent, obj # Absent,
         obj.uid = Gateway.uid, obj.finalizer = Gateway.finalizer,
         EndPass \/ (UNCHANGED <<pc, inst>> /\ instCurrent' = FALSE)
  PROVE  FinalizerProtocol'
<1>1. \A u : Protected(u)' <=> Protected(u)
  BY PutGatewayEffect DEF Protected
<1>2. InformerTrust'
  <2> SUFFICES ASSUME NEW i \in 1..Len(past'["gateway"]), Kept(past'["gateway"][i])
               PROVE  Protected(past'["gateway"][i].uid)
    BY PutGatewayEffect DEF InformerTrust, Kept, Protected
  <2>1. CASE past'["gateway"][i] = Gateway
    BY <2>1 DEF Kept, Protected
  <2>2. CASE \E j \in 1..Len(past["gateway"]) : past'["gateway"][i] = past["gateway"][j]
    BY <2>2 DEF FinalizerProtocol, InformerTrust
  <2> QED BY <2>1, <2>2, PutGatewayEffect
<1>3. PassTrust'
  BY <1>1 DEF FinalizerProtocol, PassTrust, EndPass, Protected
<1>4. RereadTrust'
  BY PutGatewayEffect DEF FinalizerProtocol, RereadTrust, EndPass
<1>5. CopyTrust' /\ PassStage'
  BY DEF FinalizerProtocol, CopyTrust, PassStage, EndPass
<1>6. RevokedFirst' /\ SubjectHasFinalizer'
  BY PutGatewayEffect DEF FinalizerProtocol, RevokedFirst, SubjectHasFinalizer, EndPass
<1> QED BY <1>2, <1>3, <1>4, <1>5, <1>6 DEF FinalizerProtocol

\* Somebody creates or removes a gateway that no finalizer protects.
LEMMA UnprotectedGatewayStep ==
  ASSUME TypeOK, FinalizerProtocol, NEW obj, Put("gateway", obj),
         Gateway # Absent => ~Gateway.finalizer,
         UNCHANGED <<pc, inst>>, instCurrent' = FALSE
  PROVE  FinalizerProtocol'
<1>1. \A u : ~Protected(u)
  BY DEF Protected
<1>2. ~Granted /\ ~Granted'
  BY PutGatewayEffect DEF FinalizerProtocol, SubjectHasFinalizer
<1>3. InformerTrust'
  <2> SUFFICES ASSUME NEW i \in 1..Len(past'["gateway"])
               PROVE  ~Kept(past'["gateway"][i])
    BY DEF InformerTrust, Kept
  <2>1. CASE past'["gateway"][i] = Gateway
    BY <2>1 DEF Kept
  <2>2. CASE \E j \in 1..Len(past["gateway"]) : past'["gateway"][i] = past["gateway"][j]
    BY <1>1, <2>2 DEF FinalizerProtocol, InformerTrust
  <2> QED BY <2>1, <2>2, PutGatewayEffect
<1>4. PassTrust' /\ RereadTrust'
  BY <1>1 DEF FinalizerProtocol, PassTrust, RereadTrust
<1>5. CopyTrust' /\ PassStage'
  BY DEF FinalizerProtocol, CopyTrust, PassStage
<1>6. RevokedFirst' /\ SubjectHasFinalizer'
  BY <1>2 DEF RevokedFirst, SubjectHasFinalizer
<1> QED BY <1>3, <1>4, <1>5, <1>6 DEF FinalizerProtocol

---------------------------------------------------------------------------
(* The calls of a pass, and what happens beside it. *)

\* A step that writes no object keeps the protocol if it keeps or ends the pass.
LEMMA NoWriteKeeps ==
  ASSUME FinalizerProtocol, UNCHANGED <<server, past>>, PassKept \/ EndPass
  PROVE  FinalizerProtocol'
BY GatewayKeptStep DEF GatewayKept, Granted

\* Requeue ends the pass and writes nothing.
LEMMA RequeueKeeps ==
  ASSUME FinalizerProtocol, Requeue
  PROVE  FinalizerProtocol'
BY NoWriteKeeps DEF Requeue

\* A write of an object other than the binding, or one that takes its grant back.
LEMMA ObjectWriteKeeps ==
  ASSUME TypeOK, FinalizerProtocol, NEW k \in Objects, NEW obj, Put(k, obj),
         PassKept \/ EndPass,
         \/ pc = "apply"
         \/ k # "clusterRoleBinding" \/ obj = Absent
  PROVE  FinalizerProtocol'
<1>1. GatewayKept /\ server'[k] = obj /\ (k # "clusterRoleBinding" => (Granted' <=> Granted))
  BY PutObjectKeepsGateway
<1>2. k = "clusterRoleBinding" /\ obj = Absent => ~Granted'
  BY <1>1 DEF Granted
<1> QED BY <1>1, <1>2, GatewayKeptStep

\* A successful call of CreateOrUpdate, CreateIfNotExits or Delete.
LEMMA CallKeeps ==
  ASSUME TypeOK, FinalizerProtocol, pc = "apply", Proceed,
         NoWrite \/ \E k \in Objects : \E obj : Store(k, obj)
  PROVE  FinalizerProtocol'
<1>1. PassKept
  BY DEF Proceed, PassKept
<1>2. CASE NoWrite
  BY <1>1, <1>2, NoWriteKeeps DEF NoWrite
<1>3. CASE \E k \in Objects : \E obj : Store(k, obj)
  BY <1>1, <1>3, ObjectWriteKeeps DEF Store
<1> QED BY <1>2, <1>3

\* The calls between createServiceAccount and patchStatus.
LEMMA CallsKeep ==
  ASSUME TypeOK, FinalizerProtocol,
         \/ CreateServiceAccount
         \/ \E k \in Objects \ {"serviceAccount"} : CreateOrUpdate(k)
         \/ DeleteIfExists("deleteHPA", "hpa")
         \/ DeleteIfExists("deleteScaledObject", "scaledObject")
         \/ FindKEDA
  PROVE  FinalizerProtocol'
<1>1. CASE CreateServiceAccount
  BY <1>1, CallKeeps, RequeueKeeps, KindsFacts DEF CreateServiceAccount, Calling
<1>2. CASE \E k \in Objects \ {"serviceAccount"} : CreateOrUpdate(k)
  BY <1>2, CallKeeps, RequeueKeeps DEF CreateOrUpdate, Calling
<1>3. CASE DeleteIfExists("deleteHPA", "hpa")
  BY <1>3, CallKeeps, KindsFacts DEF DeleteIfExists, Calling
<1>4. CASE DeleteIfExists("deleteScaledObject", "scaledObject")
  BY <1>4, CallKeeps, KindsFacts DEF DeleteIfExists, Calling
<1>5. CASE FindKEDA
  BY <1>5, NoWriteKeeps DEF FindKEDA, NoWrite, PassKept
<1> QED BY <1>1, <1>2, <1>3, <1>4, <1>5

\* Events outside the pass that do not write the gateway.
LEMMA BesidesKeep ==
  ASSUME TypeOK, FinalizerProtocol,
         \/ DropRequest \/ NamespaceTerminating \/ ApiError \/ NamespaceError
         \/ InstallKEDA \/ TerminateNamespace \/ Resync
         \/ \E k \in Deletable : ExternalDelete(k)
         \/ \E k \in Objects : CollectGarbage(k)
         \/ \E n \in AutoscaledReplicas : Scale(n)
         \/ \E n \in Neighbours : NeighbourGrants(n) \/ NeighbourRevokes(n)
  PROVE  FinalizerProtocol'
<1>1. CASE DropRequest \/ NamespaceTerminating \/ ApiError \/ NamespaceError
           \/ InstallKEDA \/ TerminateNamespace \/ Resync
  BY <1>1, NoWriteKeeps
     DEF DropRequest, NamespaceTerminating, ApiError, NamespaceError, InstallKEDA,
         TerminateNamespace, Resync, NoWrite, PassKept, pass
<1>2. CASE \E k \in Deletable : ExternalDelete(k)
  BY <1>2, ObjectWriteKeeps, DeletableAssumption DEF ExternalDelete, Store, PassKept, pass
<1>3. CASE \E k \in Objects : CollectGarbage(k)
  BY <1>3, ObjectWriteKeeps DEF CollectGarbage, Store, PassKept, pass
<1>4. CASE \E n \in AutoscaledReplicas : Scale(n)
  <2>1. "deployment" \in Objects /\ "deployment" # "clusterRoleBinding"
    BY DEF Objects, Controlled
  <2> QED BY <1>4, <2>1, ObjectWriteKeeps DEF Scale, Store, PassKept, pass
<1>5. CASE \E n \in Neighbours : NeighbourGrants(n) \/ NeighbourRevokes(n)
  <2>1. PICK n \in Neighbours : NeighbourGrants(n) \/ NeighbourRevokes(n)
    BY <1>5
  <2>2. PICK obj \in Managed : /\ Store("clusterRoleBinding", obj)
                               /\ Subject \in obj.subjects => Granted
    BY <2>1, NeighbourWrites DEF Granted
  <2>3. PassKept
    BY <2>1, NeighbourWrites DEF PassKept, pass
  <2>4. "clusterRoleBinding" \in Objects
    BY DEF Objects, Rbac
  <2>5. GatewayKept /\ server'["clusterRoleBinding"] = obj
    BY <2>2, <2>4, PutObjectKeepsGateway DEF Store
  <2>6. Granted' => Granted
    BY <2>2, <2>5 DEF Granted
  <2> QED BY <2>3, <2>5, <2>6, GatewayKeptStep
<1> QED BY <1>1, <1>2, <1>3, <1>4, <1>5

\* A restarted process has no pass, and its caches hold what the server holds.
LEMMA RestartKeeps ==
  ASSUME TypeOK, FinalizerProtocol, Crash \/ SkywalkingPanic
  PROVE  FinalizerProtocol'
<1>1. Restart
  BY DEF Crash, SkywalkingPanic
<1>2. "gateway" \in DOMAIN past
  BY KindsFacts DEF TypeOK, StoreTypes
<1>3. past'["gateway"] = <<>> /\ UNCHANGED server /\ EndPass
  BY <1>1, <1>2 DEF Restart, Relist
<1>4. Len(past'["gateway"]) = 0
  BY <1>3
<1>5. 1..Len(past'["gateway"]) = {}
  BY <1>4
<1>6. InformerTrust'
  BY <1>5 DEF InformerTrust
<1>7. PassTrust' /\ RereadTrust' /\ CopyTrust' /\ PassStage' /\ RevokedFirst'
  BY <1>3 DEF EndPass, PassTrust, RereadTrust, CopyTrust, PassStage, RevokedFirst
<1>8. SubjectHasFinalizer'
  BY <1>3 DEF FinalizerProtocol, SubjectHasFinalizer, Granted, Gateway
<1> QED BY <1>6, <1>7, <1>8 DEF FinalizerProtocol

\* The informer's cache moves on: fewer old versions are left.
LEMMA DeliverKeeps ==
  ASSUME TypeOK, FinalizerProtocol, NEW k \in Kinds, Deliver(k)
  PROVE  FinalizerProtocol'
<1>1. UNCHANGED server /\ PassKept /\ (Granted' <=> Granted)
  BY DEF Deliver, Advance, PassKept, pass, Granted
<1>2. CASE k # "gateway"
  <2>1. GatewayKept
    BY <1>1, <1>2, KindsFacts DEF Deliver, Advance, GatewayKept, TypeOK, StoreTypes
  <2> QED BY <1>1, <2>1, GatewayKeptStep
<1>3. CASE k = "gateway"
  <2> DEFINE p == past["gateway"]
             q == past'["gateway"]
  <2>1. p \in Seq(AnyVersion) /\ p # <<>> /\ q = Tail(p)
    BY <1>3, KindsFacts DEF Deliver, Advance, Current, TypeOK, StoreTypes
  <2>2. \A i \in 1..Len(q) : \E j \in 1..Len(p) : q[i] = p[j]
    <3> HIDE DEF p, q
    <3>1. Len(q) = Len(p) - 1 /\ \A i \in 1..Len(q) : q[i] = p[i + 1]
      BY <2>1
    <3>2. Len(p) \in Nat
      BY <2>1
    <3>3. \A i \in 1..Len(q) : i + 1 \in 1..Len(p)
      BY <3>1, <3>2
    <3> QED BY <3>1, <3>3
  <2>3. \A u : Protected(u)' <=> Protected(u)
    BY <1>1 DEF Protected, Gateway
  <2>4. InformerTrust'
    BY <2>2, <2>3 DEF FinalizerProtocol, InformerTrust, Kept, Protected
  <2>5. PassTrust'
    BY <1>1 DEF FinalizerProtocol, PassTrust, PassKept, Protected, Gateway
  <2>6. RereadTrust'
    BY <1>1, <2>2 DEF FinalizerProtocol, RereadTrust, PassKept, Gateway
  <2>7. CopyTrust'
    BY <1>1, <2>1 DEF FinalizerProtocol, CopyTrust, PassKept
  <2>8. PassStage' /\ RevokedFirst' /\ SubjectHasFinalizer'
    BY <1>1 DEF FinalizerProtocol, PassStage, RevokedFirst, SubjectHasFinalizer, PassKept,
                Gateway
  <2> QED BY <2>4, <2>5, <2>6, <2>7, <2>8 DEF FinalizerProtocol
<1> QED BY <1>2, <1>3

---------------------------------------------------------------------------
(* The pass up to its first call. *)

\* The copy of the gateway a Get returns: kept only if the gateway is protected.
LEMMA CachedTrust ==
  ASSUME TypeOK, InformerTrust, Kept(Cached("gateway"))
  PROVE  Protected(Cached("gateway").uid)
<1>1. past["gateway"] \in Seq(AnyVersion)
  BY KindsFacts DEF TypeOK, StoreTypes
<1>2. CASE past["gateway"] = <<>>
  BY <1>2 DEF Cached, Current, Kept, Protected, Gateway
<1>3. CASE past["gateway"] # <<>>
  <2>1. 1 \in 1..Len(past["gateway"]) /\ Head(past["gateway"]) = past["gateway"][1]
    BY <1>1, <1>3, HeadTailProperties
  <2>2. Cached("gateway") = past["gateway"][1]
    BY <1>3, <2>1 DEF Cached, Current
  <2> QED BY <2>1, <2>2 DEF InformerTrust
<1> QED BY <1>2, <1>3

\* setDefaultValues changes the spec alone.
LEMMA DefaultsKeep ==
  ASSUME NEW gw \in Gateways
  PROVE  /\ WithDefaults(gw).uid = gw.uid
         /\ WithDefaults(gw).finalizer = gw.finalizer
         /\ WithDefaults(gw).deleting = gw.deleting
         /\ gw.deleting \in BOOLEAN /\ gw.finalizer \in BOOLEAN
BY DEF WithDefaults, Gateways

\* Reconcile begins, on a copy that may be old.
LEMMA StartKeeps ==
  ASSUME TypeOK, FinalizerProtocol, StartReconcile
  PROVE  FinalizerProtocol'
<1> DEFINE gw == Cached("gateway")
<1>1. gw \in Gateways /\ (gw.deleting => gw.finalizer)
  <2>1. gw \in Versions("gateway") /\ gw # Absent
    BY CachedTyped, KindsFacts DEF StartReconcile, NothingToDo, TypeOK
  <2> QED BY <2>1, VersionsFacts DEF StartReconcile, NothingToDo
<1>2. gw # Absent
  BY DEF StartReconcile, NothingToDo
<1>3. /\ inst' = WithDefaults(gw) /\ UNCHANGED <<server, past>>
      /\ pc' = (IF gw.deleting THEN "finalize" ELSE "namespace")
      /\ instCurrent' = (past["gateway"] = <<>>)
      /\ past["gateway"] = <<>> => gw = Gateway
  BY DEF StartReconcile, Current, Cached, Gateway
<1> HIDE DEF gw
<1>4. /\ inst'.uid = gw.uid /\ inst'.finalizer = gw.finalizer
      /\ inst'.deleting = gw.deleting /\ gw.deleting \in BOOLEAN
  BY <1>1, <1>3, DefaultsKeep
<1>5. Kept(gw) => Protected(gw.uid)
  BY CachedTrust DEF gw, FinalizerProtocol
<1>6. InformerTrust' /\ SubjectHasFinalizer'
  BY <1>3 DEF FinalizerProtocol, InformerTrust, SubjectHasFinalizer, Granted, Protected, Gateway
<1>7. PassTrust'
  BY <1>2, <1>3, <1>4, <1>5 DEF PassTrust, Kept, Protected, Gateway
<1>8. RereadTrust' /\ RevokedFirst'
  BY <1>3 DEF RereadTrust, RevokedFirst
<1>9. CopyTrust'
  BY <1>2, <1>3 DEF CopyTrust, Gateway
<1>10. PassStage'
  BY <1>1, <1>3, <1>4 DEF PassStage
<1> QED BY <1>6, <1>7, <1>8, <1>9, <1>10 DEF FinalizerProtocol

\* With the finalizer in its copy the pass goes to its calls.
LEMMA NamespaceKeeps ==
  ASSUME TypeOK, FinalizerProtocol, CheckNamespace
  PROVE  FinalizerProtocol'
<1>1. /\ UNCHANGED <<server, past, inst, instCurrent>> /\ pc = "namespace"
      /\ IF inst.finalizer THEN pc' = "apply" ELSE pc' = "addFinalizer"
  BY DEF CheckNamespace, BeginCalls, NoWrite
<1>2. InformerTrust' /\ SubjectHasFinalizer'
  BY <1>1 DEF FinalizerProtocol, InformerTrust, SubjectHasFinalizer, Granted, Protected, Gateway
<1>3. PassTrust'
  BY <1>1 DEF FinalizerProtocol, PassTrust, Protected, Gateway
<1>4. RereadTrust' /\ RevokedFirst'
  BY <1>1 DEF RereadTrust, RevokedFirst
<1>5. CopyTrust' /\ PassStage'
  BY <1>1 DEF FinalizerProtocol, CopyTrust, PassStage, Gateway
<1> QED BY <1>2, <1>3, <1>4, <1>5 DEF FinalizerProtocol

---------------------------------------------------------------------------
(* The writes of the gateway. *)

\* A gateway written with the finalizer (AddFinalizer) is the same gateway.
LEMMA FinalizedSame ==
  ASSUME NEW gw \in Gateways, NEW n \in Nat
  PROVE  LET new == [gw EXCEPT !.finalizer = TRUE, !.gen = n]
         IN  new # Absent /\ new.uid = gw.uid /\ new.finalizer
BY AbsentAssumption DEF Gateways

\* So is one that is marked as deleted,
LEMMA DeletedSame ==
  ASSUME NEW gw \in Gateways, NEW n \in Nat
  PROVE  LET new == [gw EXCEPT !.deleting = TRUE, !.gen = n]
         IN  new # Absent /\ new.uid = gw.uid /\ new.finalizer = gw.finalizer
BY AbsentAssumption DEF Gateways

\* one whose spec is edited,
LEMMA EditedSame ==
  ASSUME NEW gw \in Gateways, NEW n \in Nat, NEW spec \in RawSpecs
  PROVE  LET new == [gw EXCEPT !.spec = spec, !.gen = n]
         IN  new # Absent /\ new.uid = gw.uid /\ new.finalizer = gw.finalizer
BY AbsentAssumption DEF Gateways

\* and one whose status patchStatus writes.
LEMMA PatchedSame ==
  ASSUME NEW gw \in Gateways, NEW status \in Statuses
  PROVE  LET new == [gw EXCEPT !.status = status]
         IN  new # Absent /\ new.uid = gw.uid /\ new.finalizer = gw.finalizer
BY AbsentAssumption DEF Gateways

\* finalizeHigressGateway takes the grant back before the finalizer goes.
LEMMA FinalizeKeeps ==
  ASSUME TypeOK, FinalizerProtocol, FinalizeBinding
  PROVE  FinalizerProtocol'
<1> DEFINE crb == Cached("clusterRoleBinding")
           new == [crb EXCEPT !.subjects = @ \ {Subject}]
<1>1. CASE Requeue
  BY <1>1, RequeueKeeps
<1>2. CASE crb # Absent /\ Store("clusterRoleBinding", new) /\ pc' = "removeFinalizer"
           /\ UNCHANGED <<inst, instCurrent>>
  <2>1. "clusterRoleBinding" \in Objects /\ "clusterRoleBinding" \in Kinds
        /\ "clusterRoleBinding" # "gateway"
    BY KindsFacts DEF Objects, Rbac
  <2>2. crb \in Managed
    BY <1>2, <2>1, CachedTyped, VersionsFacts DEF TypeOK
  <2> HIDE DEF crb
  <2>3. Subject \notin new.subjects
    BY <2>2 DEF Managed
  <2> HIDE DEF new
  <2>4. GatewayKept /\ server'["clusterRoleBinding"] = new
    BY <1>2, <2>1, PutObjectKeepsGateway DEF Store
  <2>5. ~Granted'
    BY <2>3, <2>4 DEF Granted
  <2>6. InformerTrust'
    BY <2>4 DEF FinalizerProtocol, InformerTrust, GatewayKept, Protected, Gateway
  <2>7. PassTrust' /\ RereadTrust'
    BY <1>2 DEF PassTrust, RereadTrust
  <2>8. CopyTrust' /\ PassStage'
    BY <1>2, <2>4 DEF FinalizeBinding, FinalizerProtocol, CopyTrust, PassStage, GatewayKept,
                      Gateway
  <2> QED BY <2>5, <2>6, <2>7, <2>8 DEF FinalizerProtocol, RevokedFirst, SubjectHasFinalizer
<1> QED BY <1>1, <1>2 DEF FinalizeBinding

\* The finalizer is removed from a current copy: of the gateway as it is, which
\* is deleted and whose grant is gone.
LEMMA RemoveKeeps ==
  ASSUME TypeOK, FinalizerProtocol, RemoveFinalizer
  PROVE  FinalizerProtocol'
<1>1. CASE Requeue
  BY <1>1, RequeueKeeps
<1>2. CASE instCurrent /\ Store("gateway", Absent) /\ EndPass
  <2>1. past["gateway"] = <<>> /\ Gateway # Absent /\ inst = WithDefaults(Gateway)
    BY <1>2 DEF RemoveFinalizer, FinalizerProtocol, CopyTrust
  <2>2. Gateway \in Gateways
    BY <2>1, KindsFacts, VersionsFacts DEF TypeOK, StoreTypes, Gateway
  <2>3. Gateway.deleting
    BY <2>1, <2>2, DefaultsKeep DEF RemoveFinalizer, FinalizerProtocol, PassStage
  <2>4. /\ Granted' <=> Granted
        /\ \A i \in 1..Len(past'["gateway"]) :
             \/ past'["gateway"][i] = Gateway
             \/ \E j \in 1..Len(past["gateway"]) : past'["gateway"][i] = past["gateway"][j]
    BY <1>2, PutGatewayEffect DEF Store
  <2>5. 1..Len(past["gateway"]) = {}
    BY <2>1
  <2>6. InformerTrust'
    BY <2>3, <2>4, <2>5 DEF InformerTrust, Kept
  <2>7. ~Granted'
    BY <2>4 DEF RemoveFinalizer, FinalizerProtocol, RevokedFirst
  <2>8. PassTrust' /\ RereadTrust' /\ CopyTrust' /\ PassStage'
    BY <1>2 DEF EndPass, PassTrust, RereadTrust, CopyTrust, PassStage
  <2> QED BY <2>6, <2>7, <2>8 DEF FinalizerProtocol, RevokedFirst, SubjectHasFinalizer
<1> QED BY <1>1, <1>2 DEF RemoveFinalizer

\* The finalizer is added to a current copy, of a gateway that has none.
LEMMA AddKeeps ==
  ASSUME TypeOK, FinalizerProtocol, AddFinalizer
  PROVE  FinalizerProtocol'
<1> DEFINE g == IF inst.spec = server["gateway"].spec THEN inst.gen ELSE inst.gen + 1
           written == [inst EXCEPT !.finalizer = TRUE, !.gen = g]
<1>1. CASE Requeue
  BY <1>1, RequeueKeeps
<1>2. CASE instCurrent /\ Store("gateway", written) /\ pc' = "reread" /\ instCurrent' = FALSE
  <2>1. past["gateway"] = <<>> /\ Gateway # Absent /\ inst = WithDefaults(Gateway)
    BY <1>2 DEF AddFinalizer, FinalizerProtocol, CopyTrust
  <2>2. Gateway \in Gateways /\ inst \in Gateways
    BY <2>1, KindsFacts, VersionsFacts, CopyOfPass
       DEF AddFinalizer, TypeOK, StoreTypes, Gateway
  <2>3. inst.uid = Gateway.uid /\ ~Gateway.finalizer
    BY <2>1, <2>2, DefaultsKeep DEF AddFinalizer, FinalizerProtocol, PassStage
  <2>4. g \in Nat
    BY <2>2 DEF Gateways
  <2> HIDE DEF g
  <2>5. written # Absent /\ written.uid = Gateway.uid /\ written.finalizer
    BY <2>2, <2>3, <2>4, FinalizedSame
  <2> HIDE DEF written
  <2>6. /\ Gateway' = written
        /\ Granted' <=> Granted
        /\ \A i \in 1..Len(past'["gateway"]) :
             \/ past'["gateway"][i] = Gateway
             \/ \E j \in 1..Len(past["gateway"]) : past'["gateway"][i] = past["gateway"][j]
    BY <1>2, PutGatewayEffect DEF Store
  <2>7. \A i \in 1..Len(past'["gateway"]) : past'["gateway"][i] = Gateway
    <3>1. 1..Len(past["gateway"]) = {}
      BY <2>1
    <3> QED BY <2>6, <3>1
  <2>8. InformerTrust' /\ RereadTrust'
    BY <2>1, <2>3, <2>5, <2>6, <2>7 DEF InformerTrust, RereadTrust, Kept
  <2>9. PassTrust' /\ CopyTrust' /\ PassStage' /\ RevokedFirst'
    BY <1>2 DEF PassTrust, CopyTrust, PassStage, RevokedFirst
  <2>10. SubjectHasFinalizer'
    BY <2>5, <2>6 DEF SubjectHasFinalizer
  <2> QED BY <2>8, <2>9, <2>10 DEF FinalizerProtocol
<1> QED BY <1>1, <1>2 DEF AddFinalizer

\* Whatever version the second Get returns, it is of the protected gateway.
LEMMA RereadKeeps ==
  ASSUME TypeOK, FinalizerProtocol, Reread
  PROVE  FinalizerProtocol'
<1> DEFINE gw == Cached("gateway")
<1>1. CASE Requeue
  BY <1>1, RequeueKeeps
<1>2. CASE gw # Absent /\ inst' = WithDefaults(gw) /\ pc' = "apply"
           /\ UNCHANGED <<server, past>>
  <2>1. gw \in Gateways
    BY <1>2, CachedTyped, KindsFacts, VersionsFacts DEF TypeOK
  <2>2. Gateway # Absent /\ Gateway.finalizer /\ gw.uid = Gateway.uid
    <3>1. past["gateway"] \in Seq(AnyVersion)
      BY KindsFacts DEF TypeOK, StoreTypes
    <3>2. CASE past["gateway"] = <<>>
      BY <3>2 DEF Reread, FinalizerProtocol, RereadTrust, Cached, Current, Gateway
    <3>3. CASE past["gateway"] # <<>>
      <4>1. 1 \in 1..Len(past["gateway"]) /\ Head(past["gateway"]) = past["gateway"][1]
        BY <3>1, <3>3, HeadTailProperties
      <4>2. gw = past["gateway"][1]
        BY <3>3, <4>1 DEF Cached, Current
      <4> QED BY <4>1, <4>2 DEF Reread, FinalizerProtocol, RereadTrust
    <3> QED BY <3>2, <3>3
  <2> HIDE DEF gw
  <2>3. inst'.uid = Gateway.uid
    BY <1>2, <2>1, <2>2, DefaultsKeep
  <2>4. PassTrust'
    BY <1>2, <2>2, <2>3 DEF PassTrust, Protected, Gateway
  <2>5. InformerTrust' /\ SubjectHasFinalizer'
    BY <1>2 DEF FinalizerProtocol, InformerTrust, SubjectHasFinalizer, Granted, Protected,
                Gateway
  <2>6. RereadTrust' /\ CopyTrust' /\ PassStage' /\ RevokedFirst'
    BY <1>2 DEF RereadTrust, CopyTrust, PassStage, RevokedFirst
  <2> QED BY <2>4, <2>5, <2>6 DEF FinalizerProtocol
<1> QED BY <1>1, <1>2 DEF Reread, BeginCalls, NoWrite

\* patchStatus writes over whatever gateway there is, but only its status.
LEMMA PatchStatusKeeps ==
  ASSUME TypeOK, FinalizerProtocol, PatchStatus
  PROVE  FinalizerProtocol'
<1> DEFINE new == DesiredStatus(inst, kedaFound)
           status == MergePatch(Gateway.status, inst.status, new)
           patched == [Gateway EXCEPT !.status = status]
<1>1. CASE NoWrite /\ EndPass
  BY <1>1, NoWriteKeeps DEF NoWrite
<1>2. CASE Requeue
  BY <1>2, RequeueKeeps
<1>3. CASE Gateway # Absent /\ Store("gateway", patched) /\ EndPass
  <2>1. Gateway \in Gateways
    BY <1>3, KindsFacts, VersionsFacts DEF TypeOK, StoreTypes, Gateway
  <2>2. new \in Statuses /\ inst.status \in Statuses
    BY CopyOfPass, DesiredStatusTyped DEF PatchStatus, Calling, Copies, TypeOK, PassTypes
  <2> HIDE DEF new
  <2>3. status \in Statuses
    BY <2>1, <2>2, MergePatchTyped DEF Gateways
  <2> HIDE DEF status
  <2>4. patched # Absent /\ patched.uid = Gateway.uid /\ patched.finalizer = Gateway.finalizer
    BY <2>1, <2>3, PatchedSame
  <2> HIDE DEF patched
  <2> QED BY <1>3, <2>4, SameGatewayStep DEF Store
<1> QED BY <1>1, <1>2, <1>3 DEF PatchStatus, Gateway

\* The user creates, edits and deletes the gateway.
LEMMA UserKeeps ==
  ASSUME TypeOK, FinalizerProtocol, User
  PROVE  FinalizerProtocol'
<1>1. ASSUME NEW obj, WriteGateway(obj)
      PROVE  Put("gateway", obj) /\ UNCHANGED <<pc, inst>> /\ instCurrent' = FALSE
  BY <1>1 DEF WriteGateway, Store
<1>2. Gateway \in {Absent} \cup Gateways
  BY KindsFacts, VersionsFacts DEF TypeOK, StoreTypes, Gateway
<1>3. CASE \E spec \in Specs : CreateGateway(spec)
  <2>1. Gateway = Absent /\ \E obj : WriteGateway(obj)
    BY <1>3 DEF CreateGateway, Gateway
  <2> QED BY <1>1, <2>1, UnprotectedGatewayStep
<1>4. CASE \E spec \in Specs : EditSpec(spec)
  <2>1. PICK spec \in Specs : EditSpec(spec)
    BY <1>4
  <2> DEFINE n == Gateway.gen + 1
             new == [Gateway EXCEPT !.spec = spec, !.gen = n]
  <2>2. Gateway \in Gateways /\ Gateway # Absent /\ WriteGateway(new)
    BY <1>2, <2>1 DEF EditSpec, Gateway
  <2>3. n \in Nat /\ spec \in RawSpecs
    BY <2>2, SpecsAssumption DEF Gateways
  <2> HIDE DEF n
  <2>4. new # Absent /\ new.uid = Gateway.uid /\ new.finalizer = Gateway.finalizer
    BY <2>2, <2>3, EditedSame
  <2> HIDE DEF new
  <2> QED BY <1>1, <2>2, <2>4, SameGatewayStep
<1>5. CASE DeleteGateway /\ Gateway.finalizer
  <2> DEFINE n == Gateway.gen + 1
             new == [Gateway EXCEPT !.deleting = TRUE, !.gen = n]
  <2>1. Gateway \in Gateways /\ Gateway # Absent /\ WriteGateway(new)
    BY <1>2, <1>5 DEF DeleteGateway, Gateway
  <2>2. n \in Nat
    BY <2>1 DEF Gateways
  <2> HIDE DEF n
  <2>3. new # Absent /\ new.uid = Gateway.uid /\ new.finalizer = Gateway.finalizer
    BY <2>1, <2>2, DeletedSame
  <2> HIDE DEF new
  <2> QED BY <1>1, <2>1, <2>3, SameGatewayStep
<1>6. CASE DeleteGateway /\ ~Gateway.finalizer
  <2>1. WriteGateway(Absent)
    BY <1>6 DEF DeleteGateway, Gateway
  <2> QED BY <1>1, <1>6, <2>1, UnprotectedGatewayStep
<1> QED BY <1>3, <1>4, <1>5, <1>6 DEF User

---------------------------------------------------------------------------
(* The invariant, and what it is for. *)

\* Every action of Reconcile and of finalizeHigressGateway keeps the protocol.
LEMMA WorkerKeeps ==
  ASSUME TypeOK, FinalizerProtocol, Worker
  PROVE  FinalizerProtocol'
<1>1. CASE StartReconcile \/ FinalizeBinding \/ RemoveFinalizer \/ CheckNamespace
           \/ AddFinalizer \/ Reread \/ PatchStatus
  BY <1>1, StartKeeps, FinalizeKeeps, RemoveKeeps, NamespaceKeeps, AddKeeps, RereadKeeps,
     PatchStatusKeeps
<1>2. CASE DropRequest \/ NamespaceTerminating
  BY <1>2, BesidesKeep
<1>3. CASE SkywalkingError \/ SkywalkingPanic
  BY <1>3, RequeueKeeps, RestartKeeps DEF SkywalkingError
<1>4. CASE \/ CreateServiceAccount
           \/ \E k \in Objects \ {"serviceAccount"} : CreateOrUpdate(k)
           \/ DeleteIfExists("deleteHPA", "hpa")
           \/ DeleteIfExists("deleteScaledObject", "scaledObject")
           \/ FindKEDA
  BY <1>4, CallsKeep
<1> QED BY <1>1, <1>2, <1>3, <1>4 DEF Worker

\* The inductive step for all of Next.
LEMMA NextKeeps ==
  ASSUME TypeOK, FinalizerProtocol, [Next]_vars
  PROVE  FinalizerProtocol'
<1>1. CASE Worker
  BY <1>1, WorkerKeeps
<1>2. CASE User
  BY <1>2, UserKeeps
<1>3. CASE Environment
  <2>1. CASE \E k \in Kinds : Deliver(k)
    BY <2>1, DeliverKeeps
  <2>2. CASE Crash
    BY <2>2, RestartKeeps
  <2>3. CASE \/ \E k \in Objects : CollectGarbage(k)
             \/ \E k \in Deletable : ExternalDelete(k)
             \/ \E n \in AutoscaledReplicas : Scale(n)
             \/ \E n \in Neighbours : NeighbourGrants(n) \/ NeighbourRevokes(n)
             \/ ApiError \/ NamespaceError \/ InstallKEDA \/ TerminateNamespace
    BY <2>3, BesidesKeep
  <2> QED BY <1>3, <2>1, <2>2, <2>3 DEF Environment
<1>4. CASE Resync
  BY <1>4, BesidesKeep
<1>5. CASE UNCHANGED vars
  BY <1>5, NoWriteKeeps DEF vars, pass, PassKept
<1> QED BY <1>1, <1>2, <1>3, <1>4, <1>5 DEF Next

\* At the start there is neither a gateway nor a pass.
LEMMA InitKeeps ==
  ASSUME Init
  PROVE  FinalizerProtocol
<1>1. past["gateway"] = <<>> /\ server["clusterRoleBinding"] = Absent
  BY KindsFacts DEF Init
<1>2. 1..Len(past["gateway"]) = {}
  BY <1>1
<1> QED
  BY <1>1, <1>2 DEF Init, FinalizerProtocol, InformerTrust, PassTrust, RereadTrust, CopyTrust,
     PassStage, RevokedFirst, SubjectHasFinalizer, Granted

\* The finalizer protocol of Reconcile and finalizeHigressGateway holds whatever
\* the users, the informers, crashes, failed calls and other clients do: a pass
\* may trust the stale copies it works on.
THEOREM ProtocolHolds == Safety => []FinalizerProtocol
<1>1. TypeOK /\ FinalizerProtocol /\ [Next]_vars => FinalizerProtocol'
  BY NextKeeps
<1>2. Init => FinalizerProtocol
  BY InitKeeps
<1> QED BY <1>1, <1>2, TypeCorrect, PTL DEF Safety

\* The ClusterRoleBinding never grants the gateway's service account its role
\* while no gateway carries the finalizer that makes the operator revoke it.
THEOREM NoGrantIsForgotten == Safety => []SubjectHasFinalizer
<1>1. FinalizerProtocol => SubjectHasFinalizer
  BY DEF FinalizerProtocol
<1> QED BY <1>1, ProtocolHolds, PTL

---------------------------------------------------------------------------
(***************************************************************************)
(* What a pass may and may not write to the objects it manages: whose      *)
(* children they become, whose grants and whose replicas it leaves alone.  *)
(***************************************************************************)

---------------------------------------------------------------------------
(* Children are created for the gateway that exists. *)

\* A write of one kind creates no object of another.
LEMMA PutCreates ==
  ASSUME TypeOK, NEW k \in Kinds, NEW j \in Kinds, NEW obj, Put(j, obj),
         server[k] = Absent, server'[k] # Absent
  PROVE  j = k /\ obj = server'[k] /\ obj # Absent
BY DEF TypeOK, StoreTypes, Put

\* Only CreateIfNotExits and CreateOrUpdate create an object, for their copy.
LEMMA CallsCreate ==
  ASSUME TypeOK, NEW k \in Controlled, Next, server[k] = Absent, server'[k] # Absent
  PROVE  pc = "apply" /\ server'[k].owner = inst.uid
<1>1. k \in Objects /\ k \in Kinds /\ k # "gateway" /\ k # "clusterRoleBinding"
      /\ "gateway" \in Kinds /\ "clusterRoleBinding" \in Kinds
  BY KindsFacts DEF Objects, Controlled
<1>2. Initial(k, inst).owner = inst.uid
  BY DEF Initial
<1>3. CASE CreateServiceAccount
  <2>1. Store("serviceAccount", Initial("serviceAccount", inst)) /\ pc = "apply"
    BY <1>3 DEF CreateServiceAccount, NoWrite, Requeue, Calling
  <2> QED BY <1>1, <1>2, <2>1, PutCreates, KindsFacts DEF Store
<1>4. CASE \E j \in Objects \ {"serviceAccount"} : CreateOrUpdate(j)
  <2>1. PICK j \in Objects : CreateOrUpdate(j)
    BY <1>4
  <2>2. Store(j, Mutated(j, Cached(j), inst)) /\ Current(j) /\ pc = "apply"
    BY <2>1 DEF CreateOrUpdate, NoWrite, Requeue, Calling
  <2>3. j = k /\ Cached(j) = Absent /\ Mutated(j, Cached(j), inst) = server'[k]
    BY <1>1, <2>1, <2>2, PutCreates, KindsFacts DEF Store, Cached
  <2> QED BY <1>2, <2>2, <2>3 DEF Mutated
<1>5. ASSUME NEW j \in Kinds, Put(j, Absent)
      PROVE  FALSE
  BY <1>1, <1>5, PutCreates
<1>6. ~UNCHANGED server
  BY DEF TypeOK
<1>7. ASSUME NEW obj, Put("gateway", obj)
      PROVE  FALSE
  BY <1>1, <1>7, PutCreates
<1>8. ASSUME NEW obj, Put("clusterRoleBinding", obj)
      PROVE  FALSE
  BY <1>1, <1>8, PutCreates
<1>9. CASE Worker /\ ~CreateServiceAccount
           /\ ~\E j \in Objects \ {"serviceAccount"} : CreateOrUpdate(j)
  <2>1. ~ \/ DropRequest \/ StartReconcile \/ CheckNamespace \/ NamespaceTerminating
          \/ Reread \/ FindKEDA \/ SkywalkingError \/ SkywalkingPanic
    BY <1>6 DEF DropRequest, StartReconcile, CheckNamespace, NamespaceTerminating, Reread,
       FindKEDA, SkywalkingError, SkywalkingPanic, Requeue, Restart, Relist, NoWrite
  <2>2. ~(FinalizeBinding \/ RemoveFinalizer \/ AddFinalizer \/ PatchStatus)
    BY <1>6, <1>7, <1>8
       DEF FinalizeBinding, RemoveFinalizer, AddFinalizer, PatchStatus, Store, Requeue, NoWrite
  <2>3. ~(DeleteIfExists("deleteHPA", "hpa")
          \/ DeleteIfExists("deleteScaledObject", "scaledObject"))
    BY <1>5, <1>6, KindsFacts DEF DeleteIfExists, Store, NoWrite
  <2> QED BY <1>9, <2>1, <2>2, <2>3 DEF Worker
<1>10. CASE User
  BY <1>7, <1>10 DEF User, CreateGateway, EditSpec, DeleteGateway, WriteGateway, Store
<1>11. CASE Environment
  <2>1. ~\E j \in Kinds : Deliver(j)
    BY <1>6 DEF Deliver, Advance
  <2>2. ~\E j \in Objects : CollectGarbage(j)
    BY <1>5, KindsFacts DEF CollectGarbage, Store
  <2>3. ~\E j \in Deletable : ExternalDelete(j)
    BY <1>5, KindsFacts, DeletableAssumption DEF ExternalDelete, Store
  <2>4. ~\E n \in AutoscaledReplicas : Scale(n)
    BY <1>1, PutCreates, KindsFacts DEF Scale, Store
  <2>5. ~(Crash \/ ApiError \/ NamespaceError \/ InstallKEDA \/ TerminateNamespace)
    BY <1>6 DEF Crash, ApiError, NamespaceError, InstallKEDA, TerminateNamespace, Restart,
       Relist, NoWrite
  <2>6. ~\E n \in Neighbours : NeighbourGrants(n) \/ NeighbourRevokes(n)
    BY <1>8, NeighbourWrites DEF Store
  <2> QED BY <1>11, <2>1, <2>2, <2>3, <2>4, <2>5, <2>6 DEF Environment
<1>12. CASE Resync
  BY <1>6, <1>12 DEF Resync
<1> QED BY <1>3, <1>4, <1>9, <1>10, <1>11, <1>12 DEF Next

\* The reconciler makes an object the child only of the gateway that exists at
\* that moment, however old the copy of the gateway the pass works on.
THEOREM ChildrenHaveLivingParents == Safety => ChildrenOfTheLiving
<1>1. ASSUME TypeOK, FinalizerProtocol, [Next]_vars
      PROVE  [\A k \in Controlled :
                server[k] = Absent /\ server'[k] # Absent
                => Gateway # Absent /\ server'[k].owner = Gateway.uid]_vars
  <2> SUFFICES ASSUME Next, NEW k \in Controlled, server[k] = Absent, server'[k] # Absent
               PROVE  Gateway # Absent /\ server'[k].owner = Gateway.uid
    BY <1>1
  <2> QED BY <1>1, CallsCreate DEF FinalizerProtocol, PassTrust, Protected
<1> QED BY <1>1, TypeCorrect, ProtocolHolds, PTL DEF Safety, ChildrenOfTheLiving

---------------------------------------------------------------------------
(* The binding that gateways of several namespaces share. *)

\* What a pass makes of the binding differs from what was there by the
\* gateway's own subject.
LEMMA MutatedKeepsNeighbours ==
  ASSUME NEW crb \in {Absent} \cup Managed
  PROVE  /\ NeighboursOf(Mutated("clusterRoleBinding", crb, inst)) = NeighboursOf(crb)
         /\ crb # Absent =>
              NeighboursOf([crb EXCEPT !.subjects = @ \ {Subject}]) = NeighboursOf(crb)
<1>1. CASE crb = Absent
  <2>1. Mutated("clusterRoleBinding", crb, inst).subjects = {Subject}
    BY <1>1 DEF Mutated, Initial
  <2> QED BY <1>1, <2>1, NeighboursAssumption DEF NeighboursOf
<1>2. CASE crb # Absent
  <2> DEFINE more == [crb EXCEPT !.subjects = @ \cup {Subject}]
             less == [crb EXCEPT !.subjects = @ \ {Subject}]
  <2>1. crb \in Managed /\ more \in Managed /\ less \in Managed
    BY <1>2 DEF Managed
  <2>2. more # Absent /\ less # Absent
    BY <2>1, AbsentAssumption
  <2>3. more.subjects = crb.subjects \cup {Subject} /\ less.subjects = crb.subjects \ {Subject}
    BY <2>1 DEF Managed
  <2>4. Mutated("clusterRoleBinding", crb, inst) = more
    BY <1>2 DEF Mutated
  <2> HIDE DEF more
  <2> QED BY <1>2, <2>2, <2>3, <2>4, NeighboursAssumption DEF NeighboursOf
<1> QED BY <1>1, <1>2

\* A pass writes the binding in two places, both times from a current copy.
LEMMA WorkerWritesBinding ==
  ASSUME TypeOK, Worker
  PROVE  LET crb == server["clusterRoleBinding"]
             new == server'["clusterRoleBinding"] IN
         \/ new = crb
         \/ new = Mutated("clusterRoleBinding", crb, inst)
         \/ crb # Absent /\ new = [crb EXCEPT !.subjects = @ \ {Subject}]
<1>1. "clusterRoleBinding" \in Kinds /\ "gateway" \in Kinds /\ "clusterRoleBinding" # "gateway"
  BY KindsFacts
<1>2. ASSUME NEW k \in Kinds, NEW obj, Put(k, obj)
      PROVE  server'["clusterRoleBinding"] = IF k = "clusterRoleBinding" THEN obj
                                             ELSE server["clusterRoleBinding"]
  BY <1>1, <1>2 DEF Put, TypeOK, StoreTypes
<1>3. CASE UNCHANGED server
  BY <1>3
<1>4. CASE FinalizeBinding
  BY <1>1, <1>2, <1>4 DEF FinalizeBinding, Store, Requeue, Current, Cached
<1>5. CASE \E k \in Objects \ {"serviceAccount"} : CreateOrUpdate(k)
  <2>1. PICK k \in Objects : CreateOrUpdate(k)
    BY <1>5
  <2>2. UNCHANGED server \/ (Put(k, Mutated(k, Cached(k), inst)) /\ Cached(k) = server[k])
    BY <2>1 DEF CreateOrUpdate, Store, NoWrite, Requeue, Current, Cached
  <2> QED BY <1>2, <2>2, KindsFacts
<1>6. CASE RemoveFinalizer \/ AddFinalizer \/ PatchStatus
  BY <1>1, <1>2, <1>6
     DEF RemoveFinalizer, AddFinalizer, PatchStatus, Store, NoWrite, Requeue
<1>7. CASE CreateServiceAccount \/ DeleteIfExists("deleteHPA", "hpa")
           \/ DeleteIfExists("deleteScaledObject", "scaledObject")
  BY <1>2, <1>7, KindsFacts DEF CreateServiceAccount, DeleteIfExists, Store, NoWrite, Requeue,
     Kinds, Objects, Controlled
<1>8. CASE \/ DropRequest \/ StartReconcile \/ CheckNamespace \/ NamespaceTerminating
           \/ Reread \/ FindKEDA \/ SkywalkingError \/ SkywalkingPanic
  BY <1>8 DEF DropRequest, StartReconcile, CheckNamespace, NamespaceTerminating, Reread,
     FindKEDA, SkywalkingError, SkywalkingPanic, Requeue, Restart, Relist, NoWrite
<1> QED BY <1>4, <1>5, <1>6, <1>7, <1>8 DEF Worker

\* A pass never takes a neighbour's grant in the shared ClusterRoleBinding away
\* and never brings one back, however old the list of subjects it has read.
THEOREM NeighboursAreLeftAlone == Safety => NeighboursKeepGrants
<1>1. ASSUME TypeOK, [Next]_vars
      PROVE  [Worker => NeighboursOf(server["clusterRoleBinding"])'
                        = NeighboursOf(server["clusterRoleBinding"])]_vars
  <2> SUFFICES ASSUME Worker
               PROVE  NeighboursOf(server["clusterRoleBinding"])'
                      = NeighboursOf(server["clusterRoleBinding"])
    OBVIOUS
  <2>1. server["clusterRoleBinding"] \in {Absent} \cup Managed
    BY <1>1, KindsFacts, VersionsFacts DEF TypeOK, StoreTypes, Objects, Rbac
  <2>2. NeighboursOf(server'["clusterRoleBinding"]) = NeighboursOf(server["clusterRoleBinding"])
    BY <1>1, <2>1, WorkerWritesBinding, MutatedKeepsNeighbours
  <2> QED BY <2>2 DEF NeighboursOf
<1> QED BY <1>1, TypeCorrect, PTL DEF Safety, NeighboursKeepGrants

---------------------------------------------------------------------------
(* The replicas of a Deployment that an autoscaler scales. *)

\* updateDeploymentSpec keeps the replicas it was given when autoscaling is on.
LEMMA UpdatePreservesReplicas ==
  ASSUME NEW old \in Managed, NEW gw \in Copies, shouldPreserveReplicas(gw.spec)
  PROVE  Mutated("deployment", old, gw).replicas = old.replicas
<1>1. old # Absent
  BY AbsentAssumption
<1>2. Mutated("deployment", old, gw) = updateDeploymentSpec(old, gw)
  BY <1>1 DEF Mutated
<1> QED BY <1>2 DEF updateDeploymentSpec, Managed

\* A pass changes a Deployment in one place, from a current copy.
LEMMA WorkerWritesDeployment ==
  ASSUME TypeOK, Worker
  PROVE  \/ server'["deployment"] = server["deployment"]
         \/ /\ server'["deployment"] = Mutated("deployment", server["deployment"], inst)
            /\ pc # "idle"
<1>1. "deployment" \in Kinds /\ "gateway" \in Kinds /\ "clusterRoleBinding" \in Kinds
      /\ "deployment" \notin {"gateway", "clusterRoleBinding", "serviceAccount", "hpa",
                              "scaledObject"}
  BY KindsFacts
<1>2. ASSUME NEW k \in Kinds, NEW obj, Put(k, obj)
      PROVE  server'["deployment"] = IF k = "deployment" THEN obj ELSE server["deployment"]
  BY <1>1, <1>2 DEF Put, TypeOK, StoreTypes
<1>3. CASE \E k \in Objects \ {"serviceAccount"} : CreateOrUpdate(k)
  <2>1. PICK k \in Objects : CreateOrUpdate(k)
    BY <1>3
  <2>2. \/ UNCHANGED server
        \/ Put(k, Mutated(k, Cached(k), inst)) /\ Cached(k) = server[k] /\ pc # "idle"
    BY <2>1 DEF CreateOrUpdate, Store, NoWrite, Requeue, Current, Cached, Calling
  <2> QED BY <1>2, <2>2, KindsFacts
<1>4. CASE FinalizeBinding \/ RemoveFinalizer \/ AddFinalizer \/ PatchStatus
  BY <1>1, <1>2, <1>4
     DEF FinalizeBinding, RemoveFinalizer, AddFinalizer, PatchStatus, Store, NoWrite, Requeue
<1>5. CASE CreateServiceAccount \/ DeleteIfExists("deleteHPA", "hpa")
           \/ DeleteIfExists("deleteScaledObject", "scaledObject")
  BY <1>1, <1>2, <1>5, KindsFacts
     DEF CreateServiceAccount, DeleteIfExists, Store, NoWrite, Requeue
<1>6. CASE \/ DropRequest \/ StartReconcile \/ CheckNamespace \/ NamespaceTerminating
           \/ Reread \/ FindKEDA \/ SkywalkingError \/ SkywalkingPanic
  BY <1>6 DEF DropRequest, StartReconcile, CheckNamespace, NamespaceTerminating, Reread,
     FindKEDA, SkywalkingError, SkywalkingPanic, Requeue, Restart, Relist, NoWrite
<1> QED BY <1>3, <1>4, <1>5, <1>6 DEF Worker

\* While the spec a pass works on has autoscaling on, createDeployment never
\* undoes a scaling decision, not even one made after the Deployment was read.
THEOREM ScalingIsRespected == Safety => ReplicasPreserved
<1>1. ASSUME TypeOK, [Next]_vars
      PROVE  [/\ Worker /\ inst # Absent /\ shouldPreserveReplicas(inst.spec)
              /\ server["deployment"] # Absent /\ server'["deployment"] # Absent
              => server'["deployment"].replicas = server["deployment"].replicas]_vars
  <2> SUFFICES ASSUME Worker, shouldPreserveReplicas(inst.spec),
                      server["deployment"] # Absent
               PROVE  server'["deployment"].replicas = server["deployment"].replicas
    OBVIOUS
  <2>1. server["deployment"] \in Managed
    BY <1>1, KindsFacts, VersionsFacts DEF TypeOK, StoreTypes
  <2>2. pc # "idle" => inst \in Copies
    BY <1>1, CopyOfPass
  <2> QED BY <1>1, <2>1, <2>2, WorkerWritesDeployment, UpdatePreservesReplicas
<1> QED BY <1>1, TypeCorrect, PTL DEF Safety, ReplicasPreserved
===============================================================================
