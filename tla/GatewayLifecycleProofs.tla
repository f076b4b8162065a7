------------------------ MODULE GatewayLifecycleProofs ------------------------
(***************************************************************************)
(* Every step of the reconciler and its surroundings is a step of the      *)
(* gateway's life cycle, or none: what may be written over the gateway,    *)
(* and that GatewayReconciler implements GrantLifecycle.  Then the         *)
(* generations in the gateway's status: VersionsInOrder is inductive, and  *)
(* patchStatus neither over-reports nor goes back, although it writes      *)
(* without a resourceVersion.                                              *)
(***************************************************************************)
EXTENDS GatewayFinalizerProofs

---------------------------------------------------------------------------
(* What each write makes of the gateway. *)

\* The user creates it: a new incarnation, whose status is empty.
Created(old, new) ==
  /\ old = Absent /\ new # Absent
  /\ ~new.finalizer /\ ~new.deleting /\ new.uid = lastUid + 1 /\ new.status = NoStatus
  /\ lastUid' = lastUid + 1

\* Any other write but the last one: the same incarnation, not an older generation.
Rewritten(old, new) ==
  /\ old # Absent /\ new # Absent
  /\ new.uid = old.uid /\ old.gen <= new.gen
  /\ lastUid' = lastUid

\* The user edits the spec, or patchStatus writes the status.
Edited(old, new) ==
  /\ Rewritten(old, new)
  /\ new.finalizer = old.finalizer /\ new.deleting = old.deleting /\ new.status = old.status
Reported(old, new) ==
  /\ Rewritten(old, new)
  /\ new.finalizer = old.finalizer /\ new.deleting = old.deleting /\ new.gen = old.gen
  /\ new.status = MergePatch(old.status, inst.status, DesiredStatus(inst, kedaFound))
  /\ pc = "apply" /\ inst' = Absent

\* A pass adds the finalizer; the user deletes what has one.
GivenFinalizer(old, new) ==
  /\ Rewritten(old, new)
  /\ ~old.finalizer /\ new.finalizer /\ new.status = old.status
  /\ ~old.deleting /\ ~new.deleting
MarkedDeleted(old, new) ==
  /\ Rewritten(old, new)
  /\ old.finalizer /\ ~old.deleting /\ new.finalizer /\ new.deleting
  /\ new.status = old.status

\* It goes: without a finalizer, or at the end of its deletion.
Removed(old, new) ==
  /\ old # Absent /\ new = Absent
  /\ old.finalizer => old.deleting /\ ~Granted
  /\ lastUid' = lastUid

Written(old, new) ==
  \/ Created(old, new) \/ Edited(old, new) \/ Reported(old, new)
  \/ GivenFinalizer(old, new) \/ MarkedDeleted(old, new) \/ Removed(old, new)

\* A step that writes the gateway, and one that does not: then the informer may
\* move on, and a pass may read it.
WritesGateway ==
  \E obj : Put("gateway", obj) /\ Written(Gateway, obj) /\ inst' \in {inst, Absent}
InformerMoves ==
  \/ past'["gateway"] = past["gateway"] \/ past'["gateway"] = <<>>
  \/ past["gateway"] # <<>> /\ past'["gateway"] = Tail(past["gateway"])
PassReads ==
  \/ inst' = inst \/ inst' = Absent
  \/ Cached("gateway") # Absent /\ inst' = WithDefaults(Cached("gateway"))
SparesGateway ==
  /\ Gateway' = Gateway /\ lastUid' = lastUid
  /\ InformerMoves /\ PassReads
  /\ Granted' => Granted \/ pc = "apply"

\* The update that only adds the finalizer and changes the generation.
LEMMA FinalizedFields ==
  ASSUME NEW gw \in Gateways, NEW n \in Nat
  PROVE  LET new == [gw EXCEPT !.finalizer = TRUE, !.gen = n]
         IN  new # Absent /\ new.uid = gw.uid /\ new.finalizer /\ new.gen = n
             /\ new.deleting = gw.deleting /\ new.status = gw.status
BY AbsentAssumption DEF Gateways

\* The update that marks the gateway as deleted.
LEMMA DeletedFields ==
  ASSUME NEW gw \in Gateways, NEW n \in Nat
  PROVE  LET new == [gw EXCEPT !.deleting = TRUE, !.gen = n]
         IN  new # Absent /\ new.uid = gw.uid /\ new.finalizer = gw.finalizer /\ new.gen = n
             /\ new.deleting /\ new.status = gw.status
BY AbsentAssumption DEF Gateways

\* The update of the status.
LEMMA PatchedFields ==
  ASSUME NEW gw \in Gateways, NEW status \in Statuses
  PROVE  LET new == [gw EXCEPT !.status = status]
         IN  new # Absent /\ new.uid = gw.uid /\ new.finalizer = gw.finalizer
             /\ new.gen = gw.gen /\ new.deleting = gw.deleting /\ new.status = status
BY AbsentAssumption DEF Gateways

\* setDefaultValues leaves everything but the spec.
LEMMA DefaultsFields ==
  ASSUME NEW gw \in Gateways
  PROVE  LET new == WithDefaults(gw)
         IN  new.uid = gw.uid /\ new.gen = gw.gen /\ new.finalizer = gw.finalizer
             /\ new.deleting = gw.deleting /\ new.status = gw.status
BY DEF WithDefaults, Gateways

---------------------------------------------------------------------------
(* The steps that write it. *)

\* The server's version of the gateway, if there is one.
LEMMA GatewayTyped ==
  ASSUME TypeOK
  PROVE  Gateway \in {Absent} \cup Gateways
BY KindsFacts, VersionsFacts DEF TypeOK, StoreTypes, Gateway

\* CreateGateway, EditSpec and DeleteGateway.
LEMMA UserWrites ==
  ASSUME TypeOK, FinalizerProtocol, User
  PROVE  WritesGateway
<1>1. ASSUME NEW obj, WriteGateway(obj)
      PROVE  Put("gateway", obj) /\ inst' = inst
  BY <1>1 DEF WriteGateway, Store
<1>2. Gateway \in {Absent} \cup Gateways /\ lastUid \in Nat
  BY GatewayTyped DEF TypeOK, ClusterTypes
<1>3. CASE \E spec \in Specs : CreateGateway(spec)
  <2>1. PICK spec \in Specs : CreateGateway(spec)
    BY <1>3
  <2> DEFINE new == [uid |-> lastUid + 1, gen |-> 1, spec |-> spec, finalizer |-> FALSE,
                     deleting |-> FALSE, status |-> NoStatus]
  <2>2. NoStatus \in Statuses /\ spec \in RawSpecs /\ lastUid + 1 \in Nat
    BY <1>2, SpecsAssumption DEF NoStatus, NoConditions, Statuses, Conditions
  <2>3. new \in Gateways
    BY <2>2 DEF Gateways
  <2>4. new # Absent
    BY <2>3, AbsentAssumption
  <2>5. WriteGateway(new) /\ lastUid' = lastUid + 1 /\ Gateway = Absent
    BY <2>1 DEF CreateGateway, Gateway
  <2>6. Created(Gateway, new)
    BY <2>4, <2>5 DEF Created
  <2> HIDE DEF new
  <2> QED BY <1>1, <2>5, <2>6 DEF WritesGateway, Written
<1>4. CASE \E spec \in Specs : EditSpec(spec)
  <2>1. PICK spec \in Specs : EditSpec(spec)
    BY <1>4
  <2> DEFINE n == Gateway.gen + 1
             new == [Gateway EXCEPT !.spec = spec, !.gen = n]
  <2>2. Gateway \in Gateways /\ Gateway # Absent /\ WriteGateway(new) /\ lastUid' = lastUid
    BY <1>2, <2>1 DEF EditSpec, Gateway
  <2>3. n \in Nat /\ Gateway.gen <= n /\ spec \in RawSpecs /\ Gateway \in Gateways
    BY <2>2, SpecsAssumption DEF Gateways
  <2> HIDE DEF n
  <2>4. /\ new # Absent /\ new.uid = Gateway.uid /\ new.finalizer = Gateway.finalizer
        /\ new.gen = n /\ new.deleting = Gateway.deleting /\ new.status = Gateway.status
    BY <2>3, AbsentAssumption, Zenon DEF Gateways
  <2> HIDE DEF new
  <2>5. Edited(Gateway, new)
    BY <2>2, <2>3, <2>4 DEF Edited, Rewritten
  <2> QED BY <1>1, <2>2, <2>5 DEF WritesGateway, Written
<1>5. CASE DeleteGateway /\ Gateway.finalizer
  <2> DEFINE n == Gateway.gen + 1
             new == [Gateway EXCEPT !.deleting = TRUE, !.gen = n]
  <2>1. Gateway \in Gateways /\ Gateway # Absent /\ ~Gateway.deleting /\ WriteGateway(new)
        /\ lastUid' = lastUid
    BY <1>2, <1>5 DEF DeleteGateway, Gateway, cluster
  <2>2. n \in Nat /\ Gateway.gen <= n
    BY <2>1 DEF Gateways
  <2> HIDE DEF n
  <2>3. MarkedDeleted(Gateway, new)
    BY <1>5, <2>1, <2>2, DeletedFields DEF MarkedDeleted, Rewritten
  <2> HIDE DEF new
  <2> QED BY <1>1, <2>1, <2>3 DEF WritesGateway, Written
<1>6. CASE DeleteGateway /\ ~Gateway.finalizer
  <2>1. WriteGateway(Absent) /\ Removed(Gateway, Absent)
    BY <1>6 DEF DeleteGateway, Gateway, Removed, cluster
  <2> QED BY <1>1, <2>1 DEF WritesGateway, Written
<1> QED BY <1>3, <1>4, <1>5, <1>6 DEF User

\* The copy of a pass when an Update of it is accepted is the gateway that
\* exists, with its defaults filled in.
LEMMA CurrentCopy ==
  ASSUME TypeOK, FinalizerProtocol, instCurrent, pc \in {"addFinalizer", "removeFinalizer"}
  PROVE  /\ Gateway # Absent /\ Gateway \in Gateways /\ inst \in Gateways
         /\ inst.uid = Gateway.uid /\ inst.gen = Gateway.gen /\ inst.status = Gateway.status
         /\ inst.finalizer = Gateway.finalizer /\ inst.deleting = Gateway.deleting
<1>1. Gateway # Absent /\ inst = WithDefaults(Gateway)
  BY DEF FinalizerProtocol, CopyTrust
<1>2. Gateway \in Gateways /\ inst \in Gateways
  BY <1>1, GatewayTyped, CopyOfPass
<1> QED BY <1>1, <1>2, DefaultsFields

\* The finalizer's removal takes a deleted gateway whose grant is gone.
LEMMA RemoveWrites ==
  ASSUME TypeOK, FinalizerProtocol, RemoveFinalizer, ~Requeue
  PROVE  WritesGateway
<1>1. Put("gateway", Absent) /\ inst' = Absent /\ lastUid' = lastUid /\ instCurrent
      /\ pc = "removeFinalizer"
  BY DEF RemoveFinalizer, Store, EndPass, cluster
<1>2. Gateway # Absent /\ Gateway.deleting /\ ~Granted
  BY <1>1, CurrentCopy DEF FinalizerProtocol, PassStage, RevokedFirst
<1>3. Removed(Gateway, Absent)
  BY <1>1, <1>2 DEF Removed
<1> QED BY <1>1, <1>3 DEF WritesGateway, Written

\* The finalizer is added to a gateway that is not deleted.
LEMMA AddWrites ==
  ASSUME TypeOK, FinalizerProtocol, AddFinalizer, ~Requeue
  PROVE  WritesGateway
<1> DEFINE g == IF inst.spec = server["gateway"].spec THEN inst.gen ELSE inst.gen + 1
           written == [inst EXCEPT !.finalizer = TRUE, !.gen = g]
<1>1. instCurrent /\ Store("gateway", written) /\ inst' = inst /\ UNCHANGED cluster
      /\ pc = "addFinalizer"
  BY DEF AddFinalizer
<1>2. /\ Gateway # Absent /\ inst \in Gateways /\ inst.gen \in Nat
      /\ inst.uid = Gateway.uid /\ inst.gen = Gateway.gen /\ inst.status = Gateway.status
      /\ ~inst.finalizer /\ ~inst.deleting /\ ~Gateway.finalizer /\ ~Gateway.deleting
  BY <1>1, CurrentCopy DEF FinalizerProtocol, PassStage, Gateways
<1>3. g \in Nat /\ inst.gen <= g
  BY <1>2
<1> HIDE DEF g
<1>4. GivenFinalizer(Gateway, written)
  BY <1>1, <1>2, <1>3, FinalizedFields DEF GivenFinalizer, Rewritten, cluster
<1> HIDE DEF written
<1> QED BY <1>1, <1>4 DEF WritesGateway, Written, Store

\* patchStatus changes nothing but the status.
LEMMA PatchWrites ==
  ASSUME TypeOK, FinalizerProtocol, PatchStatus, ~Requeue, ~(NoWrite /\ EndPass)
  PROVE  WritesGateway
<1> DEFINE new == DesiredStatus(inst, kedaFound)
           status == MergePatch(Gateway.status, inst.status, new)
           patched == [Gateway EXCEPT !.status = status]
<1>1. Gateway # Absent /\ Store("gateway", patched) /\ EndPass /\ UNCHANGED cluster
      /\ pc = "apply"
  BY DEF PatchStatus, Gateway, Calling
<1>2. Gateway \in Gateways /\ Gateway.gen \in Nat
  BY <1>1, GatewayTyped DEF Gateways
<1>3. new \in Statuses /\ inst.status \in Statuses
  BY <1>1, CopyOfPass, DesiredStatusTyped DEF Copies, TypeOK, PassTypes
<1> HIDE DEF new
<1>4. status \in Statuses
  BY <1>2, <1>3, MergePatchTyped DEF Gateways
<1> HIDE DEF status
<1>5. /\ patched # Absent /\ patched.uid = Gateway.uid /\ patched.gen = Gateway.gen
      /\ patched.finalizer = Gateway.finalizer /\ patched.deleting = Gateway.deleting
      /\ patched.status = status
  BY <1>2, <1>4, PatchedFields
<1> HIDE DEF patched
<1>6. Reported(Gateway, patched)
  BY <1>1, <1>2, <1>5 DEF Reported, Rewritten, EndPass, cluster, status, new
<1> QED BY <1>1, <1>6 DEF WritesGateway, Written, Store, EndPass

---------------------------------------------------------------------------
(* The steps that do not. *)

\* A write of an object.
LEMMA ObjectWriteSpares ==
  ASSUME TypeOK, NEW k \in Objects, NEW obj, Put(k, obj), inst' \in {inst, Absent},
         lastUid' = lastUid,
         pc = "apply" \/ k # "clusterRoleBinding" \/ obj = Absent
         \/ (Subject \in obj.subjects => Granted)
  PROVE  SparesGateway
<1>1. GatewayKept /\ server'[k] = obj /\ (k # "clusterRoleBinding" => (Granted' <=> Granted))
  BY PutObjectKeepsGateway
<1>2. k = "clusterRoleBinding" => (Granted' <=> obj # Absent /\ Subject \in obj.subjects)
  BY <1>1 DEF Granted
<1>3. Gateway' = Gateway /\ InformerMoves /\ PassReads
  BY <1>1 DEF GatewayKept, Gateway, InformerMoves, PassReads
<1>4. Granted' => Granted \/ pc = "apply"
  BY <1>1, <1>2 DEF Granted
<1> QED BY <1>3, <1>4 DEF SparesGateway

\* A step that writes nothing at all.
LEMMA NoWriteSpares ==
  ASSUME UNCHANGED <<server, past>>, inst' \in {inst, Absent}, lastUid' = lastUid
  PROVE  SparesGateway
<1>1. Gateway' = Gateway /\ (Granted' <=> Granted)
  BY DEF Gateway, Granted
<1>2. InformerMoves /\ PassReads
  BY DEF InformerMoves, PassReads
<1> QED BY <1>1, <1>2 DEF SparesGateway

\* A pass that ends with an error.
LEMMA RequeueSpares ==
  ASSUME Requeue
  PROVE  SparesGateway
BY NoWriteSpares DEF Requeue, EndPass, cluster

\* The calls between createServiceAccount and patchStatus.
LEMMA CallsSpare ==
  ASSUME TypeOK,
         \/ CreateServiceAccount
         \/ \E k \in Objects \ {"serviceAccount"} : CreateOrUpdate(k)
         \/ DeleteIfExists("deleteHPA", "hpa")
         \/ DeleteIfExists("deleteScaledObject", "scaledObject")
         \/ FindKEDA
  PROVE  SparesGateway
<1>1. ASSUME Proceed, UNCHANGED cluster, pc = "apply",
             NoWrite \/ \E k \in Objects : \E obj : Store(k, obj)
      PROVE  SparesGateway
  <2>1. inst' = inst /\ lastUid' = lastUid
    BY <1>1 DEF Proceed, cluster
  <2> QED BY <1>1, <2>1, ObjectWriteSpares, NoWriteSpares DEF Store, NoWrite
<1>2. CASE CreateServiceAccount
  BY <1>1, <1>2, RequeueSpares, KindsFacts DEF CreateServiceAccount, Calling
<1>3. CASE \E k \in Objects \ {"serviceAccount"} : CreateOrUpdate(k)
  BY <1>1, <1>3, RequeueSpares DEF CreateOrUpdate, Calling
<1>4. CASE DeleteIfExists("deleteHPA", "hpa")
  BY <1>1, <1>4, KindsFacts DEF DeleteIfExists, Calling
<1>5. CASE DeleteIfExists("deleteScaledObject", "scaledObject")
  BY <1>1, <1>5, KindsFacts DEF DeleteIfExists, Calling
<1>6. CASE FindKEDA
  BY <1>6, NoWriteSpares DEF FindKEDA, NoWrite, cluster
<1> QED BY <1>2, <1>3, <1>4, <1>5, <1>6

\* The pass up to its calls.
LEMMA BeginningSpares ==
  ASSUME TypeOK, DropRequest \/ StartReconcile \/ FinalizeBinding \/ CheckNamespace
                 \/ NamespaceTerminating \/ Reread
  PROVE  SparesGateway
<1>1. CASE DropRequest \/ CheckNamespace \/ NamespaceTerminating
  BY <1>1, NoWriteSpares
     DEF DropRequest, CheckNamespace, NamespaceTerminating, NoWrite, EndPass, pass, cluster
<1>2. CASE StartReconcile \/ (Reread /\ ~Requeue)
  <2>1. UNCHANGED <<server, past, lastUid>> /\ PassReads
    BY <1>2 DEF StartReconcile, NothingToDo, Reread, NoWrite, PassReads, cluster
  <2>2. Gateway' = Gateway /\ (Granted' <=> Granted) /\ InformerMoves
    BY <2>1 DEF Gateway, Granted, InformerMoves
  <2> QED BY <2>1, <2>2 DEF SparesGateway
<1>3. CASE FinalizeBinding /\ ~Requeue
  <2> DEFINE crb == Cached("clusterRoleBinding")
             new == [crb EXCEPT !.subjects = @ \ {Subject}]
  <2>1. crb # Absent /\ Store("clusterRoleBinding", new) /\ inst' = inst /\ lastUid' = lastUid
    BY <1>3 DEF FinalizeBinding, cluster
  <2>2. crb \in Managed
    BY <2>1, CachedTyped, KindsFacts, VersionsFacts DEF TypeOK
  <2> HIDE DEF crb
  <2>3. Subject \notin new.subjects
    BY <2>2 DEF Managed
  <2> HIDE DEF new
  <2> QED BY <2>1, <2>3, ObjectWriteSpares, KindsFacts DEF Store
<1> QED BY <1>1, <1>2, <1>3, RequeueSpares

\* A process that starts over.
LEMMA RestartSpares ==
  ASSUME TypeOK, Restart, lastUid' = lastUid
  PROVE  SparesGateway
<1>1. past'["gateway"] = <<>>
  BY KindsFacts DEF Restart, Relist, TypeOK, StoreTypes
<1>2. InformerMoves /\ PassReads
  BY <1>1 DEF Restart, EndPass, InformerMoves, PassReads
<1>3. Gateway' = Gateway /\ (Granted' <=> Granted)
  BY DEF Restart, Relist, Gateway, Granted
<1> QED BY <1>2, <1>3 DEF SparesGateway

\* The informer moves on.
LEMMA DeliverSpares ==
  ASSUME TypeOK, NEW k \in Kinds, Deliver(k)
  PROVE  SparesGateway
<1>1. past'["gateway"] = (IF k = "gateway" THEN Tail(past["gateway"]) ELSE past["gateway"])
  BY KindsFacts DEF Deliver, Advance, TypeOK, StoreTypes
<1>2. k = "gateway" => past["gateway"] # <<>>
  BY DEF Deliver, Advance, Current
<1>3. InformerMoves /\ PassReads
  BY <1>1, <1>2 DEF Deliver, InformerMoves, PassReads, pass
<1>4. Gateway' = Gateway /\ (Granted' <=> Granted) /\ lastUid' = lastUid
  BY DEF Deliver, Advance, Gateway, Granted, cluster
<1> QED BY <1>3, <1>4 DEF SparesGateway

\* Everybody else but the user.
LEMMA EnvironmentSpares ==
  ASSUME TypeOK, Environment \/ Resync
  PROVE  SparesGateway
<1>1. CASE Resync \/ ApiError \/ NamespaceError \/ InstallKEDA \/ TerminateNamespace
  BY <1>1, NoWriteSpares DEF Resync, ApiError, NamespaceError, InstallKEDA,
     TerminateNamespace, NoWrite, EndPass, pass, cluster
<1>2. CASE Crash
  BY <1>2, RestartSpares DEF Crash
<1>3. CASE \E k \in Kinds : Deliver(k)
  BY <1>3, DeliverSpares
<1>4. CASE \E k \in Objects : CollectGarbage(k)
  BY <1>4, ObjectWriteSpares DEF CollectGarbage, Store, pass, cluster
<1>5. CASE \E k \in Deletable : ExternalDelete(k)
  BY <1>5, ObjectWriteSpares, DeletableAssumption DEF ExternalDelete, Store, pass
<1>6. CASE \E n \in AutoscaledReplicas : Scale(n)
  BY <1>6, ObjectWriteSpares, KindsFacts DEF Scale, Store, pass
<1>7. CASE \E n \in Neighbours : NeighbourGrants(n) \/ NeighbourRevokes(n)
  <2>1. PICK obj : /\ Store("clusterRoleBinding", obj)
                   /\ Subject \in obj.subjects => Granted
    BY <1>7, NeighbourWrites DEF Granted
  <2>2. inst' = inst /\ lastUid' = lastUid
    BY <1>7, NeighbourWrites DEF pass
  <2> QED BY <2>1, <2>2, ObjectWriteSpares, KindsFacts DEF Store
<1> QED BY <1>1, <1>2, <1>3, <1>4, <1>5, <1>6, <1>7 DEF Environment

\* Whatever happens, the gateway is written in one of six ways or not at all.
LEMMA StepKinds ==
  ASSUME TypeOK, FinalizerProtocol, [Next]_vars
  PROVE  WritesGateway \/ SparesGateway
<1>1. CASE Worker
  <2>1. CASE SkywalkingError \/ SkywalkingPanic
    BY <2>1, RequeueSpares, RestartSpares DEF SkywalkingError, SkywalkingPanic, cluster
  <2>2. CASE RemoveFinalizer \/ AddFinalizer
    BY <2>2, RequeueSpares, RemoveWrites, AddWrites
  <2>3. CASE PatchStatus
    <3>1. PatchStatus => lastUid' = lastUid
      BY DEF PatchStatus, Requeue, cluster
    <3> QED BY <2>3, <3>1, RequeueSpares, PatchWrites, NoWriteSpares DEF NoWrite, EndPass
  <2> QED BY <1>1, <2>1, <2>2, <2>3, CallsSpare, BeginningSpares DEF Worker
<1>2. CASE User
  BY <1>2, UserWrites
<1>3. CASE Environment \/ Resync
  BY <1>3, EnvironmentSpares
<1>4. CASE UNCHANGED vars
  BY <1>4, NoWriteSpares DEF vars, pass, cluster
<1> QED BY <1>1, <1>2, <1>3, <1>4 DEF Next

---------------------------------------------------------------------------
(* The refinement. *)

\* A step that spares the gateway grants, revokes or stutters.
LEMMA SparingStepMaps ==
  ASSUME FinalizerProtocol, SparesGateway
  PROVE  [Lifecycle!Next]_<<Life, Granted>>
<1>1. Life' = Life
  BY DEF SparesGateway, Life
<1>2. Granted' /\ ~Granted => Life \in {"protected", "deleting"}
  <2>1. Granted' /\ ~Granted => Gateway # Absent /\ Gateway.finalizer
    BY DEF SparesGateway, FinalizerProtocol, PassTrust, Protected
  <2> QED BY <2>1 DEF Life
<1>3. Granted \in BOOLEAN /\ Granted' \in BOOLEAN
  BY DEF Granted
<1>4. CASE Granted' /\ ~Granted
  BY <1>1, <1>2, <1>4 DEF Lifecycle!Next, Lifecycle!Grant
<1>5. CASE ~Granted' /\ Granted
  BY <1>1, <1>3, <1>5 DEF Lifecycle!Next, Lifecycle!Revoke
<1>6. CASE Granted' <=> Granted
  BY <1>1, <1>3, <1>6
<1> QED BY <1>4, <1>5, <1>6

\* A step that writes it is the step of the life cycle of that name.
LEMMA WritingStepMaps ==
  ASSUME TypeOK, FinalizerProtocol, WritesGateway
  PROVE  [Lifecycle!Next]_<<Life, Granted>>
<1>1. PICK obj : Put("gateway", obj) /\ Written(Gateway, obj)
  BY DEF WritesGateway
<1>2. Gateway' = obj /\ (Granted' <=> Granted)
  BY <1>1, PutGatewayEffect
<1>3. Granted' = Granted
  BY <1>2 DEF Granted
<1>4. CASE Created(Gateway, obj)
  BY <1>2, <1>3, <1>4 DEF Created, Life, Lifecycle!Next, Lifecycle!Create
<1>5. CASE Edited(Gateway, obj) \/ Reported(Gateway, obj)
  BY <1>2, <1>3, <1>5 DEF Edited, Reported, Rewritten, Life
<1>6. CASE GivenFinalizer(Gateway, obj)
  BY <1>2, <1>3, <1>6 DEF GivenFinalizer, Rewritten, Life, Lifecycle!Next, Lifecycle!Protect
<1>7. CASE MarkedDeleted(Gateway, obj)
  BY <1>2, <1>3, <1>7 DEF MarkedDeleted, Rewritten, Life, Lifecycle!Next, Lifecycle!MarkDeleted
<1>8. CASE Removed(Gateway, obj)
  BY <1>2, <1>3, <1>8
     DEF Removed, Life, Lifecycle!Next, Lifecycle!Remove, Lifecycle!Discard
<1> QED BY <1>1, <1>4, <1>5, <1>6, <1>7, <1>8 DEF Written

\* GatewayReconciler implements GrantLifecycle: caches, conflicts, crashes and
\* retries are invisible in the gateway's life and in what is granted during it.
THEOREM ReconcilerImplementsLifecycle == Safety => ImplementsLifecycle
<1>1. Init => Lifecycle!Init
  <2> SUFFICES ASSUME Init PROVE Lifecycle!Init
    OBVIOUS
  <2>1. Gateway = Absent /\ server["clusterRoleBinding"] = Absent
    BY KindsFacts DEF Init, Gateway
  <2> QED BY <2>1 DEF Lifecycle!Init, Life, Granted
<1>2. TypeOK /\ FinalizerProtocol /\ [Next]_vars => [Lifecycle!Next]_<<Life, Granted>>
  BY StepKinds, SparingStepMaps, WritingStepMaps
<1> QED BY <1>1, <1>2, TypeCorrect, ProtocolHolds, PTL DEF Safety, ImplementsLifecycle, Lifecycle!Spec

AnyGateway == {Absent} \cup Gateways

---------------------------------------------------------------------------
(* Versions and their order. *)

\* The fields the order looks at are numbers.
LEMMA GatewayNumbers ==
  ASSUME NEW gw \in Gateways
  PROVE  /\ gw.uid \in Nat /\ gw.gen \in Nat /\ gw.status \in Statuses
         /\ gw.status.observedGeneration \in Nat /\ gw.status.conditions.gen \in Nat
         /\ gw # Absent
<1>1. gw.status \in Statuses /\ gw.uid \in Nat /\ gw.gen \in Nat /\ gw # Absent
  BY AbsentAssumption DEF Gateways
<1>2. gw.status.observedGeneration \in Nat /\ gw.status.conditions \in Conditions
  BY <1>1 DEF Statuses
<1> QED BY <1>1, <1>2 DEF Conditions

\* A version is in order with itself.
LEMMA InOrderReflexive ==
  ASSUME NEW v \in AnyGateway
  PROVE  InOrder(v, v)
BY GatewayNumbers DEF AnyGateway, InOrder, SameIncarnation

\* The defaults of the spec do not matter to the order.
LEMMA DefaultsInOrder ==
  ASSUME NEW v \in Gateways
  PROVE  /\ \A w : InOrder(v, w) => InOrder(WithDefaults(v), w)
         /\ \A w : Readable(v, w) => Readable(WithDefaults(v), w)
         /\ Known(v) => Known(WithDefaults(v))
<1> DEFINE d == WithDefaults(v)
<1>1. d.uid = v.uid /\ d.gen = v.gen /\ d.status = v.status /\ v # Absent /\ d # Absent
  BY DefaultsFields, DefaultsTyped, CopyIsGateway, GatewayNumbers
<1> HIDE DEF d
<1> QED BY <1>1 DEF d, InOrder, Readable, Honest, SameIncarnation, Known

\* Both statuses a pass may compute are of the generation of its copy.
LEMMA DesiredIsOfCopy ==
  ASSUME NEW gw, NEW found
  PROVE  /\ DesiredStatus(gw, found).observedGeneration = gw.gen
         /\ DesiredStatus(gw, found).conditions.gen = gw.gen
BY DEF DesiredStatus, markConfigurationInvalid, markResourcesReady

\* A merge patch of a status s, computed from an earlier status b of it: field by
\* field it may leave what s has, and still the result is consistent and lies
\* between what s reports and what is to be reported.
LEMMA PatchInOrder ==
  ASSUME NEW s \in Statuses, NEW b \in Statuses, NEW n \in Statuses,
         NEW m, m = MergePatch(s, b, n),
         b.observedGeneration <= s.observedGeneration,
         s.observedGeneration <= n.observedGeneration,
         b.conditions.gen = b.observedGeneration,
         s.conditions.gen = s.observedGeneration,
         n.conditions.gen = n.observedGeneration
  PROVE  /\ s.observedGeneration <= m.observedGeneration
         /\ m.observedGeneration <= n.observedGeneration
         /\ m.conditions.gen = m.observedGeneration
<1>1. /\ s.observedGeneration \in Nat /\ b.observedGeneration \in Nat
      /\ n.observedGeneration \in Nat
  BY DEF Statuses
<1>2. /\ m.observedGeneration = Patched(s.observedGeneration, b.observedGeneration,
                                        n.observedGeneration)
      /\ m.conditions = Patched(s.conditions, b.conditions, n.conditions)
  BY DEF MergePatch
<1>3. CASE n.observedGeneration = b.observedGeneration
  BY <1>1, <1>2, <1>3 DEF Patched
<1>4. CASE n.observedGeneration # b.observedGeneration
  <2>1. n.conditions # b.conditions
    BY <1>4
  <2> QED BY <1>1, <1>2, <1>4, <2>1 DEF Patched
<1> QED BY <1>3, <1>4

---------------------------------------------------------------------------
(* The writes. *)

\* The copy of a pass, and every version of the gateway.
LEMMA VersionsTyped ==
  ASSUME TypeOK
  PROVE  /\ Gateway \in AnyGateway /\ inst \in AnyGateway /\ lastUid \in Nat
         /\ past["gateway"] \in Seq(AnyVersion)
         /\ \A i \in 1..Len(past["gateway"]) : past["gateway"][i] \in AnyGateway
<1>1. inst \in AnyGateway
  BY CopyIsGateway DEF TypeOK, PassTypes, AnyGateway
<1> QED BY <1>1, GatewayTyped, KindsFacts, VersionsFacts
        DEF TypeOK, StoreTypes, ClusterTypes, AnyGateway

\* What patchStatus writes is honest, not behind what it replaces, and not ahead
\* of the copy it was computed from.
LEMMA ReportInOrder ==
  ASSUME TypeOK, FinalizerProtocol, VersionsInOrder, NEW obj \in AnyGateway,
         Reported(Gateway, obj)
  PROVE  /\ Gateway.status.observedGeneration <= obj.status.observedGeneration
         /\ obj.status.observedGeneration <= inst.gen
         /\ obj.status.conditions.gen = obj.status.observedGeneration
         /\ SameIncarnation(inst, Gateway)
<1> DEFINE new == DesiredStatus(inst, kedaFound)
<1>1. inst \in Copies /\ inst \in Gateways /\ Gateway \in Gateways /\ kedaFound \in BOOLEAN
  BY VersionsTyped, CopyOfPass DEF Reported, Rewritten, AnyGateway, TypeOK, PassTypes
<1>2. SameIncarnation(inst, Gateway)
  BY <1>1, GatewayNumbers DEF Reported, FinalizerProtocol, PassTrust, Protected, SameIncarnation
<1>3. new \in Statuses /\ new.observedGeneration = inst.gen /\ new.conditions.gen = inst.gen
  BY <1>1, DesiredStatusTyped, DesiredIsOfCopy
<1>4. obj.status = MergePatch(Gateway.status, inst.status, new)
  BY DEF Reported
<1> HIDE DEF new
<1>5. /\ inst.status.observedGeneration <= Gateway.status.observedGeneration
      /\ Gateway.status.observedGeneration <= inst.gen
      /\ inst.status.conditions.gen = inst.status.observedGeneration
      /\ Gateway.status.conditions.gen = Gateway.status.observedGeneration
  BY <1>2 DEF VersionsInOrder, Readable, InOrder, Honest, SameIncarnation
<1>6. Gateway.status \in Statuses /\ inst.status \in Statuses
  BY <1>1, GatewayNumbers
<1> QED BY <1>2, <1>3, <1>4, <1>5, <1>6, PatchInOrder

\* Whoever held a version before the gateway was written still holds one that is
\* readable, and so is the version written.
LEMMA WriteKeepsReadable ==
  ASSUME TypeOK, FinalizerProtocol, VersionsInOrder, NEW obj \in AnyGateway,
         Written(Gateway, obj)
  PROVE  /\ \A v \in AnyGateway :
              Readable(v, Gateway) /\ Known(v) /\ InOrder(inst, v) => Readable(v, obj)
         /\ Readable(obj, obj)
<1>1. Gateway \in AnyGateway /\ lastUid \in Nat
  BY VersionsTyped
<1>2. CASE Created(Gateway, obj)
  <2>1. obj \in Gateways /\ obj.uid = lastUid + 1
    BY <1>2 DEF Created, AnyGateway
  <2>2. \A v \in AnyGateway : Known(v) => ~SameIncarnation(v, obj)
    BY <1>1, <2>1, GatewayNumbers DEF Known, SameIncarnation, AnyGateway
  <2>3. Readable(obj, obj)
    <3>1. obj.status.observedGeneration = 0 /\ obj.status.conditions.gen = 0
      <4>1. obj.status = NoStatus
        BY <1>2 DEF Created
      <4>2. NoStatus.observedGeneration = 0 /\ NoStatus.conditions = NoConditions
        BY DEF NoStatus
      <4>3. NoConditions.gen = 0
        BY DEF NoConditions
      <4> QED BY <4>1, <4>2, <4>3
    <3> QED BY <2>1, <3>1, GatewayNumbers, InOrderReflexive DEF Readable, Honest, AnyGateway
  <2> QED BY <2>2, <2>3 DEF Readable, InOrder
<1>3. CASE Edited(Gateway, obj) \/ GivenFinalizer(Gateway, obj) \/ MarkedDeleted(Gateway, obj)
  <2>1. /\ obj \in Gateways /\ Gateway \in Gateways
        /\ obj.uid = Gateway.uid /\ obj.status = Gateway.status /\ Gateway.gen <= obj.gen
    BY <1>1, <1>3 DEF Edited, GivenFinalizer, MarkedDeleted, Rewritten, AnyGateway
  <2>2. \A v \in AnyGateway : Readable(v, Gateway) => Readable(v, obj)
    BY <2>1, GatewayNumbers DEF Readable, InOrder, SameIncarnation, AnyGateway
  <2>3. Honest(Gateway)
    BY DEF VersionsInOrder, Readable
  <2>4. Readable(obj, obj)
    BY <2>1, <2>3, GatewayNumbers, InOrderReflexive DEF Readable, Honest, AnyGateway
  <2> QED BY <2>2, <2>4
<1>4. CASE Reported(Gateway, obj)
  <2>1. /\ obj \in Gateways /\ Gateway \in Gateways
        /\ obj.uid = Gateway.uid /\ obj.gen = Gateway.gen
    BY <1>1, <1>4 DEF Reported, Rewritten, AnyGateway
  <2>2. /\ Gateway.status.observedGeneration <= obj.status.observedGeneration
        /\ obj.status.observedGeneration <= inst.gen
        /\ obj.status.conditions.gen = obj.status.observedGeneration
        /\ SameIncarnation(inst, Gateway)
    BY <1>4, ReportInOrder
  <2>3. inst \in Gateways
    BY <2>2, VersionsTyped DEF SameIncarnation, AnyGateway
  <2>4. ASSUME NEW v \in AnyGateway, Readable(v, Gateway), InOrder(inst, v)
        PROVE  Readable(v, obj)
    <3>1. CASE ~SameIncarnation(v, obj)
      BY <2>4, <3>1 DEF Readable, InOrder
    <3>2. CASE SameIncarnation(v, obj)
      <4>1. v \in Gateways /\ SameIncarnation(v, Gateway) /\ SameIncarnation(inst, v)
        BY <2>1, <2>2, <3>2, GatewayNumbers DEF SameIncarnation, AnyGateway
      <4>2. inst.gen <= v.gen /\ v.gen <= Gateway.gen
            /\ v.status.observedGeneration <= Gateway.status.observedGeneration
        BY <2>4, <4>1 DEF Readable, InOrder
      <4> QED BY <2>1, <2>2, <2>3, <2>4, <4>1, <4>2, GatewayNumbers DEF Readable, InOrder
    <3> QED BY <3>1, <3>2
  <2>5. Readable(obj, obj)
    <3>1. inst.gen <= Gateway.gen
      BY <2>2 DEF VersionsInOrder, Readable, InOrder
    <3>2. Honest(obj)
      BY <2>1, <2>2, <2>3, <3>1, GatewayNumbers DEF Honest
    <3> QED BY <2>1, <3>2, GatewayNumbers, InOrderReflexive DEF Readable, Honest, AnyGateway
  <2> QED BY <2>4, <2>5
<1>5. CASE Removed(Gateway, obj)
  BY <1>5 DEF Removed, Readable, InOrder, SameIncarnation, Honest
<1> QED BY <1>2, <1>3, <1>4, <1>5 DEF Written

\* What a reader may hold beside the pass, whose copy precedes it.
Held(v) == v \in AnyGateway /\ Readable(v, Gateway) /\ Known(v) /\ InOrder(inst, v)

\* Every version there is can be held.
LEMMA VersionsHeld ==
  ASSUME TypeOK, VersionsInOrder
  PROVE  /\ Held(Gateway) /\ Held(inst) /\ Held(Absent)
         /\ \A i \in 1..Len(past["gateway"]) : Held(past["gateway"][i])
<1>1. InOrder(inst, inst) /\ InOrder(inst, Gateway)
  BY VersionsTyped, InOrderReflexive DEF VersionsInOrder, Readable
<1>2. Held(Absent)
  BY DEF Held, AnyGateway, Readable, Honest, InOrder, SameIncarnation, Known
<1> QED BY <1>1, <1>2, VersionsTyped DEF Held, VersionsInOrder

\* The copy of a pass stays where it is, or there is none any more.
LEMMA CopyStays ==
  ASSUME NEW v, InOrder(inst, v), inst' \in {inst, Absent}
  PROVE  InOrder(inst', v)
BY DEF InOrder, SameIncarnation

\* A write adds to the informer's versions the one it replaces, at the end.
LEMMA WriteKeepsOrder ==
  ASSUME TypeOK, TypeOK', FinalizerProtocol, VersionsInOrder, WritesGateway
  PROVE  VersionsInOrder'
<1> DEFINE p == past["gateway"]
           q == past'["gateway"]
<1>1. PICK obj : Put("gateway", obj) /\ Written(Gateway, obj) /\ inst' \in {inst, Absent}
  BY DEF WritesGateway
<1>2. Gateway' = obj /\ obj \in AnyGateway
  BY <1>1, PutGatewayEffect, KindsFacts, VersionsFacts
     DEF TypeOK, StoreTypes, AnyGateway, Gateway
<1>3. p \in Seq(AnyVersion) /\ lastUid \in Nat /\ Gateway \in AnyGateway
  BY VersionsTyped
<1>4. q = p \/ q = Append(p, Gateway)
  BY <1>1, KindsFacts DEF TypeOK, StoreTypes, Put, Gateway
<1>5. Readable(obj, obj) /\ Known(obj)'
  <2>1. Known(obj)'
    BY <1>1, <1>3 DEF Written, Created, Edited, Reported, GivenFinalizer, MarkedDeleted, Removed,
       Rewritten, Known, VersionsInOrder
  <2> QED BY <1>1, <1>2, <2>1, WriteKeepsReadable
<1>6. ASSUME NEW v, Held(v)
      PROVE  Readable(v, obj) /\ (v # Absent => v.uid <= lastUid') /\ InOrder(inst', v)
  <2>1. lastUid' = lastUid \/ lastUid' = lastUid + 1
    BY <1>1 DEF Written, Created, Edited, Reported, GivenFinalizer, MarkedDeleted, Removed,
       Rewritten
  <2>2. v # Absent => v.uid <= lastUid'
    BY <1>3, <1>6, <2>1, GatewayNumbers DEF Held, AnyGateway, Known
  <2> QED BY <1>1, <1>2, <1>6, <2>2, WriteKeepsReadable, CopyStays DEF Held
<1>7. \A i \in 1..Len(q) : Held(q[i])
  BY <1>3, <1>4, VersionsHeld
<1>8. \A i, j \in 1..Len(q) : i < j => InOrder(q[i], q[j])
  <2>1. CASE q = p
    BY <2>1 DEF VersionsInOrder
  <2>2. CASE q = Append(p, Gateway)
    <3>1. /\ Len(q) = Len(p) + 1 /\ q[Len(q)] = Gateway
          /\ \A i \in 1..Len(p) : q[i] = p[i]
      BY <1>3, <2>2
    <3>2. \A i \in 1..Len(p) : InOrder(p[i], Gateway)
      BY DEF VersionsInOrder, Readable
    <3> QED BY <1>3, <3>1, <3>2 DEF VersionsInOrder
  <2> QED BY <1>4, <2>1, <2>2
<1>9. Readable(inst', obj) /\ (inst' # Absent => inst'.uid <= lastUid')
  <2>1. \A v \in {inst, Absent} : Held(v)
    BY VersionsHeld
  <2> QED BY <1>1, <1>6, <2>1
<1>10. Readable(Gateway, Gateway)' /\ Known(Gateway)' /\ Readable(inst, Gateway)' /\ Known(inst)'
  BY <1>2, <1>5, <1>9 DEF Known
<1>11. \A i \in 1..Len(q) :
         Readable(q[i], Gateway') /\ (q[i] # Absent => q[i].uid <= lastUid') /\ InOrder(inst', q[i])
  BY <1>2, <1>6, <1>7
<1> QED BY <1>8, <1>10, <1>11, Zenon DEF VersionsInOrder, Known

\* Reading does not change the order of what is read: a pass takes the oldest
\* version its informer has, and the informer drops it first.
LEMMA SparingKeepsOrder ==
  ASSUME TypeOK, VersionsInOrder, SparesGateway
  PROVE  VersionsInOrder'
<1> DEFINE p == past["gateway"]
           q == past'["gateway"]
           c == Cached("gateway")
<1>1. p \in Seq(AnyVersion) /\ Gateway' = Gateway /\ lastUid' = lastUid
  BY VersionsTyped DEF SparesGateway
<1>2. c \in AnyGateway /\ Readable(c, Gateway) /\ Known(c) /\ \A j \in 1..Len(p) : InOrder(c, p[j])
  <2>1. CASE p = <<>>
    <3>1. c = Gateway /\ Len(p) = 0
      BY <2>1 DEF Cached, Current, Gateway
    <3> QED BY <3>1, VersionsHeld DEF Held
  <2>2. CASE p # <<>>
    <3>1. 1 \in 1..Len(p) /\ c = p[1]
      BY <1>1, <2>2, HeadTailProperties DEF Cached, Current
    <3>2. InOrder(c, p[1])
      BY <3>1, VersionsTyped, InOrderReflexive
    <3>3. \A j \in 1..Len(p) : j # 1 => InOrder(p[1], p[j])
      BY <3>1 DEF VersionsInOrder
    <3> QED BY <3>1, <3>2, <3>3, VersionsHeld DEF Held
  <2> QED BY <2>1, <2>2
<1>3. Readable(inst', Gateway) /\ (inst' # Absent => inst'.uid <= lastUid)
      /\ \A j \in 1..Len(p) : InOrder(inst', p[j])
  <2>1. CASE inst' = inst
    BY <2>1 DEF VersionsInOrder, Known
  <2>2. CASE inst' = Absent
    BY <2>2 DEF Readable, Honest, InOrder, SameIncarnation
  <2>3. CASE c # Absent /\ inst' = WithDefaults(c)
    <3>1. c \in Gateways
      BY <1>2, <2>3 DEF AnyGateway
    <3> HIDE DEF c
    <3>2. Readable(inst', Gateway) /\ \A j \in 1..Len(p) : InOrder(inst', p[j])
      BY <1>2, <2>3, <3>1, DefaultsInOrder
    <3>3. inst'.uid = c.uid
      BY <2>3, <3>1, DefaultsFields
    <3> QED BY <1>2, <2>3, <3>2, <3>3 DEF Known
  <2> QED BY <2>1, <2>2, <2>3 DEF SparesGateway, PassReads
<1>4. \A i, j \in 1..Len(q) : i < j => InOrder(q[i], q[j])
  <2>1. CASE q = <<>>
    BY <2>1
  <2>2. CASE q = p
    BY <2>2 DEF VersionsInOrder
  <2>3. CASE p # <<>> /\ q = Tail(p)
    <3>1. Len(p) \in Nat /\ Len(q) = Len(p) - 1 /\ \A i \in 1..Len(q) : q[i] = p[i + 1]
      BY <1>1, <2>3, HeadTailProperties, LenProperties
    <3> HIDE DEF q
    <3> QED BY <3>1 DEF VersionsInOrder
  <2> QED BY <2>1, <2>2, <2>3 DEF SparesGateway, InformerMoves
<1>5. \A i \in 1..Len(q) : \E j \in 1..Len(p) : q[i] = p[j]
  <2>1. CASE q = <<>>
    BY <2>1
  <2>2. CASE q = p
    BY <2>2
  <2>3. CASE p # <<>> /\ q = Tail(p)
    <3>1. Len(p) \in Nat /\ Len(q) = Len(p) - 1 /\ \A i \in 1..Len(q) : q[i] = p[i + 1]
      BY <1>1, <2>3, HeadTailProperties, LenProperties
    <3> HIDE DEF p, q
    <3>2. \A i \in 1..Len(q) : i + 1 \in 1..Len(p)
      BY <3>1
    <3> QED BY <3>1, <3>2
  <2> QED BY <2>1, <2>2, <2>3 DEF SparesGateway, InformerMoves
<1>6. \A i \in 1..Len(q) :
        Readable(q[i], Gateway) /\ (q[i] # Absent => q[i].uid <= lastUid) /\ InOrder(inst', q[i])
  <2> TAKE i \in 1..Len(q)
  <2>1. PICK j \in 1..Len(p) : q[i] = p[j]
    BY <1>5
  <2> QED BY <1>3, <2>1 DEF VersionsInOrder, Known
<1>7. Readable(Gateway, Gateway)' /\ Known(Gateway)' /\ Readable(inst, Gateway)' /\ Known(inst)'
  BY <1>1, <1>3 DEF VersionsInOrder, Known
<1>8. \A i \in 1..Len(q) :
        Readable(q[i], Gateway') /\ (q[i] # Absent => q[i].uid <= lastUid') /\ InOrder(inst', q[i])
  BY <1>1, <1>6
<1> HIDE DEF p, c
<1> QED BY <1>4, <1>7, <1>8 DEF VersionsInOrder, Known

---------------------------------------------------------------------------
(* The theorems. *)

\* At the start there is nothing to report.
LEMMA InitInOrder ==
  ASSUME Init
  PROVE  VersionsInOrder
<1>1. Gateway = Absent /\ past["gateway"] = <<>> /\ inst = Absent
  BY KindsFacts DEF Init, Gateway
<1>2. 1..Len(past["gateway"]) = {}
  BY <1>1
<1> QED BY <1>1, <1>2 DEF VersionsInOrder, Readable, Honest, InOrder, SameIncarnation, Known

\* The copies passes work on and the versions informers have still to deliver are
\* in the server's order, incarnation by incarnation, and none is of a generation
\* older than the one the status reports.
THEOREM ReadersKeepUp == Safety => []VersionsInOrder
<1>1. TypeOK /\ TypeOK' /\ FinalizerProtocol /\ VersionsInOrder /\ [Next]_vars
      => VersionsInOrder'
  BY StepKinds, WriteKeepsOrder, SparingKeepsOrder
<1> QED BY <1>1, InitInOrder, TypeCorrect, ProtocolHolds, PTL DEF Safety

\* The status never reports a generation the gateway has not reached, and its
\* conditions are of the generation it reports.
THEOREM StatusIsHonest == Safety => []ObservedGenerationIsHonest
<1>1. VersionsInOrder => ObservedGenerationIsHonest
  BY DEF VersionsInOrder, Readable, ObservedGenerationIsHonest
<1> QED BY <1>1, ReadersKeepUp, PTL

\* The generation reported never goes back while the gateway lives.
THEOREM StatusAdvances == Safety => ObservedGenerationAdvances
<1>1. ASSUME TypeOK, FinalizerProtocol, VersionsInOrder, [Next]_vars, TypeOK'
      PROVE  [Gateway # Absent /\ Gateway' # Absent /\ Gateway'.uid = Gateway.uid
              => Gateway'.status.observedGeneration >= Gateway.status.observedGeneration]_vars
  <2> SUFFICES ASSUME Gateway # Absent, Gateway' # Absent, Gateway'.uid = Gateway.uid
               PROVE  Gateway'.status.observedGeneration >= Gateway.status.observedGeneration
    OBVIOUS
  <2>1. Gateway \in AnyGateway /\ lastUid \in Nat
    BY <1>1, VersionsTyped
  <2>2. CASE SparesGateway
    <3>1. Gateway' = Gateway
      BY <2>2 DEF SparesGateway
    <3> QED BY <2>1, <3>1, GatewayNumbers DEF AnyGateway
  <2>3. CASE WritesGateway
    <3>1. PICK obj : Put("gateway", obj) /\ Written(Gateway, obj)
      BY <2>3 DEF WritesGateway
    <3>2. Gateway' = obj /\ obj \in AnyGateway
      BY <1>1, <3>1, PutGatewayEffect, KindsFacts, VersionsFacts
         DEF TypeOK, StoreTypes, AnyGateway, Gateway
    <3>3. Readable(Gateway, obj)
      BY <1>1, <2>1, <3>1, <3>2, WriteKeepsReadable, VersionsHeld DEF Held
    <3> QED BY <2>1, <3>2, <3>3, GatewayNumbers DEF Readable, InOrder, SameIncarnation, AnyGateway
  <2> QED BY <1>1, <2>2, <2>3, StepKinds
<1> QED BY <1>1, TypeCorrect, ProtocolHolds, ReadersKeepUp, PTL
        DEF Safety, ObservedGenerationAdvances
================================================================================
