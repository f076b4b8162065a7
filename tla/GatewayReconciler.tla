-------------------------- MODULE GatewayReconciler --------------------------
(***************************************************************************)
(* HigressGatewayReconciler for one HigressGateway resource, beside the    *)
(* API server, the informers' caches, the work queue, the user, the        *)
(* autoscaler and the garbage collector.                                   *)
(*                                                                         *)
(* One action is one API call of Reconcile with the code around it; what   *)
(* the other actors do happens between any two of them.  controller-       *)
(* runtime runs one worker per controller and never reconciles one request *)
(* twice at once, so there is a single pass, pc says where it is.          *)
(***************************************************************************)
EXTENDS KubeApi, AutoscalingConfig, FiniteSets

CONSTANTS
  Specs,               \* the specs the user may write
  AutoscaledReplicas,  \* the replica counts an autoscaler may choose
  Neighbours,          \* the subjects of other namespaces' gateways
  InitialKEDA,         \* whether the ScaledObject CRD is there from the start
  DisturbanceKinds,    \* what may happen outside the reconciler (see Disturb)
  Deletable,           \* the objects somebody else may delete
  MaxDisturbances,     \* bound: how many disturbances
  MaxEdits,            \* bound: how many times the user edits one gateway
  MaxUid               \* bound: how many times the user creates the gateway

VARIABLES
  pc,          \* where the pass is; "idle" between passes
  todo,        \* in "apply": the API calls the pass has left
  inst,        \* the pass's copy of the gateway, defaults applied
  instCurrent, \* inst carries the resourceVersion the server holds
  kedaFound,   \* the pass saw the ScaledObject CRD
  queued,      \* the request is in the work queue
  keda,        \* the ScaledObject CRD is installed
  namespace,   \* the phase of the gateway's namespace
  lastUid,     \* uid of the latest incarnation of the gateway
  edits,       \* the user's edits of it
  disturbances \* how many disturbances have happened

pass == <<pc, todo, inst, instCurrent, kedaFound>>
cluster == <<keda, namespace, lastUid, edits, disturbances>>
vars == <<server, past, pass, queued, cluster>>

(***************************************************************************)
(* Objects.  owner is the uid in the controller reference, NoOwner without *)
(* one; rev stands for what every MutateFn renders anew from the spec,     *)
(* replicas is the Deployment's, subjects the two bindings'.  A spec's     *)
(* rbac says whether spec.rbac and spec.serviceAccount are both enabled.   *)
(***************************************************************************)
Controlled == {"serviceAccount", "deployment", "hpa", "scaledObject", "service"}
Rbac == {"clusterRole", "clusterRoleBinding", "role", "roleBinding"}
Objects == Controlled \cup Rbac \cup {"gatewayConfigMap"}
Kinds == Objects \cup {"gateway"}
ClusterScoped == {"clusterRole", "clusterRoleBinding"}

\* SetupWithManager: For the gateway, Owns five kinds.
Watched == {"deployment", "hpa", "service", "gatewayConfigMap", "serviceAccount"}

NoOwner == 0
Fixed == "fixed"   \* rev of an object that does not depend on the spec
Subject == "higress-gateway"

\* The gateway's spec as written and with the defaults filled in.
OrDefault(v, default) == IF v = Unset THEN default ELSE v
setDefaultValues(spec) ==
  [spec EXCEPT !.rbac = OrDefault(@, TRUE),
               !.replicas = OrDefault(@, 1),
               !.skywalking = OrDefault(@, "off")]
WithDefaults(gw) == [gw EXCEPT !.spec = setDefaultValues(@)]

NoConditions == [gen |-> 0, valid |-> "", ready |-> "",
                 autoscaling |-> "", dependency |-> ""]
NoStatus == [deployed |-> FALSE, observedGeneration |-> 0,
             mode |-> "", conditions |-> NoConditions]

\* Types of the data, and what the constants have to satisfy.
Conditions == [gen : Nat, valid : {"", "True", "False"}, ready : {"", "True", "False"},
               autoscaling : {"", "True", "False"},
               dependency : {"", "True", "False", "Unknown"}]
Statuses == [deployed : BOOLEAN, observedGeneration : Nat,
             mode : AutoScalingModes \cup {""}, conditions : Conditions]
Revs == {Fixed} \cup {s.rev : s \in Specs}
RawSpecs == [rev : Revs, replicas : Nat \cup {Unset}, rbac : BOOLEAN \cup {Unset},
             skywalking : {"off", "empty", "scripts", Unset}, local : BOOLEAN,
             cpuRequest : {"missing", "zero", "set"}, autoScaling : AutoScalings]
Gateways == [uid : Nat, gen : Nat, spec : RawSpecs,
             finalizer : BOOLEAN, deleting : BOOLEAN, status : Statuses]
\* A copy Reconcile works on: a spec with its defaults.
DefaultedSpecs ==
  [rev : Revs, replicas : Nat, rbac : BOOLEAN,
   skywalking : {"off", "empty", "scripts"}, local : BOOLEAN,
   cpuRequest : {"missing", "zero", "set"}, autoScaling : AutoScalings]
Copies == [uid : Nat, gen : Nat, spec : DefaultedSpecs,
           finalizer : BOOLEAN, deleting : BOOLEAN, status : Statuses]
Managed == [owner : Nat, rev : Revs, replicas : Nat, subjects : SUBSET ({Subject} \cup Neighbours)]

ASSUME SpecsAssumption == Specs \subseteq RawSpecs
ASSUME ReplicasAssumption == AutoscaledReplicas \subseteq Nat
ASSUME AbsentAssumption == Absent \notin Gateways \cup Managed
\* ScaledObjects are read as unstructured objects, which are not cached.
ASSUME LaggingAssumption == Lagging \subseteq Kinds \ {"scaledObject"}
ASSUME KEDAAssumption == InitialKEDA \subseteq BOOLEAN
ASSUME DeletableAssumption == Deletable \subseteq Objects
ASSUME NeighboursAssumption == Subject \notin Neighbours

\* Faulty variants: only the conditions get the generation.
MarkInvalidUnobserved(gw) ==
  [deployed |-> FALSE, observedGeneration |-> 0,
   mode |-> getEffectiveScaleMode(gw.spec),
   conditions |-> [gen |-> gw.gen, valid |-> "False", ready |-> "False",
                   autoscaling |-> "False", dependency |-> "Unknown"]]
MarkReadyUnobserved(gw, missing) ==
  LET dep == IF missing THEN "False" ELSE "True" IN
  [deployed |-> TRUE, observedGeneration |-> gw.status.observedGeneration,
   mode |-> getEffectiveScaleMode(gw.spec),
   conditions |-> [gen |-> gw.gen, valid |-> "True", ready |-> "True",
                   autoscaling |-> dep, dependency |-> dep]]

markConfigurationInvalid(gw) ==
  [deployed |-> FALSE, observedGeneration |-> gw.gen,
   mode |-> getEffectiveScaleMode(gw.spec),
   conditions |-> [gen |-> gw.gen, valid |-> "False", ready |-> "False",
                   autoscaling |-> "False", dependency |-> "Unknown"]]

\* markResourcesReady, setAutoscalingCondition and setDependencyCondition;
\* missing: KEDA is asked for and its CRD was not found.
markResourcesReady(gw, missing) ==
  LET dep == IF missing THEN "False" ELSE "True" IN
  [deployed |-> TRUE, observedGeneration |-> gw.gen,
   mode |-> getEffectiveScaleMode(gw.spec),
   conditions |-> [gen |-> gw.gen, valid |-> "True", ready |-> "True",
                   autoscaling |-> dep, dependency |-> dep]]

DesiredStatus(gw, found) ==
  IF Valid(gw.spec)
  THEN markResourcesReady(gw, getEffectiveScaleMode(gw.spec) = "KEDA" /\ ~found)
  ELSE markConfigurationInvalid(gw)

\* JSON merge patch: a field goes on the wire only if it differs from base.
Patched(v, base, new) == IF new # base THEN new ELSE v
MergePatch(status, base, new) ==
  [deployed |-> Patched(status.deployed, base.deployed, new.deployed),
   observedGeneration |-> Patched(status.observedGeneration,
                                  base.observedGeneration, new.observedGeneration),
   mode |-> Patched(status.mode, base.mode, new.mode),
   conditions |-> Patched(status.conditions, base.conditions, new.conditions)]

(***************************************************************************)
(* What each CreateOrUpdate wants: Mutated(k, old, gw) is the object the   *)
(* MutateFn leaves, old being the copy that was read.                      *)
(***************************************************************************)
Rendered(k, gw) == IF k \in Rbac \cup {"serviceAccount"} THEN Fixed ELSE gw.spec.rev

Initial(k, gw) ==
  [owner |-> IF k \in Controlled THEN gw.uid ELSE NoOwner,
   rev |-> Rendered(k, gw),
   replicas |-> IF k = "deployment" THEN gw.spec.replicas ELSE 0,
   subjects |-> IF k \in {"clusterRoleBinding", "roleBinding"} THEN {Subject} ELSE {}]

\* Faulty variants: the spec's replicas always win, or never.
DeploymentSpecReplicas(old, gw) ==
  [old EXCEPT !.rev = gw.spec.rev, !.replicas = gw.spec.replicas]
DeploymentLiveReplicas(old, gw) == [old EXCEPT !.rev = gw.spec.rev]

updateDeploymentSpec(old, gw) ==
  [old EXCEPT !.rev = gw.spec.rev,
              !.replicas = IF shouldPreserveReplicas(gw.spec) THEN @ ELSE gw.spec.replicas]

\* Faulty variant: an object that exists is left as it is.
MutatedOnce(k, old, gw) == IF old = Absent THEN Initial(k, gw) ELSE old

\* The object read replaces the one just initialised, controller reference
\* included: an update keeps the owner the object was created with.
Mutated(k, old, gw) ==
  CASE old = Absent -> Initial(k, gw)
    [] old # Absent /\ k = "deployment" -> updateDeploymentSpec(old, gw)
    [] old # Absent /\ k \in {"clusterRoleBinding", "roleBinding"} ->
         [old EXCEPT !.subjects = @ \cup {Subject}]
    [] OTHER -> [old EXCEPT !.rev = Rendered(k, gw)]

\* The mutated spec lacks fields the server fills in, so these kinds are sent
\* to the server on every pass.
AlwaysSent == {"deployment", "service"}

\* The server refuses to create in a terminating namespace.
Creatable(k) == k \in ClusterScoped \/ namespace = "Active"

\* The server's validation of a HorizontalPodAutoscaler and a ScaledObject.
Admissible(k, gw) ==
  LET as == gw.spec.autoScaling IN
  /\ k = "hpa" => as.max >= 1 /\ (as.min # Unset => as.min >= 1) /\ as.cpuTarget >= 1
  /\ k = "scaledObject" => \A t \in as.keda : t.metadata

\* Faulty variants: without autoscaling no status is written; KEDA takes over
\* while the HPA still scales.
AutoscalerCallsNoStatus(mode) ==
  CASE mode = "Disabled" -> <<"deleteHPA", "deleteScaledObject", "service">>
    [] mode = "NativeHPA" -> <<"deleteScaledObject", "hpa", "service", "patchStatus">>
    [] mode = "KEDA" -> <<"deleteHPA", "findKEDA">>
AutoscalerCallsKeepHPA(mode) ==
  CASE mode = "Disabled" -> <<"deleteHPA", "deleteScaledObject", "service", "patchStatus">>
    [] mode = "NativeHPA" -> <<"deleteScaledObject", "hpa", "service", "patchStatus">>
    [] mode = "KEDA" -> <<"findKEDA">>

\* The calls of Reconcile after validation, in order.  In mode KEDA the rest
\* depends on what findKEDA finds.
AutoscalerCalls(mode) ==
  CASE mode = "Disabled" -> <<"deleteHPA", "deleteScaledObject", "service", "patchStatus">>
    [] mode = "NativeHPA" -> <<"deleteScaledObject", "hpa", "service", "patchStatus">>
    [] mode = "KEDA" -> <<"deleteHPA", "findKEDA">>
RbacCalls(spec) ==
  IF spec.rbac THEN <<"clusterRole", "clusterRoleBinding", "role", "roleBinding">> ELSE <<>>
ConfigMapCalls(spec) ==
  IF spec.skywalking = "off" THEN <<"gatewayConfigMap">>
  ELSE <<"gatewayConfigMap", "skywalkingConfigMap">>
Calls(spec) ==
  IF Valid(spec)
  THEN <<"serviceAccount">> \o RbacCalls(spec) \o ConfigMapCalls(spec)
       \o <<"deployment">> \o AutoscalerCalls(getEffectiveScaleMode(spec))
  ELSE <<"deleteHPA", "deleteScaledObject", "patchStatus">>
CallNames == Objects \cup {"skywalkingConfigMap", "deleteHPA", "deleteScaledObject",
                           "findKEDA", "patchStatus"}

(***************************************************************************)
(* The work queue and the end of a pass.                                   *)
(***************************************************************************)
\* An event of kind k about a change from old to new reaches the gateway's
\* request: its own events, and those of a watched object with a controller.
Wakes(k, old, new) ==
  \/ k = "gateway"
  \/ k \in Watched /\ \E o \in {old, new} \ {Absent} : o.owner # NoOwner

\* Storing obj, with the event it causes when its informer does not lag.
Notifies(k, obj) == k \notin Lagging /\ obj # server[k] /\ Wakes(k, server[k], obj)
Store(k, obj) == Put(k, obj) /\ queued' = (queued \/ Notifies(k, obj))

EndPass ==
  /\ pc' = "idle" /\ todo' = <<>> /\ inst' = Absent
  /\ instCurrent' = FALSE /\ kedaFound' = FALSE

\* Faulty variant: the error is logged and nil returned.
RequeueForgotten == EndPass /\ UNCHANGED <<server, past, queued, cluster>>

\* Reconcile returns an error: the request is queued again.
Requeue == EndPass /\ queued' = TRUE /\ UNCHANGED <<server, past, cluster>>

\* A call succeeded: go on with the rest.
Proceed == todo' = Tail(todo) /\ UNCHANGED <<pc, inst, instCurrent, kedaFound>>

Calling(k) == pc = "apply" /\ todo # <<>> /\ Head(todo) = k
NoWrite == UNCHANGED <<server, past, queued>>
(***************************************************************************)
(* The pass.                                                               *)
(***************************************************************************)
\* The cached gateway is gone, or deleted without the finalizer.
NothingToDo(gw) == gw # Absent => gw.deleting /\ ~gw.finalizer

DropRequest ==
  /\ pc = "idle" /\ queued /\ NothingToDo(Cached("gateway"))
  /\ queued' = FALSE
  /\ UNCHANGED <<server, past, pass, cluster>>

\* Faulty variant: the finalizer goes without its handler.
StartWithoutFinalizing ==
  /\ pc = "idle" /\ queued /\ ~NothingToDo(Cached("gateway"))
  /\ pc' = IF Cached("gateway").deleting THEN "removeFinalizer" ELSE "namespace"
  /\ inst' = WithDefaults(Cached("gateway"))
  /\ instCurrent' = Current("gateway")
  /\ queued' = FALSE
  /\ UNCHANGED <<server, past, todo, kedaFound, cluster>>

StartReconcile ==
  /\ pc = "idle" /\ queued /\ ~NothingToDo(Cached("gateway"))
  /\ pc' = IF Cached("gateway").deleting THEN "finalize" ELSE "namespace"
  /\ inst' = WithDefaults(Cached("gateway"))
  /\ instCurrent' = Current("gateway")
  /\ queued' = FALSE
  /\ UNCHANGED <<server, past, todo, kedaFound, cluster>>

\* Faulty variant: a binding the cache does not show needs no change.
FinalizeShownBinding ==
  LET crb == Cached("clusterRoleBinding") IN
  /\ pc = "finalize"
  /\ IF crb = Absent
     THEN pc' = "removeFinalizer" /\ NoWrite /\ UNCHANGED <<todo, inst, instCurrent, kedaFound, cluster>>
     ELSE IF Current("clusterRoleBinding")
     THEN /\ Store("clusterRoleBinding", [crb EXCEPT !.subjects = @ \ {Subject}])
          /\ pc' = "removeFinalizer"
          /\ UNCHANGED <<todo, inst, instCurrent, kedaFound, cluster>>
     ELSE Requeue

\* Faulty variant: the subjects are written whatever the binding holds by now.
FinalizeBindingBlindly ==
  LET crb == Cached("clusterRoleBinding") IN
  /\ pc = "finalize"
  /\ IF crb # Absent
     THEN /\ Store("clusterRoleBinding", [crb EXCEPT !.subjects = @ \ {Subject}])
          /\ pc' = "removeFinalizer"
          /\ UNCHANGED <<todo, inst, instCurrent, kedaFound, cluster>>
     ELSE Requeue

\* finalizeHigressGateway: take the subject out of the ClusterRoleBinding.
\* NotFound is an error like any other.
FinalizeBinding ==
  LET crb == Cached("clusterRoleBinding") IN
  /\ pc = "finalize"
  /\ IF crb # Absent /\ Current("clusterRoleBinding")
     THEN /\ Store("clusterRoleBinding", [crb EXCEPT !.subjects = @ \ {Subject}])
          /\ pc' = "removeFinalizer"
          /\ UNCHANGED <<todo, inst, instCurrent, kedaFound, cluster>>
     ELSE Requeue

\* The Update without the finalizer; the server then removes the object.
RemoveFinalizer ==
  /\ pc = "removeFinalizer"
  /\ IF instCurrent
     THEN Store("gateway", Absent) /\ EndPass /\ UNCHANGED cluster
     ELSE Requeue

\* From here the calls are those the copy's spec asks for.
BeginCalls(gw) == pc' = "apply" /\ todo' = Calls(gw.spec)

\* Faulty variant: the finalizer is left for later.
CheckNamespaceOnly ==
  /\ pc = "namespace"
  /\ BeginCalls(inst)
  /\ UNCHANGED <<inst, instCurrent, kedaFound, cluster>> /\ NoWrite

CheckNamespace ==
  /\ pc = "namespace"
  /\ IF inst.finalizer THEN BeginCalls(inst) ELSE pc' = "addFinalizer" /\ UNCHANGED todo
  /\ UNCHANGED <<inst, instCurrent, kedaFound, cluster>> /\ NoWrite

\* The Namespace object is cached too, so this is not the only outcome.
NamespaceTerminating ==
  /\ pc = "namespace" /\ namespace = "Terminating"
  /\ EndPass /\ NoWrite /\ UNCHANGED cluster

\* Faulty variant: a conflict is taken for somebody else's finalizer.
AddFinalizerDespiteConflict ==
  LET written == [inst EXCEPT !.finalizer = TRUE,
                    !.gen = IF inst.spec = server["gateway"].spec THEN @ ELSE @ + 1] IN
  /\ pc = "addFinalizer"
  /\ pc' = "reread" /\ instCurrent' = FALSE
  /\ IF instCurrent THEN Store("gateway", written) ELSE NoWrite
  /\ UNCHANGED <<todo, inst, kedaFound, cluster>>

\* The Update writes the whole copy: the defaults are persisted with it.
AddFinalizer ==
  LET written == [inst EXCEPT !.finalizer = TRUE,
                    !.gen = IF inst.spec = server["gateway"].spec THEN @ ELSE @ + 1] IN
  /\ pc = "addFinalizer"
  /\ IF instCurrent
     THEN /\ Store("gateway", written)
          /\ pc' = "reread" /\ instCurrent' = FALSE
          /\ UNCHANGED <<todo, inst, kedaFound, cluster>>
     ELSE Requeue

\* The second Get, again from the cache; deletion is not looked at again.
Reread ==
  LET gw == Cached("gateway") IN
  /\ pc = "reread"
  /\ IF gw = Absent THEN Requeue
     ELSE /\ inst' = WithDefaults(gw)
          /\ BeginCalls(inst')
          /\ UNCHANGED <<instCurrent, kedaFound, cluster>> /\ NoWrite

\* CreateIfNotExits: Create, and AlreadyExists is success.
CreateServiceAccount ==
  /\ Calling("serviceAccount")
  /\ IF server["serviceAccount"] # Absent THEN Proceed /\ NoWrite /\ UNCHANGED cluster
     ELSE IF Creatable("serviceAccount")
     THEN /\ Store("serviceAccount", Initial("serviceAccount", inst))
          /\ Proceed /\ UNCHANGED cluster
     ELSE Requeue

\* controllerutil.CreateOrUpdate: Get, MutateFn, then Create, Update (refused
\* unless the copy is current) or nothing.
CreateOrUpdate(k) ==
  LET old == Cached(k)
      new == Mutated(k, old, inst)
      unchanged == old = new /\ k \notin AlwaysSent
      accepted == /\ Current(k) /\ Admissible(k, inst)
                  /\ old = Absent => Creatable(k)
  IN
  /\ Calling(k)
  /\ IF unchanged THEN Proceed /\ NoWrite /\ UNCHANGED cluster
     ELSE IF accepted THEN Store(k, new) /\ Proceed /\ UNCHANGED cluster
     ELSE Requeue

\* deleteNativeHPAIfExists, deleteKEDAScaledObjectIfExists: a Get, then a
\* Delete without a precondition, for which NotFound is success.
DeleteIfExists(call, k) ==
  /\ Calling(call)
  /\ IF Cached(k) = Absent THEN NoWrite ELSE Store(k, Absent)
  /\ Proceed /\ UNCHANGED cluster

\* isKEDACRDInstalled: without the CRD the ScaledObject is left out.
FindKEDA ==
  /\ Calling("findKEDA")
  /\ kedaFound' = keda
  /\ todo' = IF keda THEN <<"scaledObject", "service", "patchStatus">>
             ELSE <<"service", "patchStatus">>
  /\ UNCHANGED <<pc, inst, instCurrent, cluster>> /\ NoWrite

\* initSkywalkingConfigMap: an error without a bootstrap script.
SkywalkingError ==
  /\ Calling("skywalkingConfigMap") /\ inst.spec.skywalking = "empty"
  /\ Requeue

\* The process starts over: its caches list everything, and what they list is queued.
Restart == EndPass /\ Relist /\ queued' = (server["gateway"] # Absent)

\* With one it writes to the nil Data of the fresh ConfigMap: a panic, which
\* controller-runtime does not recover.
SkywalkingPanic ==
  /\ Calling("skywalkingConfigMap") /\ inst.spec.skywalking = "scripts"
  /\ Restart /\ UNCHANGED cluster

\* patchStatus: a merge patch against the copy, without a resourceVersion.
PatchStatus ==
  LET base == inst.status
      new == DesiredStatus(inst, kedaFound) IN
  /\ Calling("patchStatus")
  /\ IF new = base THEN NoWrite /\ EndPass /\ UNCHANGED cluster
     ELSE IF server["gateway"] = Absent THEN Requeue
     ELSE /\ Store("gateway", [server["gateway"] EXCEPT !.status = MergePatch(@, base, new)])
          /\ EndPass /\ UNCHANGED cluster

Worker ==
  \/ DropRequest \/ StartReconcile \/ FinalizeBinding \/ RemoveFinalizer
  \/ CheckNamespace \/ NamespaceTerminating \/ AddFinalizer \/ Reread
  \/ CreateServiceAccount
  \/ \E k \in Objects \ {"serviceAccount"} : CreateOrUpdate(k)
  \/ DeleteIfExists("deleteHPA", "hpa")
  \/ DeleteIfExists("deleteScaledObject", "scaledObject")
  \/ FindKEDA \/ SkywalkingError \/ SkywalkingPanic \/ PatchStatus
(***************************************************************************)
(* Everybody else.                                                         *)
(***************************************************************************)
\* The informer's event handlers run as its cache moves on.
Deliver(k) ==
  /\ Advance(k)
  /\ queued' = (queued \/ Wakes(k, Cached(k), NextVersion(k)))
  /\ UNCHANGED <<pass, cluster>>

\* Another client writes the gateway: the pass's copy is no longer current.
WriteGateway(obj) ==
  /\ Store("gateway", obj)
  /\ instCurrent' = FALSE
  /\ UNCHANGED <<pc, todo, inst, kedaFound>>

CreateGateway(spec) ==
  /\ server["gateway"] = Absent /\ lastUid < MaxUid /\ namespace = "Active"
  /\ WriteGateway([uid |-> lastUid + 1, gen |-> 1, spec |-> spec,
                   finalizer |-> FALSE, deleting |-> FALSE, status |-> NoStatus])
  /\ lastUid' = lastUid + 1
  /\ UNCHANGED <<keda, namespace, edits, disturbances>>

EditSpec(spec) ==
  /\ server["gateway"] # Absent /\ edits < MaxEdits
  /\ spec # server["gateway"].spec
  /\ WriteGateway([server["gateway"] EXCEPT !.spec = spec, !.gen = @ + 1])
  /\ edits' = edits + 1
  /\ UNCHANGED <<keda, namespace, lastUid, disturbances>>

\* The server sets the deletion timestamp, or removes what has no finalizer.
DeleteGateway ==
  /\ server["gateway"] # Absent /\ ~server["gateway"].deleting
  /\ WriteGateway(IF server["gateway"].finalizer
                  THEN [server["gateway"] EXCEPT !.deleting = TRUE, !.gen = @ + 1]
                  ELSE Absent)
  /\ UNCHANGED cluster

Disturb(kind) ==
  /\ kind \in DisturbanceKinds /\ disturbances < MaxDisturbances
  /\ disturbances' = disturbances + 1

\* The operator's process stops and starts again.
Crash == Disturb("crash") /\ Restart /\ UNCHANGED <<keda, namespace, lastUid, edits>>

\* The server does not answer a call of the pass.
ApiError ==
  /\ Disturb("apiError") /\ pc # "idle"
  /\ EndPass /\ queued' = TRUE
  /\ UNCHANGED <<server, past, keda, namespace, lastUid, edits>>

\* The Namespace cannot be read: Reconcile returns nil and nothing is queued.
NamespaceError ==
  /\ Disturb("namespaceError") /\ pc = "namespace"
  /\ EndPass /\ NoWrite
  /\ UNCHANGED <<keda, namespace, lastUid, edits>>

InstallKEDA ==
  /\ Disturb("installKEDA") /\ ~keda
  /\ keda' = TRUE
  /\ UNCHANGED <<pass, namespace, lastUid, edits>> /\ NoWrite

TerminateNamespace ==
  /\ Disturb("terminate") /\ namespace = "Active"
  /\ namespace' = "Terminating"
  /\ UNCHANGED <<pass, keda, lastUid, edits>> /\ NoWrite

\* Somebody removes an object the operator made.
ExternalDelete(k) ==
  /\ Disturb("externalDelete") /\ server[k] # Absent
  /\ Store(k, Absent)
  /\ UNCHANGED <<pass, keda, namespace, lastUid, edits>>

\* The gateway n of another namespace shares the ClusterRoleBinding: the passes
\* of the same worker put its subject in, or its finalizer's handler takes it
\* out.
NeighbourGrants(n) ==
  LET crb == server["clusterRoleBinding"] IN
  /\ pc = "idle" /\ Disturb("neighbour")
  /\ Store("clusterRoleBinding",
           IF crb = Absent
           THEN [owner |-> NoOwner, rev |-> Fixed, replicas |-> 0, subjects |-> {n}]
           ELSE [crb EXCEPT !.subjects = @ \cup {n}])
  /\ UNCHANGED <<pass, keda, namespace, lastUid, edits>>
NeighbourRevokes(n) ==
  LET crb == server["clusterRoleBinding"] IN
  /\ pc = "idle" /\ Disturb("neighbour") /\ crb # Absent
  /\ Store("clusterRoleBinding", [crb EXCEPT !.subjects = @ \ {n}])
  /\ UNCHANGED <<pass, keda, namespace, lastUid, edits>>

\* The HPA controller or KEDA sets the Deployment's replicas.
Scale(n) ==
  /\ Disturb("scale") /\ server["deployment"] # Absent
  /\ server["hpa"] # Absent \/ server["scaledObject"] # Absent
  /\ n # server["deployment"].replicas
  /\ Store("deployment", [server["deployment"] EXCEPT !.replicas = n])
  /\ UNCHANGED <<pass, keda, namespace, lastUid, edits>>

\* An object whose controller reference names a gateway that is gone.
Orphaned(k) ==
  /\ server[k] # Absent /\ server[k].owner # NoOwner
  /\ server["gateway"] # Absent => server["gateway"].uid # server[k].owner

CollectGarbage(k) ==
  /\ Orphaned(k)
  /\ Store(k, Absent)
  /\ UNCHANGED <<pass, cluster>>

\* The informers' periodic resync replays what they cache (every ten hours).
Resync ==
  /\ Cached("gateway") # Absent /\ ~queued
  /\ queued' = TRUE
  /\ UNCHANGED <<server, past, pass, cluster>>

User ==
  \/ \E spec \in Specs : CreateGateway(spec) \/ EditSpec(spec)
  \/ DeleteGateway

Environment ==
  \/ \E k \in Kinds : Deliver(k)
  \/ \E k \in Objects : CollectGarbage(k)
  \/ \E k \in Deletable : ExternalDelete(k)
  \/ \E n \in AutoscaledReplicas : Scale(n)
  \/ \E n \in Neighbours : NeighbourGrants(n) \/ NeighbourRevokes(n)
  \/ Crash \/ ApiError \/ NamespaceError \/ InstallKEDA \/ TerminateNamespace

Init ==
  /\ server = [k \in Kinds |-> Absent]
  /\ past = [k \in Kinds |-> <<>>]
  /\ pc = "idle" /\ todo = <<>> /\ inst = Absent
  /\ instCurrent = FALSE /\ kedaFound = FALSE
  /\ queued = FALSE
  /\ keda \in InitialKEDA /\ namespace = "Active"
  /\ lastUid = 0 /\ edits = 0 /\ disturbances = 0

Next == Worker \/ User \/ Environment \/ Resync

Safety == Init /\ [][Next]_vars

\* The worker runs, informers catch up and the collector collects; users and
\* disturbances need not happen.
Fairness ==
  /\ WF_vars(Worker)
  /\ \A k \in Lagging : WF_vars(Deliver(k))
  /\ \A k \in Objects : WF_vars(CollectGarbage(k))

Spec == Safety /\ Fairness
SpecWithResync == Spec /\ WF_vars(Resync)
=============================================================================
