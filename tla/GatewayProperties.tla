-------------------------- MODULE GatewayProperties --------------------------
(***************************************************************************)
(* What HigressGatewayReconciler owes its user: the requirements on the    *)
(* behaviours of module GatewayReconciler.                                 *)
(***************************************************************************)
EXTENDS GatewayReconciler

Gateway == server["gateway"]

---------------------------------------------------------------------------
(* Types. *)

AnyVersion == {Absent} \cup Gateways \cup Managed
Versions(k) == {Absent} \cup IF k = "gateway" THEN Gateways ELSE Managed

StoreTypes ==
  /\ server \in [Kinds -> AnyVersion] /\ past \in [Kinds -> Seq(AnyVersion)]
  /\ \A k \in Kinds :
       /\ server[k] \in Versions(k)
       /\ \A i \in 1..Len(past[k]) : past[k][i] \in Versions(k)

\* The calls with which a pass ends or chooses how it will end.
LastCalls == {"patchStatus", "findKEDA"}

PassTypes ==
  /\ pc \in {"idle", "finalize", "removeFinalizer", "namespace",
             "addFinalizer", "reread", "apply"}
  /\ inst \in {Absent} \cup Copies
  /\ pc # "idle" => inst # Absent
  /\ todo \in Seq(CallNames)
  /\ pc = "apply" => todo # <<>> /\ todo[Len(todo)] \in LastCalls
  /\ instCurrent \in BOOLEAN /\ kedaFound \in BOOLEAN /\ queued \in BOOLEAN

ClusterTypes ==
  /\ keda \in BOOLEAN /\ namespace \in {"Active", "Terminating"}
  /\ lastUid \in Nat /\ edits \in Nat /\ disturbances \in Nat

\* Type invariant: every version of an object the server or an informer holds,
\* and the copy of the gateway that Reconcile works on, is well formed; a pass
\* always has its copy, and a pass at its calls has patchStatus still before it.
TypeOK == StoreTypes /\ PassTypes /\ ClusterTypes

---------------------------------------------------------------------------
(* Safety. *)

\* As long as the ClusterRoleBinding grants the gateway's service account its
\* role, the gateway exists and carries the finalizer whose handler
\* (finalizeHigressGateway) takes the grant back: no order of creations,
\* deletions, crashes and stale reads leaves a grant that nobody will revoke.
Granted ==
  /\ server["clusterRoleBinding"] # Absent
  /\ Subject \in server["clusterRoleBinding"].subjects
SubjectHasFinalizer == Granted => Gateway # Absent /\ Gateway.finalizer

\* A version of the gateway that is to be kept: protected and not deleted.
Kept(gw) == gw # Absent /\ gw.finalizer /\ ~gw.deleting
\* The server holds the incarnation u, and the finalizer protects it.
Protected(u) == Gateway # Absent /\ Gateway.finalizer /\ Gateway.uid = u

\* An informer that still shows the gateway kept shows the one that exists.
InformerTrust ==
  \A i \in 1..Len(past["gateway"]) :
    Kept(past["gateway"][i]) => Protected(past["gateway"][i].uid)
\* A pass that has seen or set the finalizer works for the protected gateway.
PassTrust ==
  /\ pc = "namespace" /\ inst.finalizer => Protected(inst.uid)
  /\ pc = "apply" => Protected(inst.uid)
\* Whatever the second Get returns, it is this gateway.
RereadTrust ==
  pc = "reread" =>
    /\ Gateway # Absent /\ Gateway.finalizer
    /\ \A i \in 1..Len(past["gateway"]) :
         past["gateway"][i] # Absent /\ past["gateway"][i].uid = Gateway.uid
\* A current copy is the server's version, and no version is on its way.
CopyTrust ==
  pc \in {"namespace", "addFinalizer", "finalize", "removeFinalizer"} /\ instCurrent =>
    past["gateway"] = <<>> /\ Gateway # Absent /\ inst = WithDefaults(Gateway)
\* What the pass knows of its copy at each stage.
PassStage ==
  /\ pc \in {"namespace", "addFinalizer"} => ~inst.deleting
  /\ pc = "addFinalizer" => ~inst.finalizer
  /\ pc \in {"finalize", "removeFinalizer"} => inst.deleting /\ inst.finalizer
\* The finalizer goes only once the grant is revoked.
RevokedFirst == pc = "removeFinalizer" => ~Granted

\* Why a pass may trust what it read, however old: the part of the state that
\* the finalizer protocol of Reconcile and finalizeHigressGateway rests on, as
\* an inductive invariant.
FinalizerProtocol ==
  /\ InformerTrust /\ PassTrust /\ RereadTrust /\ CopyTrust
  /\ PassStage /\ RevokedFirst /\ SubjectHasFinalizer

\* The reconciler implements the life cycle of module GrantLifecycle: a stale
\* copy written back never revives a deleted gateway or drops a finalizer.
Life ==
  IF Gateway = Absent THEN "none"
  ELSE IF ~Gateway.finalizer THEN "created"
  ELSE IF Gateway.deleting THEN "deleting"
  ELSE "protected"
Lifecycle == INSTANCE GrantLifecycle WITH life <- Life, granted <- Granted
ImplementsLifecycle == Lifecycle!Spec

\* The pass that creates an object makes it the child of the gateway that
\* exists at that moment, although it works on a cached copy of the gateway:
\* SetControllerReference never names an incarnation that is already gone,
\* whose children the garbage collector would remove.
ChildrenOfTheLiving ==
  [][\A k \in Controlled :
       server[k] = Absent /\ server'[k] # Absent
       => Gateway # Absent /\ server'[k].owner = Gateway.uid]_vars

\* patchStatus carries no resourceVersion and may write over newer versions;
\* even so the status never claims a generation the gateway has not reached,
\* never goes back to an older one, and its conditions are of the generation
\* it claims.
Honest(gw) ==
  gw # Absent =>
    /\ gw.status.observedGeneration <= gw.gen
    /\ gw.status.conditions.gen = gw.status.observedGeneration
ObservedGenerationIsHonest == Honest(Gateway)
ObservedGenerationAdvances ==
  [][Gateway # Absent /\ Gateway' # Absent /\ Gateway'.uid = Gateway.uid
     => Gateway'.status.observedGeneration >= Gateway.status.observedGeneration]_vars

SameIncarnation(v, w) == v # Absent /\ w # Absent /\ v.uid = w.uid
\* Neither the generation nor the one observed goes back from v to w.
InOrder(v, w) ==
  SameIncarnation(v, w) =>
    /\ v.gen <= w.gen
    /\ v.status.observedGeneration <= w.status.observedGeneration
\* v, which some reader holds, is honest and not newer than the server's version
\* gw, yet of no older generation than the one gw's status reports.
Readable(v, gw) ==
  /\ Honest(v) /\ InOrder(v, gw)
  /\ SameIncarnation(v, gw) => gw.status.observedGeneration <= v.gen
Known(v) == v # Absent => v.uid <= lastUid

\* Why a merge patch computed from an old copy is harmless: a pass reads versions
\* in the server's order, so its copy precedes every version its informer has
\* still to show, and what the status reports was read before either.
VersionsInOrder ==
  LET p == past["gateway"] IN
  /\ Readable(Gateway, Gateway) /\ Known(Gateway)
  /\ Readable(inst, Gateway) /\ Known(inst)
  /\ \A i \in 1..Len(p) : Readable(p[i], Gateway) /\ Known(p[i]) /\ InOrder(inst, p[i])
  /\ \A i, j \in 1..Len(p) : i < j => InOrder(p[i], p[j])

\* With autoscaling in effect in the copy of the spec a pass works on,
\* createDeployment never changes the replicas of the Deployment, whatever the
\* autoscaler did since the cached Deployment was read (shouldPreserveReplicas
\* and the refused Update of a stale copy together).
ReplicasPreserved ==
  [][/\ Worker /\ inst # Absent /\ shouldPreserveReplicas(inst.spec)
     /\ server["deployment"] # Absent /\ server'["deployment"] # Absent
     => server'["deployment"].replicas = server["deployment"].replicas]_vars

\* Gateways of several namespaces are subjects of one ClusterRoleBinding.  The
\* passes of this one neither take a neighbour's grant away nor bring back one
\* that was revoked, however old the list of subjects they have read
\* (updateClusterRoleBinding, finalizeHigressGateway).
NeighboursOf(crb) == IF crb = Absent THEN {} ELSE crb.subjects \cap Neighbours
NeighboursKeepGrants ==
  [][Worker => NeighboursOf(server["clusterRoleBinding"])'
               = NeighboursOf(server["clusterRoleBinding"])]_vars

---------------------------------------------------------------------------
(* Convergence. *)

\* The object is there and is what the gateway's spec renders.
UpToDate(k, gw) ==
  /\ server[k] # Absent
  /\ server[k].rev = Rendered(k, gw)
  /\ server[k].subjects \ Neighbours = Initial(k, gw).subjects
  /\ k = "deployment" /\ ~shouldPreserveReplicas(gw.spec)
       => server[k].replicas = gw.spec.replicas

Wanted(gw) ==
  LET mode == getEffectiveScaleMode(gw.spec) IN
  {"serviceAccount", "gatewayConfigMap", "deployment", "service"}
  \cup (IF gw.spec.rbac THEN Rbac ELSE {})
  \cup (IF mode = "NativeHPA" THEN {"hpa"} ELSE {})
  \cup (IF mode = "KEDA" /\ keda THEN {"scaledObject"} ELSE {})

\* The cluster is what a HigressGateway with defaults gw asks for: its status
\* is this generation's, every object it wants is up to date, and the
\* autoscalers it does not want are gone.
Converged(gw) ==
  /\ gw.status = DesiredStatus(gw, keda)
  /\ Valid(gw.spec) => \A k \in Wanted(gw) : UpToDate(k, gw)
  /\ \A k \in {"hpa", "scaledObject"} \ Wanted(gw) : server[k] = Absent

\* Nothing is left that would start another pass but the periodic resync.
Quiescent ==
  /\ pc = "idle" /\ ~queued
  /\ \A k \in Kinds : Current(k)
  /\ ~\E k \in Objects : Orphaned(k)

\* Living: there is a gateway the reconciler has to make true.
Living == Gateway # Absent /\ ~Gateway.deleting /\ namespace = "Active"

\* When the operator comes to rest the desired state is reached, as far as
\* Converged tells it: the status, the wanted objects at their revision, and no
\* autoscaler that is not wanted.  An edit, a crash, a failed call, a conflict or
\* a stale read loses no work on the way, where the operator is told of what is
\* done to its objects (EverythingIsTold, which the runs of this property meet).
QuiescentConverged == Quiescent /\ Living => Converged(WithDefaults(Gateway))

\* A deleted gateway whose ClusterRoleBinding exists is finalized and goes away,
\* unless somebody deletes the binding first.
DeletionCompletesOnceBound ==
  (Gateway # Absent /\ Gateway.deleting /\ server["clusterRoleBinding"] # Absent)
  ~> (Gateway = Absent \/ server["clusterRoleBinding"] = Absent)

\* A deleted gateway goes away.
DeletionCompletes == (Gateway # Absent /\ Gateway.deleting) ~> Gateway = Absent

\* Once the user leaves the gateway alone the cluster becomes, and stays, what
\* it asks for.
EventuallyConverged == <>[](Living => Converged(WithDefaults(Gateway)))

---------------------------------------------------------------------------
(* Why no work is lost: what holds between passes and calls. *)

\* The objects whose events reach the gateway's request: they are watched, and
\* have a controller reference.
Told == Watched \cap Controlled

\* What the operator is not told of, and no conflict reveals, does not happen: a
\* failed read of the Namespace, KEDA installed late, an object outside Told
\* deleted by somebody else, a ConfigMap (which has no controller reference)
\* cached from before the last write of it, and, when the gateway is created
\* again, a binding cached from before the revocation or a ScaledObject that
\* names the previous incarnation.
EverythingIsTold ==
  /\ DisturbanceKinds \cap {"namespaceError", "installKEDA"} = {}
  /\ "externalDelete" \in DisturbanceKinds => Deletable \subseteq Told
  /\ "gatewayConfigMap" \notin Lagging
  /\ MaxUid = 1 \/ ("clusterRoleBinding" \notin Lagging /\ InitialKEDA = {FALSE})

\* Every version of an object is as its kind demands, whatever the spec.
WellMade(k, obj) ==
  obj # Absent =>
    /\ obj.owner # NoOwner <=> k \in Controlled
    /\ k \in Rbac \cup {"serviceAccount"} => obj.rev = Fixed
    /\ k = "roleBinding" => Subject \in obj.subjects
    /\ k \notin {"clusterRoleBinding", "roleBinding"} => obj.subjects = {}
ObjectTrust ==
  \A k \in Objects :
    /\ WellMade(k, server[k]) /\ \A i \in 1..Len(past[k]) : WellMade(k, past[k][i])
    /\ ~Current(k) => past[k][Len(past[k])] # server[k]
\* A kind that does not lag is read as the server holds it.
ReadTrust == \A k \in Kinds \ Lagging : Current(k)

\* What nobody takes away is there when an old version of it is.
GrowTrust ==
  \A k \in {"clusterRole", "role", "roleBinding"} : \A i \in 1..Len(past[k]) :
    past[k][i] # Absent => server[k] # Absent

\* The server has the latest incarnation or none; a ScaledObject is the latest's.
UidTrust ==
  /\ keda \in InitialKEDA
  /\ Gateway # Absent => Gateway.uid = lastUid /\ lastUid # 0
  /\ server["scaledObject"] # Absent =>
       keda /\ server["scaledObject"].owner = lastUid /\ lastUid # 0

\* A gateway that was, and is gone or going.
Over == lastUid # 0 /\ (Gateway = Absent \/ Gateway.deleting)
\* Unless the gateway is created again, one whose deletion an informer or a pass
\* has seen is over, and until then an old version of the binding shows no grant
\* that is gone.
DeletionTrust ==
  /\ \/ pc \in {"finalize", "removeFinalizer"}
     \/ \E i \in 1..Len(past["gateway"]) :
          past["gateway"][i] # Absent /\ past["gateway"][i].deleting
     => (MaxUid = 1 => Over)
  /\ ~Over => \A i \in 1..Len(past["clusterRoleBinding"]) :
       LET crb == past["clusterRoleBinding"][i] IN
       (crb # Absent /\ Subject \in crb.subjects) => Granted

\* The calls a pass has left are its spec's, the status or the lookup of KEDA
\* last, and what it has found of KEDA is right.
CallsLeft == {todo[n] : n \in 1..Len(todo)}
CallTrust ==
  LET mode == IF Valid(inst.spec) THEN getEffectiveScaleMode(inst.spec) ELSE "" IN
  pc = "apply" =>
    /\ "hpa" \in CallsLeft => mode = "NativeHPA"
    /\ "deleteHPA" \in CallsLeft => mode # "NativeHPA"
    /\ "scaledObject" \in CallsLeft => mode = "KEDA" /\ keda
    /\ "deleteScaledObject" \in CallsLeft => mode # "KEDA"
    /\ "findKEDA" \in CallsLeft => mode = "KEDA"
    /\ mode = "KEDA" => "findKEDA" \in CallsLeft \/ kedaFound = keda
    /\ \A n \in 1..(Len(todo) - 1) : todo[n] \notin LastCalls

\* An event of the object is on its way, which wakes the gateway.
Shown(k) == k \in Told /\ ~Current(k)
\* The object is what gw asks for, or an event of it is on its way.
Settled(k, gw) ==
  \/ Shown(k)
  \/ IF k \in Wanted(gw) THEN Valid(gw.spec) => UpToDate(k, gw)
     ELSE k \in {"hpa", "scaledObject"} => server[k] = Absent
\* The pass has still to settle the object.
Coming(k) ==
  \/ k \in CallsLeft
  \/ k \in {"scaledObject", "service"} /\ "findKEDA" \in CallsLeft
  \/ k = "hpa" /\ "deleteHPA" \in CallsLeft
  \/ k = "scaledObject" /\ "deleteScaledObject" \in CallsLeft

\* There is a request, or there will be when the gateway's informer moves on.
Asked == queued \/ ~Current("gateway")
\* The pass at work does what the gateway asks for and has settled what it has
\* passed.
InHand ==
  LET gw == WithDefaults(Gateway) IN
  /\ pc \in {"namespace", "addFinalizer", "reread", "apply"}
  /\ pc # "reread" => inst = gw
  /\ pc = "apply" => \A k \in Objects : Coming(k) \/ Settled(k, gw)
\* Everything is as the gateway asks for.
AtRest ==
  LET gw == WithDefaults(Gateway) IN
  /\ pc = "idle" /\ gw.status = DesiredStatus(gw, keda)
  /\ \A k \in Objects : Settled(k, gw)
\* A living gateway is asked for, worked on, or has what it asks for.
NoWorkIsLost == Living => Asked \/ InHand \/ AtRest

\* Why QuiescentConverged holds: an object is missing or stale only while a
\* request, a pass or an event that will ask for one knows of it.
WorkProtocol ==
  /\ ObjectTrust /\ ReadTrust /\ GrowTrust /\ UidTrust
  /\ DeletionTrust /\ CallTrust /\ NoWorkIsLost
=============================================================================
