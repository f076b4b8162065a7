# higress-operator in TLA+

A specification of the operator in this repository: TLA+ modules translated from
its Go source, TLC runs over small instances, and TLAPS proofs for every value of
the constants.  Paths below are relative to the repository; `gateway/` stands for
`internal/controller/higressgateway/`, `controller/` for
`internal/controller/higresscontroller/`.

## 1. The system

The operator is one process with two controllers built on controller-runtime
0.15.  Each has one worker, a work queue that never hands out one request twice
at once, and a client that writes to the API server and reads structured objects
from informer caches, which trail the server.

| Component | State it keeps | Operations |
|---|---|---|
| HigressGateway reconciler (`gateway/higressgateway_controller.go`, `utils.go`) | none in memory; the gateway's finalizer, spec defaults and status, and the objects it makes, all on the API server | `Reconcile`, `finalizeHigressGateway`, `createServiceAccount`, `createRBAC`, `createConfigMap`, `createDeployment`, `createService`, `patchStatus` |
| Autoscaling configuration (`gateway/higressgateway_controller.go:453-544`) | none | `getEffectiveScaleMode`, `validateAutoscalingConfig`, `shouldPreserveReplicas` |
| Autoscaler lifecycle (`gateway/hpa.go`, `gateway/keda.go`) | HPA, ScaledObject | reconcile, delete if it exists, look the CRD up |
| Gateway object builders (`gateway/deployment.go`, `service.go`, `configmap.go`, `rbac.go`, `serviceAccount.go`) | none | `init*` for a create, `update*` in the MutateFn |
| HigressController reconciler (`controller/higresscontroller_controller.go`) | finalizer, `status.deployed`, its objects | `Reconcile`, `finalizeHigressController`, `create*` |
| HigressController builders (`controller/deployment.go`, `service.go`, `rbac.go`) | none | as above |
| CRD installer (`createCRDs`, `controller/crds.go`) | the CRDs | Get, then Create or Update |
| Manager start-up (`cmd/main.go`) | none | flags, scheme, both controllers; leader election is off by default |

How they interact:

* The user creates, edits and deletes `HigressGateway` and `HigressController`
  resources; the informers' events become requests in the queue.
* `Reconcile` reads the cached resource, adds its finalizer, makes ten kinds of
  objects one API call after another, switches between HPA and ScaledObject, and
  patches the status.  Objects with a controller reference are collected with
  their gateway; the roles, bindings and the gateway's ConfigMap have none.
* The ClusterRoleBinding has a name fixed by the service account's, so gateways of
  several namespaces are subjects of one binding; the finalizer's handler takes
  the gateway's own subject out.
* The HPA controller and KEDA write the Deployment's replicas behind the
  operator's back; the garbage collector, other clients, namespace deletion, an
  installation of KEDA and crashes do the rest.

What is hard to get right, and hard to test with unit tests on a fake client, is
what happens *between* the calls of one pass: every read is of a cache that may be
several versions old, conflicts send the pass back to the queue, and an object
that is not watched sends nobody back.  `PROJECT.json` lists the hazards at their
lines.

What makes each component correct:

* gateway reconciler: no grant outlives its gateway; a deleted gateway goes away;
  children belong to the gateway that exists; at rest, the cluster is what the
  spec asks for; the status says which generation it is about and is right about it;
* autoscaling: the verdict follows the rules; what is accepted can be built; there
  is never a second autoscaler at rest; the autoscaler's replicas are preserved;
* shared objects: no pass ever takes another resource's grant;
* HigressController: as for the gateway, and CRDs are never downgraded or lost;
* builders: rendering twice is rendering once, and dropped fields go away.

## 2. Modules

| Module | Models |
|---|---|
| `KubeApi` | The server and the informers (external).  `server[k]` is the object of kind `k`, `past[k]` the versions the server has replaced and the informer has not moved past; a read of the cache is the oldest of them.  Only kinds in `Lagging` trail. |
| `AutoscalingConfig` | The three pure functions of the autoscaling configuration, as operators. |
| `GatewayReconciler` | One gateway, its reconciler and everybody around it. |
| `GrantLifecycle` | What the finalizer promises, without caches and passes: the abstract specification. |
| `GatewayProperties` | Invariants, action properties, liveness, and the refinement mapping to `GrantLifecycle`. |
| `MCGatewayReconciler` | Specs for the instances TLC checks. |
| `ControllerReconciler` | Several HigressControllers, their reconciler, the CRDs and what they share. |
| `ControllerProperties` | Its invariants and action properties. |
| `MCControllerReconciler` | Its instances for TLC. |
| `Admission` | The server's validation, as far as a rendered object can fail it, and what it makes of a Service's traffic policy (external). |
| `GatewayBuilders` | The objects a HigressGateway renders, each from the object the server holds and the spec. |
| `ControllerBuilders` | The Deployment and the Service of a HigressController. |
| `Maps` | Go's maps as functions: the empty one, an entry, the merge of two. |
| `Workloads` | One resource of each kind in a namespace, edited field after field: rendered objects meet what earlier specs have left. `ResourcesAssumption` gives the types of their fields. |
| `WorkloadProperties` | What the rendered objects owe the users. |
| `MCWorkloads` | The parts of the specs that TLC edits. |
| `SequenceLemmas` | Sequences over a set: their heads, tails and ends. |
| `GatewayFinalizerProofs` | Proofs: the gateway reconciler's types, the finalizer protocol, and what the passes write to the objects. |
| `GatewayLifecycleProofs` | Proofs: the refinement of `GrantLifecycle`, the order of versions, the status. |
| `GatewayConvergenceProofs` | Proofs: no work is lost, and what that leaves at rest. |
| `ControllerProofs` | Lemmas about the HigressController reconciler's operators and actions, and what they do to the types. |
| `ControllerFinalizerProofs` | Proofs: its types, its finalizer protocol, grants, and the deletions that are not over. |
| `ControllerConvergenceProofs` | Proofs: no work is lost, and what that leaves at rest. |
| `WorkloadProofs` | Proofs: what the rendered objects owe the users. |

### GatewayReconciler and the code

One action is one API call of `Reconcile` with the code around it.  `pc` is the
place in the function, and in `"apply"` `todo` holds the calls that are left:
`Calls(spec)` lists them in the order of the code, since which calls a pass makes
is decided by its copy of the spec (and, for KEDA, by `FindKEDA`).  `inst` is the
local `instance`, defaults applied.

| Action | Code |
|---|---|
| `DropRequest`, `StartReconcile` | `Get`, `setDefaultValues`, the deletion branch (`:101-130`) |
| `FinalizeBinding`, `RemoveFinalizer` | `finalizeHigressGateway` and the Update after it |
| `CheckNamespace`, `NamespaceTerminating`, `NamespaceError` | the Namespace's `Get` with its three outcomes (`:132-141`) |
| `AddFinalizer`, `Reread` | the Update with the finalizer and the second `Get` (`:143-152`) |
| `CreateServiceAccount`, `CreateOrUpdate(k)`, `DeleteIfExists`, `FindKEDA` | the calls of the `create*`, `reconcile*`, `delete*IfExists` functions |
| `SkywalkingError`, `SkywalkingPanic` | `initSkywalkingConfigMap` |
| `PatchStatus` | `patchStatus` with `markResourcesReady` or `markConfigurationInvalid` |

An `Update` is refused unless the copy carries the server's `resourceVersion`:
for objects that are read and written in one call that is `Current(k)`; the
gateway's copy lives through several calls, so `instCurrent` remembers whether it
is still current and every other writer clears it.  A Get and the write after it
are one action because an Update is refused when somebody wrote between them, which
is the same outcome as a read of a stale cache.  A Create carries no version; the
model refuses it too while the cache is behind, although the object may be gone
again by then and the server would take it.  That adds retries and nothing else: a
pass may fail and start again anyway.  A Delete carries no
precondition and the status patch no `resourceVersion`; both succeed on newer
objects.  The merge patch is modelled field by field (`MergePatch`), for that is
where stale copies show.

Data are abstracted to what the properties tell apart.  `rev` stands for whatever
the builders render anew from the spec on every pass; `replicas`, `subjects` and
`owner` are kept because the code treats the old value specially.  A spec's `rbac`
says whether `spec.rbac` and `spec.serviceAccount` are both enabled; a status has
one generation for all its conditions because every patch sets them together.
Deployments and Services are sent on every pass (their rendered specs lack the
fields the server defaults), other kinds only if they differ.

The environment: informers deliver version by version (`Deliver`); the user
creates, edits and deletes; the collector removes children of a gateway that is
gone; `Disturb`ances (crash, failed call, failed Namespace read, KEDA installed,
namespace terminating, object deleted, autoscaler scaling, a neighbour granting or
revoking) happen where a run allows them.

Gateways of other namespaces have the same service account by default and so the
same ClusterRoleBinding.  `NeighbourGrants` and `NeighbourRevokes` are what their
passes do to it, `updateClusterRoleBinding` and `finalizeHigressGateway`; one worker
takes all requests in turn, so they come between the passes of the gateway at hand,
while its informer may still show the binding from before.

### ControllerReconciler and the code

The skeleton is the gateway's, and so is the way of modelling it; what differs is
in the code.  Several resources take turns in one worker (`who`).  There is no
second Get: the answer of the Update that adds the finalizer carries the new
`resourceVersion`, so the copy stays current (`AddFinalizer`) and `UpdateStatus`,
which sends the whole copy, is refused only if somebody else wrote since.  CRDs
come first, over a client without a cache: `GetCRD` and `WriteCRD` are two actions
(`crdSeen` between them) since another installer may come between.  `SkipCRD` is
the equality test; fields the server fills in may make equal CRDs look different,
so an Update that changes nothing may be sent instead.  The finalizer's handler
does nothing when RBAC is off in the current spec.  Service account names come
from the spec, by default the same for every resource, so resources of several
namespaces are subjects of one `ClusterRoleBinding`; keys are therefore
`<<kind, namespace, name>>`, and a rename makes a pass ask for other objects.
Of the Deployment, `containers` is what `updateDeploymentSpec` adds if it is
missing and never touches again, `rev` everything else.

### Workloads and the code

`GatewayReconciler` and `ControllerReconciler` ask what happens between the calls
of a pass and keep the contents of an object to one value.  `Workloads` asks the
other question -- what the contents become, edit after edit -- and makes a pass one
step on current caches.

| Definition | Code |
|---|---|
| `GatewayPass`, `ControllerPass` | `Reconcile`: defaults, then every object in the order of `GatewayCalls`, `ControllerCalls`, up to the first that fails |
| `Base` | `CreateOrUpdate` sends the mutated object: the one it read, or else the one an `init*` function built |
| `GatewayObject`, `ControllerObject` | the builders applied to it; what is created has been rendered twice, by `init*` and by the MutateFn |
| `GatewayFails`, `ControllerFails` | the server refuses the object (`Admission`), or the builder fails or panics |
| `Stops` | the error returns: how many objects a pass writes before the first that fails |
| `EditGateway`, `EditController` | the user |

Three places in the code make the contents hard to predict, and the builders are
written to keep them.  Something of the live object is *kept*: replicas under an
autoscaler, a Service's address, source ranges and external traffic policy, a
HigressController's containers and ports.  Something is *rendered from a copy that
is too early*: the mesh configuration is marshalled before the discovery address is
set, so only the second rendering is complete (`updateGatewayConfigMapSpec` returns
the gateway it leaves behind).  And `genEnv` ranges over a Go map, so `EnvOrders`
offers every permutation of `spec.env`.

The server does not store a Service as it is sent (`A!Stored`).  It gives one that
is reached from outside (`NodePort`, `LoadBalancer`) the policy `Cluster` if it has
none, and for other types refuses one that has a policy.  When a Service becomes a
`ClusterIP` and the policy it had is sent again, newer servers, the repository's
test clusters among them (`Makefile:5`, `hack/create-cluster.sh`), clear it; old
ones refuse the Service.  `clearsPolicy`, chosen with the initial state, says which
server it is: runs and theorems are about both.

`gwPass` and `ctlPass` record how the last pass since an edit ended: settled,
rejected by the validator, or the kind of object it failed at.  A pass whose
configuration is refused still deletes the autoscalers.  The two resources share
one map, `bindings`: a ClusterRoleBinding is named after the service account and
its `roleRef` cannot change.  KEDA's CRD is installed here; the case where it is
not belongs to `GatewayReconciler`.

### Bounds

`MaxEdits`, `MaxUid` and `MaxDisturbances` bound how often the user edits one
gateway, creates it, and how often something is disturbed.  They bound the
environment only: the reconciler itself runs as long as it likes, and its state is
finite.  The faults worth finding need one stale read, one conflict, or one crash
at the right moment; the runs allow two edits for a stale base, two incarnations
where names are reused, and one or two disturbances.  The lagging kinds of a run
are the ones its properties depend on; a lagging cache may be arbitrarily many
versions behind within those bounds.

In `ControllerReconciler` edits and re-creations count as disturbances, each kind
at most once and `MaxDisturbances` together: `ControllerPass` takes every pair of
them with one resource and two CRDs, `ControllerShared` single ones with two
resources, which are symmetric in their namespaces (only safety is checked there,
so the symmetry is sound).

In `Workloads` the number of edits and passes is not bounded.  `Parts` bounds what
is edited: a behaviour picks one part of the two specs and edits any of its fields,
one at a time, between any passes.  The ten parts of `MCWorkloads` group the fields
that one builder reads together or that two objects must agree on (who the pods run
as, the control plane the proxies look for, the two Deployments, the Service, the
autoscaling bounds, its modes, the replicas).  Of the autoscaling configuration one
field changes per edit.  Replica bounds are 0 and 1, which lets them be equal,
crossed, or below what the server takes; `spec.env` has at most one entry in
`Workloads` and two in `WorkloadsEnvOrder`.  A Service's ports may be none, repeat,
or take a number or a name of the pilot's ports, and the HigressController's own
container may be named like its pilot.  A KEDA trigger may lack its type or its
metadata.  `ResourcesAssumption` bounds what a field may hold at all: replicas are
not negative, a Service's type and traffic policy are ones the server knows and
ports are in 1..65535, for the server refuses the objects of others.

### Fairness

`WF(Worker)`: the controller's goroutine runs while there is work.
`WF(Deliver(k))` for lagging kinds: a watch delivers.  `WF(CollectGarbage(k))`:
the collector of the cluster runs.  `SpecWithResync` adds `WF(Resync)`, the
informer's periodic resync (ten hours by default), and is used only where a run
asks what holds eventually in spite of events that are lost or were never there.
Nothing is assumed of users and disturbances.  A request that failed is back in
the queue at once: the back-off only delays it.

## 3. Runs

| Run | Question | Result |
|---|---|---|
| `GatewaySafety` | finalizer protocol, ownership and refinement of `GrantLifecycle`, with stale gateway and binding caches, a crash, a deleted binding or a neighbour, two incarnations, with and without skywalking; does a deleted gateway with a binding go away without a resync? | holds |
| `GatewayWriters` | operator and autoscaler writing replicas at once, gateways of two namespaces writing the subjects of one ClusterRoleBinding, stale reads of both, a crash | holds |
| `GatewayStatus` | edits between HPA, KEDA and an invalid spec, stale gateway and HPA reads, a crash or a failed call: the right autoscaler alone at rest, a right and honest status, and what these rest on: the order of versions (`VersionsInOrder`), and that nothing is missing that no request, pass or event knows of (`WorkProtocol`) | holds |
| `GatewayConvergence` | does the cluster converge with the resync after lost work, a late KEDA, a deleted role, and when a gateway is created again under its old name? | holds |
| `GatewayDeletionStuck` | does every deleted gateway go away? | violated |
| `GatewayTraced` | does a gateway with skywalking converge? | violated |
| `ControllerPass` | do caches, pass and server agree on what the finalizer protects (`FinalizerProtocol`), are grants given only under it and revoked before it goes, and is no work lost (`AtRestConverged`, and `WorkProtocol`, which it rests on), nor a deletion left half done, under any two disturbances? | holds |
| `ControllerShared` | do HigressControllers of two namespaces leave each other's grant alone? | holds |
| `Workloads` | a gateway and a controller edited field after field: does the validator follow its rules, can an accepted autoscaler work, which passes fail, does anything survive the edit that dropped it, is a settled pass a fixed point, do the proxies find the control plane, do the pods run as granted? | holds |
| `WorkloadsContainers` | does an edited HigressController reach its Deployment? | violated |
| `WorkloadsEnvOrder` | is a settled pass a fixed point with two entries in `spec.env`? | violated |
| `WorkloadsRolling` | does a gateway that leaves out the optional rolling fields get its Deployment? | violated |

`QuiescentConverged` is the safety side of "the desired state is reached": when
nothing is left that would start a pass but the resync (idle, queue empty, caches
current, nothing to collect), the cluster is what the gateway asks for.  It
fails exactly when some interleaving loses work.  Two places in the code do lose it: a KEDA
that is installed late, which nothing watches, and a failed Namespace read, which is
logged and answered with nil (`:140`).  `GatewayConvergence` shows that the resync
repairs both, and the loss of an object nobody watches.  Three more ways to lose
work need a cache that lags or a gateway created again, which `GatewayWriters` and
`GatewayStatus` leave out: they are described below, and `EverythingIsTold`
(section 4) names all six.

Deadlock is not checked in the gateway's runs: the operator rests when there is
nothing to do and the user's moves are bounded.

The violations are described in `PROJECT.json` under `findings`:

1. `finalizeHigressGateway` (`:360`): a missing binding is an error for ever.
   `DeletionCompletesOnceBound`, in `GatewaySafety`, shows that this is the only
   reason a deletion does not complete.
2. `updateSkywalkingConfigMap` (`configmap.go:109`): a nil map; the operator
   panics in every pass of such a gateway.  With tracing enabled and no script the
   pass ends in an error instead; `GatewaySafety` has both cases, and deletion
   still works in them.
3. `updateDeploymentSpec` of the HigressController (`controller/deployment.go:46`):
   a container that is there is never updated.  The volumes beside it are, so the
   edits that take away a volume the old pilot mounts make every later pass fail.
4. `genEnv` (`gateway/deployment.go:314`): the environment follows Go's map
   iteration, and the Deployment the operator owns wakes it for the next pass.
5. `setDefaultValues` gives the optional rolling fields no value: two zeros, which
   the server refuses.

`RefusalsExplained` lists every way in which a pass can fail for good; besides the
ones above they are an edited selector, an HPA's bound or target below one that the
validator lets through, a KEDA trigger without metadata (`keda.go:89` renders null,
which the ScaledObject's schema refuses), a `netWorkGateway` without labels (a
panic), a Service whose ports are none, repeat or lack a name beside others (a
gateway's, a HigressController's own, or none at all beside `enableHigressIstio`),
a port with a pilot's number and another name, source ranges that do not go with
the Service's type, whether the spec gives them or an earlier one did, an external
traffic policy that does not (`service.go:44`), and a gateway and a controller with
one service-account name.  A policy fails in two ways: the spec gives it beside
`ClusterIP`, or, before an old server, an earlier spec has left it.  In the fields
the model has, within the values `ResourcesAssumption` allows, nothing else fails,
whatever edits came before; section 5 lists the fields it does not have.

Seen while modelling, and not the subject of a run: a status patch from a stale
copy (`:646`) may leave Ready=True beside deployed=false until the next pass, which
the patch itself starts (`GatewayStatus` holds); a gateway that enables a service
account without naming it creates and binds one named after itself, while its pods
run under the namespace's default account (the exception in `PodsRunAsGranted`);
the volume of the local wasm plugins is rendered but mounted by no container;
a gateway's edit from `LoadBalancer` with a policy to `ClusterIP` with the same
policy passes once, for the server takes the policy for a leftover and clears it,
and the next pass, which sends it anew, is refused;
a HigressController whose own container has the pilot's name gets no pilot, and one
whose Service has a port named `https-dns` with another number offers none to the
proxies (`PilotNameTaken`, the exception in `ProxiesFindTheControlPlane`); and a
HigressGateway and a HigressController of one name share a Deployment, since
`SetControllerReference` is called on the object that was built and not on the one
that was read.

TLC also finds `QuiescentConverged` violated, until the resync, when the constants
leave what `EverythingIsTold` allows.  A *lagging gatewayConfigMap*: an edit and its
undo, both before the informer shows the first ConfigMap; the pass for the undo
finds nothing to change in the old version and sends nothing, and the events of a
ConfigMap, which has no controller reference, wake nobody.  A *binding cached from
before the revocation* when a gateway is created again (`MaxUid = 2`): it still
shows the subject, so the grant is not written.  A *ScaledObject of the previous
incarnation* when KEDA is installed and a gateway is created again: the pass finds
it up to date, then the collector takes it, and nobody watches ScaledObjects.

`AtRestConverged` is the HigressController's `QuiescentConverged`.  Its exception
`Unnoticed` names what the operator is not told of.  One of them is a race TLC
found: after a delete and a re-creation, a binding cached from before the
revocation still shows the subject, `CreateOrUpdate` finds nothing to change and
sends nothing, so no conflict reveals that the copy was stale, and the grant is
missing until something else starts a pass.

Definitions commented as *faulty variants* are the code with a plausible mistake
in it; each property is violated when one of them takes the place of its original,
so none holds whatever the code does.

## 4. Proofs

The theorems hold for every value of the constants that satisfies the named
assumptions, with `Safety` (`Init /\ [][Next]_vars`, no fairness) as hypothesis;
`Workloads` assumes no fairness anyway, and its `Spec` is the hypothesis there.
Every invariant and every action property of the passing runs is a theorem.

*Gateway.*  The specs are well formed, replica counts are naturals, `Absent` is no
object, ScaledObjects are read live (`LaggingAssumption`), neighbours have subjects
of their own, and other clients delete only objects, not the gateway, behind the
user's back.  *Controller.*  Specs are well formed and include those a resource is
created with, CRDs have names, an instance is a namespace and a name, `Absent` is
no resource or object, and `Unset` no value of a field.  No bound is assumed to be
finite or positive, and any kinds may lag, but for the gateway's ScaledObject.
*Rendered objects.*  The fields of the two resources as they are created, and the
values any part offers for them, have the types the schema gives those fields
(`ResourcesAssumption`); which parts there are and how many values they offer is
left open.

### The gateway reconciler

* `TypeCorrect` (`GatewayFinalizerProofs`): `Safety => []TypeOK`, one lemma per action.
* `ProtocolHolds`, `NoGrantIsForgotten` (the same module).
  `SubjectHasFinalizer` -- a grant implies a gateway with the finalizer -- is not
  inductive: that a pass may write the binding rests on what an *older version* of
  the gateway told it.  `FinalizerProtocol` adds why that is enough:
  any version an informer still shows as kept (finalizer, not deleted) is of the
  gateway that exists (`InformerTrust`), because a protected gateway first becomes
  "deleting" and leaves only through a pass whose copy is current, and a current
  copy means the informer is behind by nothing (`CopyTrust`); a pass that has seen
  or set the finalizer works for that gateway (`PassTrust`, `RereadTrust`); and
  the finalizer goes only from a current copy after the grant is gone
  (`RevokedFirst`).  Three lemmas do the steps that do not touch the gateway, keep
  its identity, or concern one without a finalizer; the six actions of the protocol
  itself have their own.
* `NeighboursAreLeftAlone`: a pass writes the binding in two places, both times
  from a current copy (`WorkerWritesBinding`), and what it writes differs from what
  was there by its own subject (`MutatedKeepsNeighbours`).
* `ChildrenHaveLivingParents`: `ChildrenOfTheLiving` from the same invariant and the
  fact that only the calls of a pass create objects (`CallsCreate`).
* `ScalingIsRespected`: `ReplicasPreserved`.  The Deployment is written in one call,
  which the server refuses unless the Deployment it has read is current, and what
  is written then has the replicas that were read.
* `ReconcilerImplementsLifecycle` (`GatewayLifecycleProofs`): every step maps to a
  step of `GrantLifecycle` or leaves gateway and grant alone.  Each action is
  classified by what it does to the gateway's server version and, separately, to
  the subjects of the binding; that a grant is given only to a protected gateway
  and that the last version goes without a grant is `FinalizerProtocol` again.
* `ReadersKeepUp`: `VersionsInOrder`.  What the informer has still to deliver is in
  the order of the server, the pass's copy is among it or older, and no reader has
  a generation below the one the status reports.
* `StatusIsHonest`, `StatusAdvances` follow.  A merge patch computed from a stale
  copy leaves out what did not change *relative to the copy*; the order of
  versions is why what it does send is never older than what is there.
* `WorkIsKept`, `RestIsConverged` (`GatewayConvergenceProofs`).  At rest the cluster
  is what the gateway asks for (`QuiescentConverged`).  That is a statement about
  idle states and says nothing of a pass half done; the invariant is
  `WorkProtocol`, and `NoWorkIsLost` is its point: a living gateway is *asked for*
  (its request is queued, or its informer has a version to show, which queues it),
  *in hand* (the pass works on the server's spec and every object is either still to
  come in `todo` or settled), or *at rest* (the status is right and every object is
  settled).  An object is `Settled` when it is as the gateway asks, or when it has an
  event on its way that wakes the gateway: the second half is why a conflict or a
  stale read may leave an object wrong for a while.  The proof follows an object
  through a step in three lemmas: a call settles the object it writes
  (`CallSettles`), a step of somebody else leaves it settled or is an event
  (`SettledStep`), and a call that decides from the cache that nothing is to be done
  is right about it.  The last needs the other parts: the cached versions of an
  object differ from the server's, and objects of a kind have the owner, the subject
  and the revision their kind demands (`ObjectTrust`); kinds that do not lag are read
  as they are (`ReadTrust`); a role that was there is there, for nobody deletes it
  (`GrowTrust`); a ScaledObject is of the latest incarnation (`UidTrust`); an old
  binding shows no grant that is gone (`DeletionTrust`); and the calls that are left
  suit the spec, what is known of KEDA among it, with the status last (`CallTrust`).
  A status patch ends the pass; if it was not computed from the newest copy, the
  request is queued or the gateway's informer has a version to show.

  Both theorems assume `EverythingIsTold`, a condition on the constants: no failed
  read of the Namespace and no late KEDA; other clients delete only objects whose
  deletion reaches the gateway's request (watched, with a controller reference);
  the gateway's ConfigMap is read live; and a gateway that is created again has its
  binding read live and no KEDA.  Each exclusion is one of the six ways described
  in section 3 in which the code does lose work until the resync, and the theorem
  says that without them nothing else in the model does.  `GatewayWriters` and `GatewayStatus` satisfy it.
  What it allows: any edits, conflicts, crashes and failed calls, an autoscaler, the
  neighbours, a namespace that terminates, and stale reads of every other kind.

### The HigressController reconciler

* `TypeCorrect`, `ProtocolHolds` (`ControllerFinalizerProofs`).  The two need each
  other: `UpdateStatus` writes the pass's whole copy over the resource, and that
  this changes nothing but the status is `CopyTrust`; so they are proved as one
  invariant.  `FinalizerProtocol` says for all resources at once what the gateway's
  says for one.  There is no second Get: `AddFinalizer`'s answer keeps the copy
  current, and in exchange the informer trails it, which is why `CopyTrust` asks
  for a current cache only before the calls.
* `GrantsAreForProtected`, `GrantsAreKept`, `RevocationComesFirst`
  (`ControllerFinalizerProofs`): only the pass of a protected incarnation binds a
  subject; what it writes to a binding others share differs from what was there by
  its own subject; and the removal of the finalizer comes after the revocation,
  whatever is edited between the two writes -- an edit makes the copy stale, and
  the removal is refused.
* `DeletionsHaveRequests`, `RestHasNoDeletion`: a deletion that is not over is in
  the queue, on its way to the informer, or in the hands of a pass at its handler
  (`DeletionsAreAttended`, inductive with the types and the protocol).  At rest
  there is none of the three.
* `WorkIsKept`, `RestIsConverged` (`ControllerConvergenceProofs`).  At rest every
  living resource is deployed and has all its objects (`AtRestConverged`).  The
  invariant is `WorkProtocol`.  Its last part, `NoWorkIsLost`, is the claim: a
  living resource is asked for (`Asked`), in the hands of a pass that has made what
  it has passed (`InHand`), or at rest (`AtRest`); an object that is not as it
  should be has an event on its way to its owner (`Shown`).  The other parts are
  what a call needs when it decides, *from a cache*, that there is nothing to do:
  that an object's informer has nothing but older versions of it, and that objects
  of a kind look alike (`ObjectTrust`); that an old version of a role or a CRD
  proves there is one now, for nobody deletes them (`GrowTrust`); that an old
  version of a binding shows no subject that is gone, unless a resource was deleted
  and created again (`DeletionTrust`, `BindingTrust`); and that a pass asks for what
  its spec calls for and for the status last (`CallTrust`).

  `RestIsConverged` assumes `OnePerNamespace`.  It is needed: resources in one
  namespace share objects and a service account, and the deletion of one takes the
  grant of the other (a hazard in section 5).  `WorkIsKept` has the hypothesis in
  the two parts that depend on it; the instances TLC checks satisfy it.

### The rendered objects

The theorems of `WorkloadProofs` are about every gateway, every controller and every
sequence of edits, and not about one part of the specs at a time as in the run
`Workloads`.

* `WorkloadTypes`: `TypeOK`.
* `VerdictsAreRight`: `VerdictMatchesRules`, a case distinction over the mode and the
  rules (`VerdictIsRight`); it needs no more of the state than the gateway's types.
* `Invariant`: the other properties speak of a pass that is over, so that they need
  to know what it has left, and what an edit or the other resource's pass does to it.
  `GatewaySettled` and `ControllerSettled` say that a settled resource's objects are
  fixed points of its builders, that its account exists and that it is bound.  Of a
  gateway's Service they say it up to the policy: a Service settled with the policy
  cleared is sent with it again, so that what is kept is that the policy stored goes
  with the type, and is the one given if there is one (`PolicyFits`, `PolicyGiven`);
  `GatewayStopped` and `ControllerStopped` say why a pass stopped where it did.  Both
  speak of `bindings`, which the two resources share; that a binding is never changed
  or taken away (`BindingsGrow`) is why the pass of one resource disturbs neither
  part of the other (`GatewayUntouched`, `ControllerUntouched`).  Also kept are that
  the HigressController's containers and ports, which earlier specs have left, have
  their shape: an old container is what decides whether the next pass is refused.
* The pass is taken apart in `GatewayPassRuns` and `ControllerPassRuns`: it stops at
  the first call that fails (`StopsAtFailure`), and each object is as it was or as
  rendered.  The builders have two kinds of lemmas.  *Rendering twice is rendering
  once*: the gateway's Deployment, but for the replicas (`DeploymentRendered`), its
  Service (`ServiceRenderedTwice`) up to what the server makes of its policy
  (`PolicyStored`), the ports and the containers a HigressController
  appends if they are missing (`PortsAppendedOnce`, `ContainersRendered`).  *What the
  server refuses has a reason*: `DeploymentRefused`, `ServiceRefused`, `HPARefused`,
  `ScaledObjectRefused`, `ControllerDeploymentRefused`, `ControllerServiceRefused`.  The largest is that
  every mounted volume is rendered for each combination of the flags
  (`GatewayMounts`, `FreshContainers`), and that ports appended to admitted ones are
  spoiled only by one without a name or with a pilot's number under another
  (`AppendedRefused`).
* `SettledScalersWork`: `ScalerCanWork`.  What a settled gateway's autoscaler is made
  from has passed the validator (`AcceptedScalerCanWork`).
* `FailuresAreExplained`: `RefusalsExplained`, from `GatewayStopped` and
  `ControllerStopped`: there is no further way for a pass to fail, before either
  kind of server.
* `NothingOldIsLeft`, `PodsHaveTheirRole`, `TheControlPlaneIsFound`: from the settled
  parts.  The last relates the two resources: the address the mesh configuration
  ends with after two renderings (`MeshIsTheController`), a port with its number in
  the Service (`PilotPortOffered`), and the container behind it.
* `PassesComeToRest`: `SettledPassChangesNothing`, an action property.  It has two
  hypotheses.  `AbsentIsNoObject` says that the absent object has no fields.
  `OneVariableAtMost` says that no spec gives the gateway's container two variables;
  without it `WorkloadsEnvOrder` has the counterexample, and the theorem says that
  the order of the variables is all that keeps a settled pass from being a fixed
  point.

### Model-checked only

Liveness under fairness (`EventuallyConverged`, `DeletionCompletesOnceBound`) is
beyond the prover used here, as is ENABLED.
Where `EverythingIsTold` fails, only the resync repairs what was lost, so that
what remains there is the liveness of `GatewayConvergence`.

## 5. Not modelled, and why

HPA metric conversions (`hpa.go:107-217`) and `createOrUpdate` with `mutate`
(`utils.go:39-80`) are not called.  Logging and recorded events have no effect on
the state.  Of the rendered objects, probes, arguments, security contexts,
tolerations, affinity, resource limits, the mesh networks and KEDA's timings are
constant or copied from the spec without looking at the cluster, and are left out.
The labels and annotations of the Deployment and the ConfigMaps, and the annotations
of the Service, are set when the object is created and never again
(`gateway/deployment.go:22-29`): an edit of them has no effect, which no property
here speaks of.  Of a trigger's metadata there is only whether it is empty.  What
the server refuses on account of these fields is not on `RefusalsExplained`' list,
nor are node ports and the protocols of ports (all are of one), values that are
malformed in themselves (a source range that is no CIDR, a name that is no label, a
negative or percentage rolling budget), the optional admission webhook of KEDA and
policies other clients install.  The skywalking ConfigMap's data is never written, because the operator fails before.  A
HigressController's arguments, environment and probes are written once with their
container and stand behind `image`.  `cmd/main.go`, the manifests and generated
deep copies hold no logic of their own.  A Namespace that is gone is treated as
terminating.

These hazards have no property.  After a rename of the service account, or with RBAC
switched off, the handlers of both reconcilers look for the current name's grant
only, and the former one stays (`gateway/higressgateway_controller.go:358`,
`controller/higresscontroller_controller.go:302`); nothing in the repository
promises more.  Two HigressControllers in one namespace have one subject, and
deleting one takes the other's grant
(`controller/higresscontroller_controller.go:319`).  A gateway and a controller of
one name would share their Deployment (`controller/deployment.go:24`).

## 6. Plan

1. *(done)* `AutoscalingConfig`, `KubeApi`, `GatewayReconciler`, its properties,
   type correctness and the finalizer protocol.
2. *(done)* `ControllerReconciler`: several HigressControllers over the same
   `KubeApi`, with the CRDs and the binding they share.
3. *(done)* `GatewayBuilders`, `ControllerBuilders`, `Workloads`: fields that stay
   when the spec drops them, the mesh configuration that is complete only on the
   second rendering, containers that are appended once, nil labels, immutable
   selectors and roles, bounds the server refuses.
4. *(done)* Theorems about `ControllerReconciler`: types, the finalizer protocol,
   `OthersKeepGrants`, `GrantsOnlyProtected`, `RevokedBeforeRemoved`,
   `AtRestDeletionsAreDone`, `AtRestConverged`.
5. *(done)* `Safety => ImplementsLifecycle`, `Safety => ReplicasPreserved`, the two
   observed-generation properties, with monotone informer versions as an invariant.
6. *(done)* `Safety => []QuiescentConverged` for the gateway, with `WorkProtocol`.
7. *(done)* Theorems about `Workloads`: `validateAutoscalingConfig` accepts exactly
   the configurations that break no rule, a pass over an unchanged spec changes
   nothing, and the other properties of the rendered objects.
8. Former grants of a deleted resource; two HigressControllers in one namespace;
   liveness of a HigressController's deletion (`AtRestDeletionsAreDone` is its
   safety side).
