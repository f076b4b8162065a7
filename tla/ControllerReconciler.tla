------------------------- MODULE ControllerReconciler -------------------------
(***************************************************************************)
(* HigressControllerReconciler for several HigressController resources:    *)
(* one worker takes their requests in turn, while they share the CRDs,     *)
(* the ClusterRole and, having one service account name by default, the    *)
(* ClusterRoleBinding.  As in GatewayReconciler an action is one API call  *)
(* with the code around it; CRDs are read and written by a client without  *)
(* a cache, so their Get and the write after it are two actions.           *)
(***************************************************************************)
EXTENDS KubeApi, FiniteSets

CONSTANTS
  Unset,             \* a field the user left out
  Instances,         \* the resources, as <<namespace, name>>
  Specs,             \* the specs the user may write
  CreatedSpecs,      \* those among them a resource may be created with
  CRDs,              \* the sequence of the CRDs in config/crd/higress
  DisturbanceKinds,  \* what may happen outside the reconciler, each kind once
  MaxDisturbances    \* bound: how many of them in one behaviour

VARIABLES
  pc,          \* where the pass is; "idle" between passes
  who,         \* the request being worked on
  todo,        \* in "apply" and "writeCRD": the objects the pass has left
  inst,        \* the pass's copy of the resource, defaults applied
  instCurrent, \* inst carries the resourceVersion the server holds
  crdSeen,     \* in "writeCRD": what the Get of the CRD returned
  queued,      \* the requests in the work queue
  terminating, \* the namespaces that are being deleted
  lastUid,     \* the uid of the latest incarnation of each resource
  disturbed    \* the disturbances that have happened

pass == <<pc, who, todo, inst, instCurrent, crdSeen>>
cluster == <<terminating, lastUid, disturbed>>
vars == <<server, past, pass, queued, cluster>>

(***************************************************************************)
(* Names.  A key is <<kind, namespace, name>>, the namespace "" for what   *)
(* is cluster scoped.                                                      *)
(***************************************************************************)
setDefaultValues(spec) ==
  [spec EXCEPT !.rbac = IF @ = Unset THEN TRUE ELSE @,
               !.serviceAccount = IF @ = Unset
                                  THEN [enable |-> TRUE, name |-> "higress-controller"] ELSE @]

\* Faulty variant: the defaults a pass has once written are taken to stay.
DefaultsUntilProtected(cr) ==
  IF cr.finalizer THEN cr ELSE [cr EXCEPT !.spec = setDefaultValues(@)]

WithDefaults(cr) == [cr EXCEPT !.spec = setDefaultValues(@)]

\* The name of the instance where the spec gives an empty one.
getServiceAccount(i, spec) ==
  IF spec.serviceAccount.name # "" THEN spec.serviceAccount.name ELSE i[2]

\* createRBAC and the finalizer's handler do something only then.
GrantsRbac(spec) == spec.rbac /\ spec.serviceAccount.enable

Resource(i) == <<"higressController", i[1], i[2]>>
CRD(name) == <<"crd", "", name>>
ClusterRole == <<"clusterRole", "", "higress-controller">>
Binding(i, spec) == <<"clusterRoleBinding", "", getServiceAccount(i, spec)>>
SubjectOf(i, spec) == <<i[1], getServiceAccount(i, spec)>>

ServiceAccountKeys(i, spec) ==
  IF spec.serviceAccount.enable THEN <<<<"serviceAccount", i[1], getServiceAccount(i, spec)>>>>
  ELSE <<>>
RbacKeys(i, spec) ==
  IF GrantsRbac(spec)
  THEN <<ClusterRole, Binding(i, spec), <<"role", i[1], "higress-controller">>,
         <<"roleBinding", i[1], getServiceAccount(i, spec)>>>>
  ELSE <<>>
WorkloadKeys(i) == <<<<"deployment", i[1], i[2]>>, <<"service", i[1], "higress-controller">>>>
CRDKeys == [n \in 1..Len(CRDs) |-> CRD(CRDs[n])]

\* What a pass creates or updates, in the order of Reconcile, the resource's
\* status last.
Calls(i, spec) ==
  CRDKeys \o ServiceAccountKeys(i, spec) \o RbacKeys(i, spec) \o WorkloadKeys(i)
  \o <<Resource(i)>>

DefaultedSpecs == {setDefaultValues(s) : s \in Specs}
Elements(s) == {s[n] : n \in 1..Len(s)}
Resources == {Resource(i) : i \in Instances}
Keys == Resources \cup UNION {Elements(Calls(i, s)) : i \in Instances, s \in DefaultedSpecs}
Objects == Keys \ Resources
Bindings == {k \in Objects : k[1] = "clusterRoleBinding"}

(***************************************************************************)
(* Objects.  owner is the controller reference <<instance, uid>>; rev is   *)
(* what the MutateFn renders anew from the spec, containers what it leaves *)
(* alone once it is there; a CRD's rev says whose manifest it is.          *)
(***************************************************************************)
NoOwner == <<>>
Bundled == "bundled"   \* rev of what does not depend on the spec
Foreign == "foreign"   \* rev of a CRD somebody else installed

Owned == {"serviceAccount", "deployment", "service"}  \* SetupWithManager's Owns
Rendered(k, spec) == IF k[1] \in {"deployment", "service"} THEN spec.rev ELSE Bundled

Initial(k, i, cr) ==
  [owner |-> IF k[1] \in Owned THEN <<i, cr.uid>> ELSE NoOwner,
   rev |-> Rendered(k, cr.spec),
   containers |-> IF k[1] = "deployment" THEN cr.spec.rev ELSE "",
   subjects |-> IF k[1] \in {"clusterRoleBinding", "roleBinding"}
                THEN {SubjectOf(i, cr.spec)} ELSE {}]

Mutated(k, old, i, cr) ==
  CASE old = Absent -> Initial(k, i, cr)
    [] old # Absent /\ k[1] \in {"clusterRoleBinding", "roleBinding"} ->
         [old EXCEPT !.subjects = @ \cup {SubjectOf(i, cr.spec)}]
    [] OTHER -> [old EXCEPT !.rev = Rendered(k, cr.spec)]

\* Types of the data, and what the constants have to satisfy.  Two resources in
\* one namespace are told apart by their names.
Revs == {Bundled, Foreign} \cup {s.rev : s \in Specs}
Subjects == {SubjectOf(i, s) : i \in Instances, s \in DefaultedSpecs}
Controllers == [uid : Nat, spec : Specs \cup DefaultedSpecs, finalizer : BOOLEAN,
                deleting : BOOLEAN, deployed : BOOLEAN]
Copies == {cr \in Controllers : cr.spec \in DefaultedSpecs}
Managed == [owner : {NoOwner} \cup (Instances \X Nat), rev : Revs,
            containers : Revs \cup {""}, subjects : SUBSET Subjects]
AccountNames == {"", "higress-controller"} \cup
                {s.serviceAccount.name : s \in {t \in Specs : t.serviceAccount # Unset}}
ServiceAccounts == [enable : BOOLEAN, name : AccountNames]

ASSUME InstancesAssumption == \A i \in Instances : i = <<i[1], i[2]>>
ASSUME SpecsAssumption ==
  Specs \subseteq [rev : Revs, rbac : BOOLEAN \cup {Unset},
                  serviceAccount : ServiceAccounts \cup {Unset}]
ASSUME CreatedSpecsAssumption == CreatedSpecs \subseteq Specs
ASSUME CRDsAssumption == CRDs \in Seq(STRING)
ASSUME AbsentAssumption == Absent \notin Instances \cup Controllers \cup Managed
ASSUME UnsetAssumption == Unset \notin BOOLEAN \cup ServiceAccounts

\* What is rendered for these kinds may lack fields the server fills in; then
\* an Update is sent although it changes nothing.
Defaulted == {"deployment", "service"}
Creatable(k) == k[2] \notin terminating

(***************************************************************************)
(* The work queue and the end of a pass.                                   *)
(***************************************************************************)
Owners(objs) == {o.owner[1] : o \in {x \in objs \ {Absent} : x.owner # NoOwner}}
Woken(k, old, new) ==
  IF k \in Resources THEN {<<k[2], k[3]>>}
  ELSE IF k[1] \in Owned THEN Owners({old, new}) ELSE {}
Store(k, obj) ==
  /\ Put(k, obj)
  /\ queued' = queued \cup IF k \in Lagging \/ obj = server[k] THEN {}
                           ELSE Woken(k, server[k], obj)

EndPass ==
  /\ pc' = "idle" /\ who' = Absent /\ todo' = <<>> /\ inst' = Absent
  /\ instCurrent' = FALSE /\ crdSeen' = Absent

\* Faulty variant: the error is logged and nil returned.
RequeueForgotten == EndPass /\ UNCHANGED <<server, past, queued, cluster>>

\* Reconcile returns an error: the request is queued again.
Requeue == EndPass /\ queued' = queued \cup {who} /\ UNCHANGED <<server, past, cluster>>

Proceed ==
  /\ pc' = "apply" /\ todo' = Tail(todo) /\ crdSeen' = Absent
  /\ UNCHANGED <<who, inst, instCurrent, cluster>>
NoWrite == UNCHANGED <<server, past, queued>>
Goto(label) ==
  /\ pc' = label
  /\ UNCHANGED <<who, todo, inst, instCurrent, crdSeen, cluster>>
BeginCalls == pc' = "apply" /\ todo' = Calls(who, inst.spec)

(***************************************************************************)
(* The pass.                                                               *)
(***************************************************************************)
NothingToDo(cr) == cr # Absent => cr.deleting /\ ~cr.finalizer

DropRequest(i) ==
  /\ pc = "idle" /\ i \in queued /\ NothingToDo(Cached(Resource(i)))
  /\ queued' = queued \ {i}
  /\ UNCHANGED <<server, past, pass, cluster>>

\* Faulty variant: the deletion is not looked at.
StartDespiteDeletion(i) ==
  LET cr == Cached(Resource(i)) IN
  /\ pc = "idle" /\ i \in queued /\ ~NothingToDo(cr)
  /\ pc' = "namespace"
  /\ who' = i /\ inst' = WithDefaults(cr) /\ instCurrent' = Current(Resource(i))
  /\ queued' = queued \ {i}
  /\ UNCHANGED <<server, past, todo, crdSeen, cluster>>

StartReconcile(i) ==
  LET cr == Cached(Resource(i)) IN
  /\ pc = "idle" /\ i \in queued /\ ~NothingToDo(cr)
  /\ pc' = IF cr.deleting THEN "finalize" ELSE "namespace"
  /\ who' = i /\ inst' = WithDefaults(cr) /\ instCurrent' = Current(Resource(i))
  /\ queued' = queued \ {i}
  /\ UNCHANGED <<server, past, todo, crdSeen, cluster>>

\* Faulty variant: subjects are told apart by their names only.
WithoutSubjectNamed(subjects, subject) == {s \in subjects : s[2] # subject[2]}

\* The subjects finalizeHigressController leaves.
WithoutSubject(subjects, subject) ==
  {s \in subjects : s[2] # subject[2] \/ s[1] # subject[1]}

\* Faulty variant: a binding the cache does not show needs no change.
FinalizeShownBinding ==
  LET k == Binding(who, inst.spec)
      crb == Cached(k) IN
  /\ pc = "finalize"
  /\ IF ~GrantsRbac(inst.spec) \/ crb = Absent THEN Goto("removeFinalizer") /\ NoWrite
     ELSE IF Current(k)
     THEN /\ Store(k, [crb EXCEPT !.subjects = WithoutSubject(@, SubjectOf(who, inst.spec))])
          /\ Goto("removeFinalizer")
     ELSE Requeue

\* Faulty variant: the subjects are written whatever the binding holds by now.
FinalizeBindingBlindly ==
  LET k == Binding(who, inst.spec)
      crb == Cached(k) IN
  /\ pc = "finalize"
  /\ IF ~GrantsRbac(inst.spec) THEN Goto("removeFinalizer") /\ NoWrite
     ELSE IF crb # Absent
     THEN /\ Store(k, [crb EXCEPT !.subjects = WithoutSubject(@, SubjectOf(who, inst.spec))])
          /\ Goto("removeFinalizer")
     ELSE Requeue

\* finalizeHigressController: nothing if RBAC is off now; a missing binding is
\* an error.
FinalizeBinding ==
  LET k == Binding(who, inst.spec)
      crb == Cached(k) IN
  /\ pc = "finalize"
  /\ IF ~GrantsRbac(inst.spec) THEN Goto("removeFinalizer") /\ NoWrite
     ELSE IF crb # Absent /\ Current(k)
     THEN /\ Store(k, [crb EXCEPT !.subjects = WithoutSubject(@, SubjectOf(who, inst.spec))])
          /\ Goto("removeFinalizer")
     ELSE Requeue

RemoveFinalizer ==
  /\ pc = "removeFinalizer"
  /\ IF instCurrent THEN Store(Resource(who), Absent) /\ EndPass /\ UNCHANGED cluster
     ELSE Requeue

CheckNamespace ==
  /\ pc = "namespace"
  /\ IF inst.finalizer THEN BeginCalls ELSE pc' = "addFinalizer" /\ UNCHANGED todo
  /\ UNCHANGED <<who, inst, instCurrent, crdSeen, cluster>> /\ NoWrite

\* The Namespace is cached too: it may be seen or not.
NamespaceTerminating ==
  /\ pc = "namespace" /\ who[1] \in terminating
  /\ EndPass /\ NoWrite /\ UNCHANGED cluster

\* Faulty variant: the pass goes on although the finalizer was refused.
AddFinalizerDespiteConflict ==
  LET written == [inst EXCEPT !.finalizer = TRUE] IN
  /\ pc = "addFinalizer"
  /\ IF instCurrent THEN Store(Resource(who), written) ELSE NoWrite
  /\ inst' = written /\ BeginCalls
  /\ UNCHANGED <<who, instCurrent, crdSeen, cluster>>

\* The Update's answer carries the new resourceVersion: the copy stays current.
AddFinalizer ==
  LET written == [inst EXCEPT !.finalizer = TRUE] IN
  /\ pc = "addFinalizer"
  /\ IF instCurrent
     THEN /\ Store(Resource(who), written)
          /\ inst' = written /\ BeginCalls
          /\ UNCHANGED <<who, instCurrent, crdSeen, cluster>>
     ELSE Requeue

Calling(kind) == pc = "apply" /\ Head(todo)[1] = kind

\* createCRDs, one CRD: the Get ...
GetCRD ==
  /\ Calling("crd")
  /\ pc' = "writeCRD" /\ crdSeen' = server[Head(todo)]
  /\ UNCHANGED <<who, todo, inst, instCurrent, cluster>> /\ NoWrite

\* ... and the Create, the Update of the spec, or nothing.  The server fills in
\* fields, so even the operator's own CRD may compare as different.
SkipCRD == pc = "writeCRD" /\ crdSeen # Absent /\ crdSeen.rev = Bundled /\ Proceed /\ NoWrite
WriteCRD ==
  LET k == Head(todo) IN
  /\ pc = "writeCRD"
  /\ IF server[k] = crdSeen THEN Store(k, Initial(k, who, inst)) /\ Proceed ELSE Requeue

\* CreateIfNotExits: AlreadyExists is success.
CreateServiceAccount ==
  LET k == Head(todo) IN
  /\ Calling("serviceAccount")
  /\ IF server[k] # Absent THEN Proceed /\ NoWrite
     ELSE IF Creatable(k) THEN Store(k, Initial(k, who, inst)) /\ Proceed
     ELSE Requeue

CreateOrUpdate(kind) ==
  LET k == Head(todo)
      old == Cached(k)
      new == Mutated(k, old, who, inst) IN
  /\ Calling(kind)
  /\ \/ old = new /\ Proceed /\ NoWrite
     \/ /\ old # new \/ kind \in Defaulted
        /\ IF Current(k) /\ (old = Absent => Creatable(k)) THEN Store(k, new) /\ Proceed
           ELSE Requeue

\* Status().Update of the whole copy, refused unless it is current.
UpdateStatus ==
  /\ Calling("higressController")
  /\ IF inst.deployed THEN NoWrite /\ EndPass /\ UNCHANGED cluster
     ELSE IF instCurrent
     THEN /\ Store(Resource(who), [server[Resource(who)] EXCEPT !.deployed = TRUE])
          /\ EndPass /\ UNCHANGED cluster
     ELSE Requeue

Worker ==
  \/ \E i \in Instances : DropRequest(i) \/ StartReconcile(i)
  \/ FinalizeBinding \/ RemoveFinalizer
  \/ CheckNamespace \/ NamespaceTerminating \/ AddFinalizer
  \/ GetCRD \/ SkipCRD \/ WriteCRD \/ CreateServiceAccount
  \/ \E kind \in {"clusterRole", "clusterRoleBinding", "role", "roleBinding",
                  "deployment", "service"} : CreateOrUpdate(kind)
  \/ UpdateStatus

(***************************************************************************)
(* Everybody else.                                                         *)
(***************************************************************************)
Deliver(k) ==
  /\ Advance(k)
  /\ queued' = queued \cup Woken(k, Cached(k), NextVersion(k))
  /\ UNCHANGED <<pass, cluster>>

Disturb(kind) ==
  /\ kind \in DisturbanceKinds \ disturbed /\ Cardinality(disturbed) < MaxDisturbances
  /\ disturbed' = disturbed \cup {kind}

\* The user writes a resource: the pass's copy is no longer current.
WriteResource(i, cr) ==
  /\ Store(Resource(i), cr)
  /\ instCurrent' = (instCurrent /\ i # who)
  /\ UNCHANGED <<pc, who, todo, inst, crdSeen, terminating>>

Create(i, spec) ==
  /\ server[Resource(i)] = Absent /\ i[1] \notin terminating
  /\ WriteResource(i, [uid |-> lastUid[i] + 1, spec |-> spec, finalizer |-> FALSE,
                       deleting |-> FALSE, deployed |-> FALSE])
  /\ lastUid' = [lastUid EXCEPT ![i] = @ + 1]
  /\ IF lastUid[i] = 0 THEN UNCHANGED disturbed ELSE Disturb("recreate")

Edit(i, spec) ==
  /\ Disturb("edit")
  /\ server[Resource(i)] # Absent /\ server[Resource(i)].spec # spec
  /\ WriteResource(i, [server[Resource(i)] EXCEPT !.spec = spec])
  /\ UNCHANGED lastUid

Delete(i) ==
  LET cr == server[Resource(i)] IN
  /\ cr # Absent /\ ~cr.deleting
  /\ WriteResource(i, IF cr.finalizer THEN [cr EXCEPT !.deleting = TRUE] ELSE Absent)
  /\ UNCHANGED <<lastUid, disturbed>>

\* The process stops and starts again: its caches list everything.
Crash ==
  /\ Disturb("crash") /\ EndPass /\ Relist
  /\ queued' = {i \in Instances : server[Resource(i)] # Absent}
  /\ UNCHANGED <<terminating, lastUid>>

\* The server does not answer a call of the pass.
ApiError ==
  /\ Disturb("apiError") /\ pc # "idle"
  /\ EndPass /\ queued' = queued \cup {who}
  /\ UNCHANGED <<server, past, terminating, lastUid>>

\* The Namespace cannot be read: logged, and nil returned.
NamespaceError ==
  /\ Disturb("namespaceError") /\ pc = "namespace"
  /\ EndPass /\ NoWrite /\ UNCHANGED <<terminating, lastUid>>

\* Another installer of the CRDs, a Helm chart for instance.
InstallCRD(k) ==
  /\ Disturb("installCRD")
  /\ Store(k, [owner |-> NoOwner, rev |-> Foreign, containers |-> "", subjects |-> {}])
  /\ UNCHANGED <<pass, terminating, lastUid>>

DeleteBinding(k) ==
  /\ Disturb("deleteBinding") /\ server[k] # Absent
  /\ Store(k, Absent)
  /\ UNCHANGED <<pass, terminating, lastUid>>

Terminate(i) ==
  /\ Disturb("terminate")
  /\ terminating' = terminating \cup {i[1]}
  /\ UNCHANGED <<pass, lastUid>> /\ NoWrite

Orphaned(k) ==
  /\ server[k] # Absent /\ server[k].owner # NoOwner
  /\ LET cr == server[Resource(server[k].owner[1])] IN
     cr # Absent => cr.uid # server[k].owner[2]

CollectGarbage(k) == Orphaned(k) /\ Store(k, Absent) /\ UNCHANGED <<pass, cluster>>

Environment ==
  \/ \E k \in Keys : Deliver(k)
  \/ \E i \in Instances :
       \/ \E spec \in CreatedSpecs : Create(i, spec)
       \/ \E spec \in Specs : Edit(i, spec)
       \/ Delete(i) \/ Terminate(i)
  \/ \E k \in Objects : CollectGarbage(k)
  \/ \E k \in {o \in Objects : o[1] = "crd"} : InstallCRD(k)
  \/ \E k \in Bindings : DeleteBinding(k)
  \/ Crash \/ ApiError \/ NamespaceError

Init ==
  /\ server = [k \in Keys |-> Absent] /\ past = [k \in Keys |-> <<>>]
  /\ pc = "idle" /\ who = Absent /\ todo = <<>> /\ inst = Absent
  /\ instCurrent = FALSE /\ crdSeen = Absent
  /\ queued = {} /\ terminating = {} /\ disturbed = {}
  /\ lastUid = [i \in Instances |-> 0]

Next == Worker \/ Environment

Safety == Init /\ [][Next]_vars
=============================================================================
