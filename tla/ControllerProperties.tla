------------------------- MODULE ControllerProperties -------------------------
(***************************************************************************)
(* What HigressControllerReconciler owes the users of several              *)
(* HigressController resources.                                            *)
(***************************************************************************)
EXTENDS ControllerReconciler

---------------------------------------------------------------------------
(* Types. *)

AnyVersion == {Absent} \cup Controllers \cup Managed
Versions(k) == {Absent} \cup IF k \in Resources THEN Controllers ELSE Managed

StoreTypes ==
  /\ server \in [Keys -> AnyVersion] /\ past \in [Keys -> Seq(AnyVersion)]
  /\ \A k \in Keys :
       /\ server[k] \in Versions(k)
       /\ \A n \in 1..Len(past[k]) : past[k][n] \in Versions(k)

PassTypes ==
  /\ pc \in {"idle", "finalize", "removeFinalizer", "namespace", "addFinalizer",
             "apply", "writeCRD"}
  /\ pc = "idle" <=> who = Absent
  /\ pc # "idle" => who \in Instances /\ inst \in Copies
  /\ pc \in {"apply", "writeCRD"} =>
       todo \in Seq(Keys) /\ todo # <<>> /\ todo[Len(todo)] = Resource(who)
  /\ pc = "writeCRD" => Head(todo)[1] = "crd" /\ crdSeen \in Versions(Head(todo))
  /\ queued \subseteq Instances /\ instCurrent \in BOOLEAN

\* Type invariant of the store and of the pass; a pass at its calls asks only for
\* objects that belong to its instance and ends with the status.
TypeOK ==
  /\ StoreTypes /\ PassTypes
  /\ terminating \subseteq {i[1] : i \in Instances} /\ lastUid \in [Instances -> Nat]

---------------------------------------------------------------------------
(* Safety. *)

SubjectsOf(obj) == IF obj = Absent THEN {} ELSE obj.subjects

\* A version of a resource that is to be kept: protected and not deleted.
Kept(cr) == cr # Absent /\ cr.finalizer /\ ~cr.deleting
\* The server holds the incarnation uid of i, and the finalizer protects it.
Protected(i, uid) ==
  LET cr == server[Resource(i)] IN cr # Absent /\ cr.finalizer /\ cr.uid = uid

\* An informer that still shows a resource kept shows the one that exists, and
\* only what is protected can be waiting for its deletion.
InformerTrust ==
  \A i \in Instances :
    LET k == Resource(i) IN
    /\ \A n \in 1..Len(past[k]) : Kept(past[k][n]) => Protected(i, past[k][n].uid)
    /\ server[k] # Absent /\ server[k].deleting => server[k].finalizer
\* A pass that has seen or set the finalizer works for the protected resource.
PassTrust ==
  /\ pc = "namespace" /\ inst.finalizer => Protected(who, inst.uid)
  /\ pc \in {"apply", "writeCRD"} => Protected(who, inst.uid)
\* A current copy is the server's version.  Until the pass has added the finalizer
\* no version is on its way.
CopyTrust ==
  pc # "idle" /\ instCurrent =>
    LET k == Resource(who) IN
    /\ server[k] # Absent /\ inst = WithDefaults(server[k])
    /\ pc \notin {"apply", "writeCRD"} => Current(k)
\* Which passes are for the finalizer's handler.
PassStage ==
  /\ pc \in {"finalize", "removeFinalizer"} => inst.finalizer /\ inst.deleting
  /\ pc \in {"namespace", "addFinalizer", "apply", "writeCRD"} => ~inst.deleting
\* Between the handler's two writes nobody brings the subject back.
RevokedFirst ==
  pc = "removeFinalizer" /\ GrantsRbac(inst.spec) =>
    SubjectOf(who, inst.spec) \notin SubjectsOf(server[Binding(who, inst.spec)])

\* Why passes may trust the copies they work on: at every step the caches, the
\* pass and the server agree on which resource is protected, for all resources at
\* once, although one pass's copy is never read again (Reconcile has no second
\* Get) and others write between its calls.
FinalizerProtocol == InformerTrust /\ PassTrust /\ CopyTrust /\ PassStage /\ RevokedFirst

\* createRBAC binds a service account only for a resource that is there, is the
\* one the pass has read, and carries the finalizer that will take the grant
\* back -- although the pass works on a cached copy without a second Get.
GrantsOnlyProtected ==
  [][\A k \in Bindings :
       SubjectsOf(server[k])' \subseteq SubjectsOf(server[k])
       \/ LET cr == server[Resource(who)] IN
          cr # Absent /\ cr.finalizer /\ cr.uid = inst.uid]_vars

\* When a resource with RBAC enabled goes, its subject is out of the binding of
\* its service account, whatever was edited between the handler's two writes
\* (finalizeHigressController, then the Update without the finalizer).
RevokedBeforeRemoved ==
  [][\A i \in Instances :
       LET cr == server[Resource(i)]
           spec == setDefaultValues(cr.spec) IN
       (cr # Absent /\ cr.finalizer /\ server'[Resource(i)] = Absent /\ GrantsRbac(spec))
       => SubjectOf(i, spec) \notin SubjectsOf(server'[Binding(i, spec)])]_vars

\* The pass of one resource never takes another one's subject out of the binding
\* they share, however old the binding it has read.
OthersKeepGrants ==
  [][\A k \in Bindings :
       Worker => \A s \in SubjectsOf(server[k]) \ SubjectsOf(server[k])' :
                   pc = "finalize" /\ s = SubjectOf(who, inst.spec)]_vars

Quiescent ==
  /\ pc = "idle" /\ queued = {}
  /\ \A k \in Keys : Current(k)
  /\ ~\E k \in Objects : Orphaned(k)
Living(i) ==
  /\ server[Resource(i)] # Absent /\ ~server[Resource(i)].deleting
  /\ i[1] \notin terminating

\* The object k is there and is what the spec of i asks for; of a CRD that is
\* there nothing more is asked.
Made(i, spec, k) ==
  /\ server[k] # Absent
  /\ k \notin Elements(CRDKeys) => server[k].rev = Rendered(k, spec)
  /\ k[1] \in {"clusterRoleBinding", "roleBinding"} =>
       SubjectOf(i, spec) \in server[k].subjects

\* The resource says it is deployed, and everything its spec asks for is made.
Converged(i) ==
  LET cr == server[Resource(i)]
      spec == setDefaultValues(cr.spec) IN
  /\ cr.deployed
  /\ \A k \in Elements(Calls(i, spec)) \ Resources : Made(i, spec, k)

\* At rest every living resource has what it asks for: conflicts, crashes and
\* failed calls lose no work.  Excepted is what nobody tells the operator about:
\* a failed read of the Namespace, a binding deleted by somebody else, and the
\* revocation of the previous incarnation's grant, which a pass of the next one
\* may not see in the cached binding, so that it leaves the binding alone.
Unnoticed == {"namespaceError", "deleteBinding"} \cup
             IF Bindings \cap Lagging # {} THEN {"recreate"} ELSE {}
AtRestConverged ==
  Quiescent /\ disturbed \cap Unnoticed = {} =>
    \A i \in Instances : Living(i) => Converged(i)

---------------------------------------------------------------------------
(* Why no work is lost: what holds between passes and calls. *)

\* The resources share the objects of a namespace, their service account's name
\* among them, and with two in one namespace each undoes what the other does.
OnePerNamespace == \A i \in Instances, j \in Instances : i[1] = j[1] => i = j

\* Every version of an object has the owner and what does not depend on the spec
\* as its kind demands.
WellMade(k, obj) ==
  obj # Absent =>
    /\ IF k[1] \in Owned THEN obj.owner # NoOwner /\ obj.owner[1][1] = k[2]
       ELSE obj.owner = NoOwner
    /\ k[1] \notin {"crd", "deployment", "service"} => obj.rev = Bundled
ObjectTrust ==
  \A k \in Objects :
    /\ WellMade(k, server[k]) /\ \A n \in 1..Len(past[k]) : WellMade(k, past[k][n])
    /\ k \notin Lagging => Current(k)
    /\ ~Current(k) => past[k][Len(past[k])] # server[k]

\* What nobody takes away is there when an old version of it is.
GrowTrust ==
  /\ \A k \in Objects :
       k[1] \in {"clusterRole", "role", "roleBinding"} =>
         \A n \in 1..Len(past[k]) :
           past[k][n] # Absent =>
             server[k] # Absent /\ SubjectsOf(past[k][n]) \subseteq SubjectsOf(server[k])
  /\ pc = "writeCRD" /\ crdSeen # Absent => server[Head(todo)] # Absent

\* A pass asks for the objects of its spec, and for the status last.
CallTrust ==
  pc \in {"apply", "writeCRD"} =>
    /\ Elements(todo) \subseteq Elements(Calls(who, inst.spec))
    /\ \A n \in 1..(Len(todo) - 1) : todo[n] \notin Resources

\* A resource that was, and is gone or going.
Over(i) ==
  lastUid[i] # 0 /\ (server[Resource(i)] = Absent \/ server[Resource(i)].deleting)
AtHandler(i) == who = i /\ pc \in {"finalize", "removeFinalizer"}
\* Until a resource is created again, the one whose deletion an informer or a pass
\* has seen is over.
DeletionTrust ==
  /\ \A i \in Instances : server[Resource(i)] # Absent => lastUid[i] # 0
  /\ "recreate" \notin disturbed => \A i \in Instances :
       (\/ AtHandler(i)
        \/ \E n \in 1..Len(past[Resource(i)]) :
             past[Resource(i)][n] # Absent /\ past[Resource(i)][n].deleting)
       => Over(i)

\* A deletion that is not over has a request: one in the queue, one the informer
\* will make when it shows the deletion, or the pass at its handler.
Attended(i) ==
  \/ i \in queued \/ ~Current(Resource(i))
  \/ AtHandler(i)
DeletionsAreAttended ==
  \A i \in Instances :
    server[Resource(i)] # Absent /\ server[Resource(i)].deleting => Attended(i)

\* At rest no deletion is left half done: whatever pass the conflict, crash or
\* failed call hit, between the handler's revocation and the removal of the
\* finalizer or before, there is always a request left that finishes it.  A
\* deletion whose handler fails for ever is not at rest.
AtRestDeletionsAreDone ==
  Quiescent => \A i \in Instances :
    server[Resource(i)] # Absent => ~server[Resource(i)].deleting

\* An old version of a binding shows no subject that is gone, but of a resource
\* that is over.
BindingTrust ==
  OnePerNamespace /\ disturbed \cap Unnoticed = {} =>
    \A k \in Bindings : \A n \in 1..Len(past[k]) :
      past[k][n] # Absent =>
        /\ server[k] # Absent
        /\ \A i \in Instances : ~Over(i) =>
             \A s \in past[k][n].subjects : s[1] = i[1] => s \in server[k].subjects

\* An event of the object is on its way, which wakes its owner.
Shown(k) == k[1] \in Owned /\ ~Current(k)
\* There is a request for i, or there will be when its informer moves on.
Asked(i) == i \in queued \/ ~Current(Resource(i))
\* The pass at work does what i asks for and has made what it has passed.
InHand(i) ==
  LET cr == server[Resource(i)]
      spec == setDefaultValues(cr.spec) IN
  /\ who = i /\ pc \in {"namespace", "addFinalizer", "apply", "writeCRD"}
  /\ inst.spec = spec /\ (inst.deployed => cr.deployed)
  /\ pc \in {"apply", "writeCRD"} =>
       \A k \in Elements(Calls(i, spec)) \ Resources :
         k \in Elements(todo) \/ Made(i, spec, k) \/ Shown(k)
\* Everything i asks for is made, but for what an event is on its way of.
AtRest(i) ==
  LET cr == server[Resource(i)]
      spec == setDefaultValues(cr.spec) IN
  /\ who # i /\ cr.deployed
  /\ \A k \in Elements(Calls(i, spec)) \ Resources : Made(i, spec, k) \/ Shown(k)
\* Every living resource is asked for, worked on, or has what it asks for.
NoWorkIsLost ==
  OnePerNamespace /\ disturbed \cap Unnoticed = {} =>
    \A i \in Instances : Living(i) => Asked(i) \/ InHand(i) \/ AtRest(i)

\* Why AtRestConverged holds, whatever lags: an object is missing or stale only
\* while a request, a pass or an event that will ask for one knows of it.
WorkProtocol ==
  ObjectTrust /\ GrowTrust /\ CallTrust /\ DeletionTrust /\ BindingTrust /\ NoWorkIsLost
=============================================================================
