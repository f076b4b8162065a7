----------------------- MODULE GatewayConvergenceProofs -----------------------
(***************************************************************************)
(* Proofs about GatewayReconciler: no work is lost, and at rest the        *)
(* cluster is what the gateway asks for.                                   *)
(***************************************************************************)
EXTENDS GatewayLifecycleProofs

---------------------------------------------------------------------------
(* What a step does to one object. *)

ObjectKept(k) == server'[k] = server[k] /\ past'[k] = past[k]

\* A call of the pass writes k or deletes it.
Called(k, obj) ==
  /\ pc = "apply" /\ k = Head(todo) /\ Proceed /\ obj = Mutated(k, server[k], inst)
Deleted(k, obj) ==
  /\ pc = "apply" /\ Proceed /\ obj = Absent
  /\ \/ k = "hpa" /\ Head(todo) = "deleteHPA"
     \/ k = "scaledObject" /\ Head(todo) = "deleteScaledObject"
\* The finalizer's handler takes the subject out of k.
Revoked(k, obj) ==
  /\ pc = "finalize" /\ k = "clusterRoleBinding" /\ server[k] \in Managed /\ obj \in Managed
  /\ obj.owner = server[k].owner /\ obj.rev = server[k].rev
\* The collector, other clients, the autoscaler and the neighbours.
Collected(k, obj) == Orphaned(k) /\ obj = Absent
Lost(k, obj) == "externalDelete" \in DisturbanceKinds /\ k \in Deletable /\ obj = Absent
Scaled(k, obj) ==
  /\ k = "deployment" /\ server[k] \in Managed /\ obj \in Managed
  /\ obj.owner = server[k].owner /\ obj.subjects = server[k].subjects
Shared(k, obj) ==
  /\ k = "clusterRoleBinding" /\ obj \in Managed
  /\ \/ server[k] = Absent /\ obj.owner = NoOwner /\ obj.rev = Fixed
     \/ server[k] \in Managed /\ obj.owner = server[k].owner /\ obj.rev = server[k].rev
  /\ Subject \in obj.subjects <=> Granted
Outside(k, obj) ==
  /\ UNCHANGED pass
  /\ Collected(k, obj) \/ Lost(k, obj) \/ Scaled(k, obj) \/ Shared(k, obj)
ObjectWritten(k, obj) ==
  /\ Store(k, obj)
  /\ Called(k, obj) \/ Deleted(k, obj) \/ Revoked(k, obj) \/ Outside(k, obj)
\* A process that starts over.
Restarted(k) == server' = server /\ past'[k] = <<>> /\ Restart

\* A write of one kind keeps the versions of the others.
LEMMA PutSpares ==
  ASSUME TypeOK, NEW j \in Kinds, NEW obj, Put(j, obj), NEW k \in Kinds, k # j
  PROVE  ObjectKept(k)
BY DEF TypeOK, StoreTypes, Put, ObjectKept

\* So a write of any object keeps k or is the write of k.
LEMMA WriteOrSpare ==
  ASSUME TypeOK, NEW j \in Objects, NEW obj, Store(j, obj), NEW k \in Objects,
         j = k => ObjectWritten(k, obj)
  PROVE  ObjectKept(k) \/ \E o : ObjectWritten(k, o)
BY PutSpares, KindsFacts DEF Store

\* The calls of a pass.
LEMMA CallWrites ==
  ASSUME TypeOK, NEW k \in Objects,
         \/ CreateServiceAccount
         \/ \E j \in Objects \ {"serviceAccount"} : CreateOrUpdate(j)
         \/ DeleteIfExists("deleteHPA", "hpa")
         \/ DeleteIfExists("deleteScaledObject", "scaledObject")
         \/ FindKEDA
  PROVE  ObjectKept(k) \/ \E obj : ObjectWritten(k, obj)
<1>1. CASE UNCHANGED <<server, past>>
  BY <1>1 DEF ObjectKept
<1>2. Requeue \/ NoWrite \/ FindKEDA => UNCHANGED <<server, past>>
  BY DEF Requeue, NoWrite, FindKEDA
<1>3. ASSUME NEW j \in Objects, NEW obj, Store(j, obj), Called(j, obj) \/ Deleted(j, obj)
      PROVE  ObjectKept(k) \/ \E o : ObjectWritten(k, o)
  BY <1>3, WriteOrSpare DEF ObjectWritten
<1>4. CASE CreateServiceAccount /\ ~Requeue /\ ~NoWrite
  <2> DEFINE new == Initial("serviceAccount", inst)
  <2>1. /\ server["serviceAccount"] = Absent /\ Store("serviceAccount", new) /\ Proceed
        /\ pc = "apply" /\ Head(todo) = "serviceAccount"
    BY <1>4 DEF CreateServiceAccount, Calling
  <2>2. new = Mutated("serviceAccount", server["serviceAccount"], inst)
    BY <2>1 DEF Mutated
  <2> HIDE DEF new
  <2>3. Called("serviceAccount", new)
    BY <2>1, <2>2 DEF Called
  <2> QED BY <1>3, <2>1, <2>3, KindsFacts
<1>5. ASSUME NEW j \in Objects, CreateOrUpdate(j), ~Requeue, ~NoWrite
      PROVE  ObjectKept(k) \/ \E obj : ObjectWritten(k, obj)
  <2>1. /\ Store(j, Mutated(j, Cached(j), inst)) /\ Proceed /\ Current(j)
        /\ pc = "apply" /\ Head(todo) = j
    BY <1>5 DEF CreateOrUpdate, Calling
  <2>2. Cached(j) = server[j]
    BY <2>1 DEF Cached
  <2>3. Called(j, Mutated(j, Cached(j), inst))
    BY <2>1, <2>2 DEF Called
  <2> QED BY <1>3, <2>1, <2>3
<1>6. ASSUME DeleteIfExists("deleteHPA", "hpa")
             \/ DeleteIfExists("deleteScaledObject", "scaledObject"), ~NoWrite
      PROVE  ObjectKept(k) \/ \E obj : ObjectWritten(k, obj)
  <2>1. CASE DeleteIfExists("deleteHPA", "hpa")
    BY <1>3, <1>6, <2>1, KindsFacts DEF DeleteIfExists, Calling, Deleted
  <2>2. CASE DeleteIfExists("deleteScaledObject", "scaledObject")
    BY <1>3, <1>6, <2>2, KindsFacts DEF DeleteIfExists, Calling, Deleted
  <2> QED BY <1>6, <2>1, <2>2
<1> QED BY <1>1, <1>2, <1>4, <1>5, <1>6

\* The finalizer's handler.
LEMMA HandlerWrites ==
  ASSUME TypeOK, NEW k \in Objects, FinalizeBinding
  PROVE  ObjectKept(k) \/ \E obj : ObjectWritten(k, obj)
<1> DEFINE b == "clusterRoleBinding"
           new == [server[b] EXCEPT !.subjects = @ \ {Subject}]
<1>1. CASE Requeue
  BY <1>1 DEF Requeue, ObjectKept
<1>2. CASE ~Requeue
  <2>1. Cached(b) # Absent /\ Current(b) /\ Cached(b) = server[b] /\ pc = "finalize"
    BY <1>2 DEF FinalizeBinding, Cached
  <2>2. Store(b, new)
    BY <1>2, <2>1 DEF FinalizeBinding
  <2>3. server[b] \in Managed
    BY <2>1, KindsFacts, VersionsFacts DEF TypeOK, StoreTypes
  <2>4. new \in Managed /\ new.owner = server[b].owner /\ new.rev = server[b].rev
    BY <2>3 DEF Managed
  <2> HIDE DEF new
  <2>5. Revoked(b, new)
    BY <2>1, <2>3, <2>4 DEF Revoked
  <2> QED BY <2>2, <2>5, WriteOrSpare, KindsFacts DEF ObjectWritten
<1> QED BY <1>1, <1>2

\* A neighbour's grant is added to the binding or taken out of it.
LEMMA SharedWrites ==
  ASSUME TypeOK, NEW n \in Neighbours, NeighbourGrants(n) \/ NeighbourRevokes(n)
  PROVE  \E obj : Store("clusterRoleBinding", obj) /\ Shared("clusterRoleBinding", obj)
<1> DEFINE crb == server["clusterRoleBinding"]
           fresh == [owner |-> NoOwner, rev |-> Fixed, replicas |-> 0, subjects |-> {n}]
           more == [crb EXCEPT !.subjects = @ \cup {n}]
           less == [crb EXCEPT !.subjects = @ \ {n}]
<1>1. crb \in {Absent} \cup Managed /\ n # Subject
  BY KindsFacts, VersionsFacts, NeighboursAssumption DEF TypeOK, StoreTypes
<1>2. fresh \in Managed /\ Subject \notin fresh.subjects
      /\ fresh.owner = NoOwner /\ fresh.rev = Fixed
  BY <1>1 DEF Managed, NoOwner, Revs
<1>3. crb # Absent =>
        /\ more \in Managed /\ (Subject \in more.subjects <=> Subject \in crb.subjects)
        /\ more.owner = crb.owner /\ more.rev = crb.rev
        /\ less \in Managed /\ (Subject \in less.subjects <=> Subject \in crb.subjects)
        /\ less.owner = crb.owner /\ less.rev = crb.rev
  BY <1>1 DEF Managed
<1>4. \/ crb = Absent /\ Store("clusterRoleBinding", fresh)
      \/ crb # Absent /\ Store("clusterRoleBinding", more)
      \/ crb # Absent /\ Store("clusterRoleBinding", less)
  BY DEF NeighbourGrants, NeighbourRevokes
<1> HIDE DEF fresh, more, less
<1> QED BY <1>1, <1>2, <1>3, <1>4 DEF Shared, Granted

\* Everybody else.
LEMMA OutsideWrites ==
  ASSUME TypeOK, NEW k \in Objects,
         \/ \E j \in Objects : CollectGarbage(j)
         \/ \E j \in Deletable : ExternalDelete(j)
         \/ \E n \in AutoscaledReplicas : Scale(n)
         \/ \E n \in Neighbours : NeighbourGrants(n) \/ NeighbourRevokes(n)
  PROVE  ObjectKept(k) \/ \E obj : ObjectWritten(k, obj)
<1>1. ASSUME NEW j \in Objects, NEW obj, Store(j, obj), Outside(j, obj)
      PROVE  ObjectKept(k) \/ \E o : ObjectWritten(k, o)
  BY <1>1, WriteOrSpare DEF ObjectWritten
<1>2. CASE \E j \in Objects : CollectGarbage(j)
  BY <1>1, <1>2 DEF CollectGarbage, Outside, Collected
<1>3. CASE \E j \in Deletable : ExternalDelete(j)
  BY <1>1, <1>3, DeletableAssumption DEF ExternalDelete, Disturb, Outside, Lost
<1>4. CASE \E n \in AutoscaledReplicas : Scale(n)
  <2>1. PICK n \in AutoscaledReplicas : Scale(n)
    BY <1>4
  <2> DEFINE old == server["deployment"]
             new == [old EXCEPT !.replicas = n]
  <2>2. old \in Managed /\ n \in Nat /\ Store("deployment", new) /\ UNCHANGED pass
    BY <2>1, KindsFacts, VersionsFacts, ReplicasAssumption DEF Scale, TypeOK, StoreTypes
  <2>3. new \in Managed /\ new.owner = old.owner /\ new.subjects = old.subjects
    BY <2>2 DEF Managed
  <2> HIDE DEF new
  <2>4. Outside("deployment", new)
    BY <2>2, <2>3 DEF Outside, Scaled
  <2> QED BY <1>1, <2>2, <2>4, KindsFacts
<1>5. CASE \E n \in Neighbours : NeighbourGrants(n) \/ NeighbourRevokes(n)
  <2>1. PICK n \in Neighbours : NeighbourGrants(n) \/ NeighbourRevokes(n)
    BY <1>5
  <2>2. UNCHANGED pass
    BY <2>1 DEF NeighbourGrants, NeighbourRevokes
  <2> QED BY <1>1, <2>1, <2>2, SharedWrites, KindsFacts DEF Outside
<1> QED BY <1>2, <1>3, <1>4, <1>5

\* Whatever happens, an object is left alone, listed afresh, shown in its next
\* version, or written in one of the ways above.
LEMMA ObjectStep ==
  ASSUME TypeOK, NEW k \in Objects, [Next]_vars
  PROVE  ObjectKept(k) \/ Restarted(k) \/ Deliver(k) \/ \E obj : ObjectWritten(k, obj)
<1>1. k \in Kinds /\ k # "gateway" /\ "gateway" \in Kinds
  BY KindsFacts
<1>2. CASE UNCHANGED <<server, past>>
  BY <1>2 DEF ObjectKept
<1>3. ASSUME NEW obj, Put("gateway", obj)
      PROVE  ObjectKept(k)
  BY <1>1, <1>3, PutSpares
<1>4. CASE Crash \/ SkywalkingPanic
  BY <1>1, <1>4 DEF Crash, SkywalkingPanic, Restarted, Restart, Relist, TypeOK, StoreTypes
<1>5. CASE Worker /\ ~SkywalkingPanic
  <2>1. CASE RemoveFinalizer \/ AddFinalizer \/ PatchStatus
    BY <1>2, <1>3, <2>1
       DEF RemoveFinalizer, AddFinalizer, PatchStatus, Store, Requeue, NoWrite
  <2>2. CASE DropRequest \/ StartReconcile \/ CheckNamespace \/ NamespaceTerminating
             \/ Reread \/ SkywalkingError
    BY <1>2, <2>2 DEF DropRequest, StartReconcile, CheckNamespace, NamespaceTerminating,
       Reread, SkywalkingError, Requeue, NoWrite
  <2> QED BY <1>5, <2>1, <2>2, CallWrites, HandlerWrites DEF Worker
<1>6. CASE User
  BY <1>3, <1>6 DEF User, CreateGateway, EditSpec, DeleteGateway, WriteGateway, Store
<1>7. CASE Environment /\ ~Crash
  <2>1. ASSUME NEW j \in Kinds, Deliver(j), j # k
        PROVE  ObjectKept(k)
    BY <1>1, <2>1 DEF Deliver, Advance, ObjectKept, TypeOK, StoreTypes
  <2>2. CASE ApiError \/ NamespaceError \/ InstallKEDA \/ TerminateNamespace
    BY <1>2, <2>2 DEF ApiError, NamespaceError, InstallKEDA, TerminateNamespace, NoWrite
  <2> QED BY <1>7, <2>1, <2>2, OutsideWrites DEF Environment
<1>8. CASE Resync \/ UNCHANGED vars
  BY <1>2, <1>8 DEF Resync, vars
<1> QED BY <1>4, <1>5, <1>6, <1>7, <1>8 DEF Next

---------------------------------------------------------------------------
(* What the calls make of an object, and what a write makes of its versions. *)

\* The object obj is what gw asks for of k.
Made(k, obj, gw) ==
  /\ obj # Absent /\ obj.rev = Rendered(k, gw)
  /\ obj.subjects \ Neighbours = Initial(k, gw).subjects
  /\ k = "deployment" /\ ~shouldPreserveReplicas(gw.spec) => obj.replicas = gw.spec.replicas

\* The subjects an object of kind k should have but for the neighbours'.
LEMMA RenderedSubjects ==
  ASSUME NEW k \in Objects, NEW gw
  PROVE  Initial(k, gw).subjects
         = IF k \in {"clusterRoleBinding", "roleBinding"} THEN {Subject} ELSE {}
BY DEF Initial

\* A well-made object of one of these kinds is what every gateway asks for.
LEMMA WellMadeIsMade ==
  ASSUME NEW k \in Rbac \cup {"serviceAccount"}, NEW obj \in Managed, WellMade(k, obj), NEW gw,
         k = "clusterRoleBinding" => Subject \in obj.subjects
  PROVE  Made(k, obj, gw)
<1>1. obj # Absent /\ obj.rev = Fixed /\ Rendered(k, gw) = Fixed /\ k # "deployment"
  BY AbsentAssumption DEF WellMade, Rendered, Rbac
<1>2. obj.subjects \subseteq {Subject} \cup Neighbours /\ Subject \notin Neighbours
  BY NeighboursAssumption DEF Managed
<1>3. k \in {"clusterRoleBinding", "roleBinding"} => Subject \in obj.subjects
  BY <1>1 DEF WellMade
<1>4. k \notin {"clusterRoleBinding", "roleBinding"} => obj.subjects = {}
  BY <1>1 DEF WellMade
<1>5. obj.subjects \ Neighbours
      = IF k \in {"clusterRoleBinding", "roleBinding"} THEN {Subject} ELSE {}
  BY <1>2, <1>3, <1>4
<1>6. k \in Objects
  BY KindsFacts DEF Objects
<1> QED BY <1>1, <1>5, <1>6, RenderedSubjects DEF Made

\* What CreateOrUpdate sends is well made and what the copy asks for.
LEMMA MutatedIsMade ==
  ASSUME NEW k \in Objects, NEW old \in {Absent} \cup Managed, WellMade(k, old),
         NEW gw \in Copies, gw.uid # NoOwner, NEW new, new = Mutated(k, old, gw)
  PROVE  /\ new \in Managed /\ new # Absent /\ WellMade(k, new) /\ Made(k, new, gw)
         /\ k \in {"clusterRoleBinding", "roleBinding"} => Subject \in new.subjects
         /\ new.owner = IF old # Absent THEN old.owner
                        ELSE IF k \in Controlled THEN gw.uid ELSE NoOwner
<1> DEFINE bindings == {"clusterRoleBinding", "roleBinding"}
<1>1. new \in Managed /\ new # Absent
  BY MutatedTyped, AbsentAssumption
<1>2. \A j \in bindings : j \in Rbac /\ j # "deployment" /\ j \notin Controlled
  BY DEF Rbac, Controlled
<1>3. "deployment" \notin Rbac \cup {"serviceAccount"} /\ "deployment" \in Controlled
  BY DEF Rbac, Controlled
<1>4. k \in Rbac \cup {"serviceAccount"} => Rendered(k, gw) = Fixed
  BY DEF Rendered
<1>5. k \notin Rbac \cup {"serviceAccount"} => Rendered(k, gw) = gw.spec.rev
  BY DEF Rendered
<1>6. SUFFICES
        /\ new.rev = Rendered(k, gw)
        /\ new.subjects = IF k \in bindings
                          THEN (IF old = Absent THEN {} ELSE old.subjects) \cup {Subject}
                          ELSE {}
        /\ new.owner = IF old # Absent THEN old.owner
                       ELSE IF k \in Controlled THEN gw.uid ELSE NoOwner
        /\ k = "deployment" /\ ~shouldPreserveReplicas(gw.spec)
             => new.replicas = gw.spec.replicas
  <2>1. Subject \in new.subjects <=> k \in bindings
    BY <1>6
  <2>2. new.owner # NoOwner <=> k \in Controlled
    BY <1>6 DEF WellMade
  <2>3. WellMade(k, new)
    BY <1>4, <1>6, <2>1, <2>2 DEF WellMade
  <2>4. new.subjects \ Neighbours = IF k \in bindings THEN {Subject} ELSE {}
    <3>1. new.subjects \subseteq {Subject} \cup Neighbours /\ Subject \notin Neighbours
      BY <1>1, NeighboursAssumption DEF Managed
    <3> QED BY <1>6, <2>1, <3>1
  <2>5. Made(k, new, gw)
    BY <1>1, <1>6, <2>4, RenderedSubjects DEF Made
  <2> QED BY <1>1, <1>6, <2>1, <2>3, <2>5
<1>7. CASE old = Absent
  BY <1>7 DEF Mutated, Initial
<1>8. CASE old # Absent /\ k = "deployment"
  <2>1. new = updateDeploymentSpec(old, gw) /\ old \in Managed /\ old.subjects = {}
    BY <1>8 DEF Mutated, WellMade
  <2>2. /\ new.rev = gw.spec.rev /\ new.subjects = old.subjects /\ new.owner = old.owner
        /\ ~shouldPreserveReplicas(gw.spec) => new.replicas = gw.spec.replicas
    BY <2>1 DEF updateDeploymentSpec, Managed
  <2> QED BY <1>2, <1>3, <1>5, <1>8, <2>1, <2>2
<1>9. CASE old # Absent /\ k \in bindings
  <2>1. new = [old EXCEPT !.subjects = @ \cup {Subject}] /\ old \in Managed
    BY <1>2, <1>9 DEF Mutated
  <2>2. new.subjects = old.subjects \cup {Subject} /\ new.rev = old.rev
        /\ new.owner = old.owner
    BY <2>1 DEF Managed
  <2>3. old.rev = Rendered(k, gw)
    BY <1>2, <1>4, <1>9 DEF WellMade
  <2> QED BY <1>2, <1>9, <2>2, <2>3
<1>10. CASE old # Absent /\ k \notin bindings \cup {"deployment"}
  <2>1. new = [old EXCEPT !.rev = Rendered(k, gw)] /\ old \in Managed /\ old.subjects = {}
    BY <1>10 DEF Mutated, WellMade
  <2>2. new.subjects = old.subjects /\ new.rev = Rendered(k, gw) /\ new.owner = old.owner
    BY <2>1 DEF Managed
  <2> QED BY <1>10, <2>1, <2>2
<1> QED BY <1>7, <1>8, <1>9, <1>10

\* What a write makes of an object's versions.
LEMMA PutEffect ==
  ASSUME TypeOK, NEW k \in Kinds, NEW obj, Put(k, obj)
  PROVE  /\ server'[k] = obj
         /\ \A i \in 1..Len(past'[k]) :
              \/ past'[k][i] = server[k]
              \/ \E j \in 1..Len(past[k]) : past'[k][i] = past[k][j]
         /\ k \notin Lagging \/ obj = server[k] => past'[k] = past[k]
         /\ k \in Lagging /\ obj # server[k] =>
              past'[k] # <<>> /\ past'[k][Len(past'[k])] = server[k]
<1>1. server'[k] = obj
  BY DEF Put, TypeOK, StoreTypes
<1>2. past[k] \in Seq(AnyVersion) /\ server[k] \in AnyVersion
  BY DEF TypeOK, StoreTypes
<1>3. CASE k \in Lagging /\ obj # server[k]
  <2>1. past'[k] = Append(past[k], server[k])
    BY <1>3 DEF Put, TypeOK, StoreTypes
  <2>2. /\ Len(past'[k]) = Len(past[k]) + 1 /\ Len(past[k]) \in Nat
        /\ past'[k][Len(past'[k])] = server[k]
        /\ \A i \in 1..Len(past[k]) : past'[k][i] = past[k][i]
    BY <1>2, <2>1, AppendProperties, LenProperties
  <2>3. past'[k] # <<>>
    BY <2>2, EmptySeq
  <2>4. ASSUME NEW i \in 1..Len(past'[k])
        PROVE  \/ past'[k][i] = server[k]
               \/ \E j \in 1..Len(past[k]) : past'[k][i] = past[k][j]
    <3>1. i = Len(past'[k]) \/ i \in 1..Len(past[k])
      BY <2>2
    <3> QED BY <2>2, <3>1
  <2> QED BY <1>1, <1>3, <2>2, <2>3, <2>4
<1>4. CASE k \notin Lagging \/ obj = server[k]
  <2>1. past'[k] = past[k]
    BY <1>4 DEF Put
  <2> QED BY <1>1, <1>4, <2>1
<1> QED BY <1>3, <1>4

\* An informer that moves on shows fewer versions, the last among them.
LEMMA DeliverEffect ==
  ASSUME TypeOK, NEW k \in Kinds, Deliver(k)
  PROVE  /\ server' = server /\ past[k] # <<>>
         /\ \A i \in 1..Len(past'[k]) : \E j \in 1..Len(past[k]) : past'[k][i] = past[k][j]
         /\ past'[k] # <<>> => past'[k][Len(past'[k])] = past[k][Len(past[k])]
         /\ past'[k] = <<>> =>
              /\ Cached(k) = past[k][Len(past[k])] /\ NextVersion(k) = server[k]
              /\ Len(past[k]) \in 1..Len(past[k])
<1>1. Advance(k)
  BY DEF Deliver
<1>2. past[k] \in Seq(AnyVersion) /\ past[k] # <<>> /\ past'[k] = Tail(past[k])
  BY <1>1 DEF TypeOK, StoreTypes, Advance, Current
<1>3. /\ Len(past[k]) \in Nat /\ Len(past[k]) # 0 /\ Len(past'[k]) = Len(past[k]) - 1
      /\ \A i \in 1..Len(past'[k]) : past'[k][i] = past[k][i + 1]
      /\ past'[k] \in Seq(AnyVersion) /\ Head(past[k]) = past[k][1]
  BY <1>2, LenProperties, HeadTailProperties, EmptySeq
<1>4. past'[k] # <<>> => past'[k][Len(past'[k])] = past[k][Len(past[k])]
  <2> SUFFICES ASSUME past'[k] # <<>>
               PROVE  past'[k][Len(past'[k])] = past[k][Len(past[k])]
    OBVIOUS
  <2>1. Len(past'[k]) # 0
    BY <1>3, EmptySeq
  <2>2. Len(past'[k]) \in 1..Len(past'[k]) /\ Len(past'[k]) + 1 = Len(past[k])
    BY <1>3, <2>1
  <2> QED BY <1>3, <2>2
<1>5. past'[k] = <<>> => Len(past[k]) = 1
  BY <1>3, EmptySeq
<1>6. \A i \in 1..Len(past'[k]) : i + 1 \in 1..Len(past[k])
  BY <1>3
<1>7. \A i \in 1..Len(past'[k]) : \E j \in 1..Len(past[k]) : past'[k][i] = past[k][j]
  BY <1>3, <1>6
<1> QED BY <1>1, <1>2, <1>3, <1>4, <1>5, <1>7 DEF Advance, Cached, NextVersion, Current

---------------------------------------------------------------------------
(* CallTrust: what the calls of a pass are. *)

\* A list of calls, none but the last of which ends the pass.
EndsOnce(s) == \A n \in 1..(Len(s) - 1) : s[n] \notin LastCalls

\* Lists of calls that do not end the pass may come before one that ends once.
LEMMA ConcatEndsOnce ==
  ASSUME NEW s \in Seq(CallNames), Members(s) \cap LastCalls = {},
         NEW t \in Seq(CallNames), EndsOnce(t), NEW u, Joins(u, s, t)
  PROVE  u \in Seq(CallNames) /\ EndsOnce(u)
<1>1. /\ Len(s) \in Nat /\ Len(t) \in Nat
      /\ u \in Seq(CallNames) /\ Len(u) = Len(s) + Len(t)
      /\ \A n \in 1..Len(s) : u[n] = s[n]
      /\ \A n \in Len(s) + 1..Len(s) + Len(t) : u[n] = t[n - Len(s)]
  BY LenProperties, ConcatProperties DEF Joins
<1>2. ASSUME NEW n \in 1..(Len(u) - 1)
      PROVE  u[n] \notin LastCalls
  <2>1. CASE n <= Len(s)
    BY <1>1, <1>2, <2>1 DEF Members
  <2>2. CASE n > Len(s)
    <3>1. n \in Len(s) + 1..Len(s) + Len(t) /\ n - Len(s) \in 1..(Len(t) - 1)
      BY <1>1, <1>2, <2>2
    <3> QED BY <1>1, <3>1 DEF EndsOnce
  <2> QED BY <1>1, <1>2, <2>1, <2>2
<1> QED BY <1>1, <1>2 DEF EndsOnce

\* The calls before the autoscaler's, and the autoscaler's own.
Preparations(spec) ==
  <<"serviceAccount">> \o RbacCalls(spec) \o ConfigMapCalls(spec) \o <<"deployment">>

\* The calls before the autoscaler are those the spec asks for.
LEMMA PreparationsFacts ==
  ASSUME NEW spec \in DefaultedSpecs
  PROVE  /\ Preparations(spec) \in Seq(CallNames)
         /\ Members(Preparations(spec))
            = {"serviceAccount", "gatewayConfigMap", "deployment"}
              \cup (IF spec.rbac THEN Rbac ELSE {})
              \cup (IF spec.skywalking = "off" THEN {} ELSE {"skywalkingConfigMap"})
<1>1. {"serviceAccount", "clusterRole", "clusterRoleBinding", "role", "roleBinding",
       "gatewayConfigMap", "skywalkingConfigMap", "deployment"} \subseteq CallNames
  BY DEF CallNames, Objects, Controlled, Rbac
<1>2. /\ <<"serviceAccount">> \in Seq(CallNames) /\ <<"deployment">> \in Seq(CallNames)
      /\ Members(<<"serviceAccount">>) = {"serviceAccount"}
      /\ Members(<<"deployment">>) = {"deployment"}
  BY <1>1 DEF Members
<1>3. /\ RbacCalls(spec) \in Seq(CallNames)
      /\ Members(RbacCalls(spec)) = IF spec.rbac THEN Rbac ELSE {}
  <2>1. CASE spec.rbac
    BY <1>1, <2>1 DEF RbacCalls, Members, Rbac
  <2>2. CASE ~spec.rbac
    BY <2>2, EmptySeq DEF RbacCalls, Members
  <2> QED BY <2>1, <2>2
<1>4. /\ ConfigMapCalls(spec) \in Seq(CallNames)
      /\ Members(ConfigMapCalls(spec))
         = {"gatewayConfigMap"}
           \cup (IF spec.skywalking = "off" THEN {} ELSE {"skywalkingConfigMap"})
  BY <1>1 DEF ConfigMapCalls, Members
<1> DEFINE first == <<"serviceAccount">>
           last == <<"deployment">>
           a == first \o RbacCalls(spec)
           b == a \o ConfigMapCalls(spec)
           c == b \o last
<1>5. c = Preparations(spec)
  BY DEF Preparations
<1>6. /\ Joins(a, first, RbacCalls(spec)) /\ Joins(b, a, ConfigMapCalls(spec))
      /\ Joins(c, b, last)
      /\ first \in Seq(CallNames) /\ Members(first) = {"serviceAccount"}
      /\ last \in Seq(CallNames) /\ Members(last) = {"deployment"}
  BY <1>2 DEF Joins
<1> HIDE DEF a, b, c, first, last
<1>7. a \in Seq(CallNames)
      /\ Members(a) = {"serviceAccount"} \cup (IF spec.rbac THEN Rbac ELSE {})
  BY <1>3, <1>6, ConcatMembers
<1>8. b \in Seq(CallNames) /\ Members(b) = Members(a) \cup Members(ConfigMapCalls(spec))
  BY <1>4, <1>6, <1>7, ConcatMembers
<1>9. c \in Seq(CallNames) /\ Members(c) = Members(b) \cup {"deployment"}
  BY <1>6, <1>8, ConcatMembers
<1> QED BY <1>4, <1>5, <1>7, <1>8, <1>9

\* The calls for the autoscaler and after it end with the status or the lookup of KEDA.
LEMMA AutoscalerCallsFacts ==
  ASSUME NEW mode \in AutoScalingModes
  PROVE  /\ AutoscalerCalls(mode) \in Seq(CallNames) /\ EndsOnce(AutoscalerCalls(mode))
         /\ Members(AutoscalerCalls(mode))
            = IF mode = "Disabled" THEN {"deleteHPA", "deleteScaledObject", "service", "patchStatus"}
              ELSE IF mode = "NativeHPA"
              THEN {"deleteScaledObject", "hpa", "service", "patchStatus"}
              ELSE {"deleteHPA", "findKEDA"}
<1>1. {"deleteHPA", "deleteScaledObject", "service", "hpa", "findKEDA", "patchStatus"}
      \subseteq CallNames
  BY DEF CallNames, Objects, Controlled
<1>2. CASE mode = "Disabled"
  BY <1>1, <1>2 DEF AutoscalerCalls, EndsOnce, Members, LastCalls
<1>3. CASE mode = "NativeHPA"
  BY <1>1, <1>3 DEF AutoscalerCalls, EndsOnce, Members, LastCalls
<1>4. CASE mode = "KEDA"
  BY <1>1, <1>4 DEF AutoscalerCalls, EndsOnce, Members, LastCalls
<1> QED BY <1>2, <1>3, <1>4 DEF AutoScalingModes

\* The calls of a pass: those of a spec that is refused, and of one that is not.
LEMMA CallsMeaning ==
  ASSUME NEW spec \in DefaultedSpecs
  PROVE  /\ EndsOnce(Calls(spec))
         /\ ~Valid(spec) =>
              Members(Calls(spec)) = {"deleteHPA", "deleteScaledObject", "patchStatus"}
         /\ Valid(spec) =>
              Members(Calls(spec)) = Members(Preparations(spec))
                                     \cup Members(AutoscalerCalls(getEffectiveScaleMode(spec)))
<1>1. CASE ~Valid(spec)
  BY <1>1 DEF Calls, EndsOnce, Members, LastCalls
<1>2. CASE Valid(spec)
  <2> DEFINE before == Preparations(spec)
             after == AutoscalerCalls(getEffectiveScaleMode(spec))
  <2>1. before \in Seq(CallNames)
    BY PreparationsFacts
  <2>2. Members(before) \cap LastCalls = {}
    BY PreparationsFacts DEF LastCalls, Rbac
  <2>3. after \in Seq(CallNames) /\ EndsOnce(after)
    BY ModeTyped, AutoscalerCallsFacts DEF DefaultedSpecs
  <2>4. Joins(Calls(spec), before, after)
    BY <1>2 DEF Calls, Preparations, Joins
  <2> HIDE DEF before, after
  <2>5. EndsOnce(Calls(spec)) /\ Members(Calls(spec)) = Members(before) \cup Members(after)
    BY <2>1, <2>2, <2>3, <2>4, ConcatEndsOnce, ConcatMembers
  <2> QED BY <1>2, <2>5 DEF before, after
<1> QED BY <1>1, <1>2

\* What the calls left, the spec they are for, what the pass found of KEDA and what
\* is installed have to do with each other.
CallsFit(calls, spec, found, installed) ==
  LET mode == IF Valid(spec) THEN getEffectiveScaleMode(spec) ELSE "" IN
  /\ "hpa" \in calls => mode = "NativeHPA"
  /\ "deleteHPA" \in calls => mode # "NativeHPA"
  /\ "scaledObject" \in calls => mode = "KEDA" /\ installed
  /\ "deleteScaledObject" \in calls => mode # "KEDA"
  /\ "findKEDA" \in calls => mode = "KEDA"
  /\ mode = "KEDA" => "findKEDA" \in calls \/ found = installed

\* CallTrust says that the calls left fit the spec.
LEMMA CallTrustFits ==
  CallTrust <=> (pc = "apply" => EndsOnce(todo) /\ CallsFit(CallsLeft, inst.spec, kedaFound, keda))
BY DEF CallTrust, CallsFit, EndsOnce

\* The calls a pass begins with fit.
LEMMA FirstCallsFit ==
  ASSUME NEW spec \in DefaultedSpecs, NEW found, NEW installed
  PROVE  CallsFit(Members(Calls(spec)), spec, found, installed)
<1> DEFINE mode == getEffectiveScaleMode(spec)
<1>1. mode \in AutoScalingModes
  BY ModeTyped DEF DefaultedSpecs
<1>2. CASE ~Valid(spec)
  BY <1>2, CallsMeaning DEF CallsFit
<1>3. CASE Valid(spec)
  <2>1. Members(Preparations(spec)) \cap
          {"hpa", "deleteHPA", "scaledObject", "deleteScaledObject", "findKEDA"} = {}
    BY PreparationsFacts DEF Rbac
  <2>2. Members(Calls(spec)) = Members(Preparations(spec)) \cup Members(AutoscalerCalls(mode))
    BY <1>3, CallsMeaning
  <2> HIDE DEF mode
  <2>3. /\ "hpa" \in Members(AutoscalerCalls(mode)) => mode = "NativeHPA"
        /\ "deleteHPA" \in Members(AutoscalerCalls(mode)) => mode # "NativeHPA"
        /\ "scaledObject" \notin Members(AutoscalerCalls(mode))
        /\ "deleteScaledObject" \in Members(AutoscalerCalls(mode)) => mode # "KEDA"
        /\ "findKEDA" \in Members(AutoscalerCalls(mode)) => mode = "KEDA"
        /\ mode = "KEDA" => "findKEDA" \in Members(AutoscalerCalls(mode))
    BY <1>1, AutoscalerCallsFacts DEF AutoScalingModes
  <2> QED BY <1>3, <2>1, <2>2, <2>3 DEF CallsFit, mode
<1> QED BY <1>2, <1>3

\* How a pass comes to its calls, and what it does with the list.
LEMMA CallsMove ==
  ASSUME TypeOK, [Next]_vars, pc' = "apply"
  PROVE  \/ pc = "apply" /\ UNCHANGED <<todo, inst, kedaFound>>
         \/ pc \in {"namespace", "reread"} /\ inst' \in Copies /\ todo' = Calls(inst'.spec)
         \/ pc = "apply" /\ Proceed /\ Head(todo) \notin LastCalls
         \/ FindKEDA
<1>1. ~EndPass /\ ~Requeue
  BY DEF EndPass, Requeue
<1>2. CASE UNCHANGED <<pc, todo, inst, kedaFound>>
  BY <1>2
<1>3. CASE Proceed /\ pc = "apply" /\ Head(todo) \in Objects \cup {"deleteHPA", "deleteScaledObject"}
  BY <1>3 DEF LastCalls, Objects, Controlled, Rbac
<1>4. CASE CheckNamespace
  BY <1>4, CopyOfPass DEF CheckNamespace, BeginCalls
<1>5. CASE Reread
  <2> DEFINE gw == Cached("gateway")
  <2>1. gw \in {Absent} \cup Gateways
    BY CachedTyped, KindsFacts, VersionsFacts DEF TypeOK
  <2>2. gw # Absent /\ inst' = WithDefaults(gw) /\ todo' = Calls(inst'.spec) /\ pc = "reread"
    BY <1>1, <1>5 DEF Reread, BeginCalls
  <2> HIDE DEF gw
  <2> QED BY <2>1, <2>2, DefaultsTyped
<1>6. CASE Worker /\ ~CheckNamespace /\ ~Reread /\ ~FindKEDA
  <2>1. ~(StartReconcile \/ FinalizeBinding \/ RemoveFinalizer \/ NamespaceTerminating
          \/ AddFinalizer \/ SkywalkingError \/ SkywalkingPanic \/ PatchStatus)
    BY <1>1 DEF StartReconcile, FinalizeBinding, RemoveFinalizer, NamespaceTerminating,
       AddFinalizer, SkywalkingError, SkywalkingPanic, Restart, PatchStatus
  <2>2. CASE DropRequest
    BY <1>2, <2>2 DEF DropRequest, pass
  <2>3. CASE CreateServiceAccount
    BY <1>1, <1>3, <2>3, KindsFacts DEF CreateServiceAccount, Calling
  <2>4. CASE \E k \in Objects \ {"serviceAccount"} : CreateOrUpdate(k)
    BY <1>1, <1>3, <2>4 DEF CreateOrUpdate, Calling
  <2>5. CASE DeleteIfExists("deleteHPA", "hpa")
             \/ DeleteIfExists("deleteScaledObject", "scaledObject")
    BY <1>3, <2>5 DEF DeleteIfExists, Calling
  <2> QED BY <1>6, <2>1, <2>2, <2>3, <2>4, <2>5 DEF Worker
<1>7. CASE User
  BY <1>2, <1>7 DEF User, CreateGateway, EditSpec, DeleteGateway, WriteGateway
<1>8. CASE Environment
  BY <1>1, <1>2, <1>8 DEF Environment, Deliver, CollectGarbage, ExternalDelete, Scale,
     NeighbourGrants, NeighbourRevokes, Crash, Restart, ApiError, NamespaceError, InstallKEDA,
     TerminateNamespace, pass
<1>9. CASE Resync \/ UNCHANGED vars
  BY <1>2, <1>9 DEF Resync, vars, pass
<1> QED BY <1>4, <1>5, <1>6, <1>7, <1>8, <1>9 DEF Next, Worker

\* KEDA is installed from the start or never.
LEMMA KEDAKept ==
  ASSUME EverythingIsTold, [Next]_vars
  PROVE  keda' = keda
<1>1. ~InstallKEDA
  BY DEF EverythingIsTold, InstallKEDA, Disturb
<1>2. CASE Worker
  <2>1. ASSUME UNCHANGED cluster
        PROVE  keda' = keda
    BY <2>1 DEF cluster
  <2>2. CASE DropRequest \/ StartReconcile \/ FinalizeBinding \/ RemoveFinalizer
             \/ CheckNamespace \/ NamespaceTerminating \/ AddFinalizer \/ Reread
    BY <2>1, <2>2 DEF DropRequest, StartReconcile, FinalizeBinding, RemoveFinalizer,
       CheckNamespace, NamespaceTerminating, AddFinalizer, Reread, Requeue, cluster
  <2>3. CASE \/ CreateServiceAccount \/ \E k \in Objects \ {"serviceAccount"} : CreateOrUpdate(k)
             \/ DeleteIfExists("deleteHPA", "hpa")
             \/ DeleteIfExists("deleteScaledObject", "scaledObject")
             \/ FindKEDA \/ SkywalkingError \/ SkywalkingPanic \/ PatchStatus
    BY <2>1, <2>3 DEF CreateServiceAccount, CreateOrUpdate, DeleteIfExists, FindKEDA,
       SkywalkingError, SkywalkingPanic, PatchStatus, Requeue, cluster
  <2> QED BY <1>2, <2>2, <2>3 DEF Worker
<1>3. CASE User
  BY <1>3 DEF User, CreateGateway, EditSpec, DeleteGateway, cluster
<1>4. CASE Environment
  BY <1>1, <1>4 DEF Environment, Deliver, CollectGarbage, ExternalDelete, Scale,
     NeighbourGrants, NeighbourRevokes, Crash, ApiError, NamespaceError, TerminateNamespace,
     cluster
<1>5. CASE Resync \/ UNCHANGED vars
  BY <1>5 DEF Resync, vars, cluster
<1> QED BY <1>2, <1>3, <1>4, <1>5 DEF Next

\* At the lookup of KEDA no other call is left.
LEMMA LastCallIsAlone ==
  ASSUME TypeOK, CallTrust, pc = "apply", Head(todo) \in LastCalls
  PROVE  CallsLeft = {Head(todo)}
<1>1. todo \in Seq(CallNames) /\ todo # <<>>
  BY DEF TypeOK, PassTypes
<1>2. Len(todo) \in Nat /\ Len(todo) # 0 /\ Head(todo) = todo[1]
  BY <1>1, EmptySeq, LenProperties, HeadTailProperties
<1>3. 1 \notin 1..(Len(todo) - 1)
  BY <1>2 DEF CallTrust
<1>4. Len(todo) = 1
  <2>1. \A n \in Nat : n # 0 /\ n # 1 => 1 \in 1..(n - 1)
    OBVIOUS
  <2> QED BY <1>2, <1>3, <2>1
<1> QED BY <1>2, <1>4 DEF CallsLeft

\* What the lookup of KEDA leaves to be done.
LEMMA FoundCalls ==
  ASSUME FindKEDA
  PROVE  /\ EndsOnce(todo') /\ kedaFound' = keda
         /\ CallsLeft' = (IF keda THEN {"scaledObject"} ELSE {}) \cup {"service", "patchStatus"}
<1>1. CASE keda
  BY <1>1 DEF FindKEDA, EndsOnce, LastCalls, CallsLeft
<1>2. CASE ~keda
  BY <1>2 DEF FindKEDA, EndsOnce, LastCalls, CallsLeft
<1> QED BY <1>1, <1>2

\* Every step keeps the calls left fitting the spec: a call is only passed, and
\* the lookup of KEDA adds the ScaledObject only if KEDA is installed.
LEMMA CallTrustStep ==
  ASSUME TypeOK, EverythingIsTold, CallTrust, [Next]_vars
  PROVE  CallTrust'
<1> SUFFICES ASSUME pc' = "apply"
             PROVE  EndsOnce(todo')
                    /\ CallsFit(CallsLeft', inst'.spec, kedaFound', keda)
  BY KEDAKept, CallTrustFits DEF CallTrust, CallsFit, EndsOnce
<1>1. CASE pc = "apply" /\ UNCHANGED <<todo, inst, kedaFound>>
  BY <1>1, CallTrustFits DEF CallsLeft
<1>2. CASE inst' \in Copies /\ todo' = Calls(inst'.spec)
  <2>1. inst'.spec \in DefaultedSpecs
    BY <1>2 DEF Copies
  <2>2. CallsLeft' = Members(Calls(inst'.spec))
    BY <1>2 DEF CallsLeft, Members
  <2> QED BY <1>2, <2>1, <2>2, FirstCallsFit, CallsMeaning
<1>3. CASE pc = "apply" /\ Proceed /\ Head(todo) \notin LastCalls
  <2>1. todo \in Seq(CallNames) /\ todo # <<>> /\ todo' = Tail(todo)
        /\ EndsOnce(todo) /\ CallsFit(CallsLeft, inst.spec, kedaFound, keda)
    BY <1>3, CallTrustFits DEF TypeOK, PassTypes, Proceed
  <2>2. CallsLeft' \subseteq CallsLeft /\ \A c \in CallsLeft : c = Head(todo) \/ c \in CallsLeft'
    BY <2>1, HeadAndTail DEF CallsLeft
  <2>3. CallsFit(CallsLeft', inst.spec, kedaFound, keda)
    BY <1>3, <2>1, <2>2 DEF CallsFit, LastCalls
  <2>4. /\ Len(todo) \in Nat /\ Len(Tail(todo)) = Len(todo) - 1
        /\ \A n \in 1..Len(Tail(todo)) : Tail(todo)[n] = todo[n + 1]
    BY <2>1, LenProperties, HeadTailProperties
  <2>5. ASSUME NEW n \in 1..(Len(Tail(todo)) - 1)
        PROVE  Tail(todo)[n] \notin LastCalls
    <3>1. n \in 1..Len(Tail(todo)) /\ n + 1 \in 1..(Len(todo) - 1)
      BY <2>4
    <3> QED BY <2>1, <2>4, <3>1 DEF EndsOnce
  <2> QED BY <1>3, <2>1, <2>3, <2>5 DEF EndsOnce, Proceed
<1>4. CASE FindKEDA
  <2>1. pc = "apply" /\ Head(todo) = "findKEDA" /\ inst' = inst
    BY <1>4 DEF FindKEDA, Calling
  <2>2. "findKEDA" \in CallsLeft
    BY <2>1, LastCallIsAlone DEF LastCalls
  <2>3. (IF Valid(inst.spec) THEN getEffectiveScaleMode(inst.spec) ELSE "") = "KEDA"
    BY <2>1, <2>2 DEF CallTrust
  <2> QED BY <1>4, <2>1, <2>3, FoundCalls DEF CallsFit
<1> QED BY <1>1, <1>2, <1>3, <1>4, CallsMove

---------------------------------------------------------------------------
(* ObjectTrust, ReadTrust and GrowTrust: owners, and what stays the same. *)

\* A pass at its calls works for an incarnation that has a uid.
LEMMA CallerHasUid ==
  ASSUME TypeOK, FinalizerProtocol, UidTrust, pc = "apply"
  PROVE  inst \in Copies /\ inst.uid = lastUid /\ lastUid # 0 /\ inst.uid # NoOwner
BY CopyOfPass DEF FinalizerProtocol, PassTrust, Protected, UidTrust, NoOwner

\* Whoever writes an object leaves it well made.
LEMMA WrittenWellMade ==
  ASSUME TypeOK, FinalizerProtocol, UidTrust, NEW k \in Objects, WellMade(k, server[k]),
         NEW obj, ObjectWritten(k, obj)
  PROVE  WellMade(k, obj)
<1>1. server[k] \in {Absent} \cup Managed
  BY KindsFacts, VersionsFacts DEF TypeOK, StoreTypes
<1>2. CASE Called(k, obj)
  BY <1>1, <1>2, CallerHasUid, MutatedIsMade DEF Called
<1>3. CASE obj = Absent
  BY <1>3 DEF WellMade
<1>4. CASE Revoked(k, obj)
  <2>1. server[k] # Absent /\ k \in Rbac /\ k # "roleBinding"
    BY <1>4, AbsentAssumption DEF Revoked, Rbac
  <2> QED BY <1>4, <2>1 DEF Revoked, WellMade
<1>5. CASE Scaled(k, obj)
  <2>1. server[k] # Absent /\ k \notin Rbac \cup {"serviceAccount"}
    BY <1>5, AbsentAssumption DEF Scaled, Rbac
  <2> QED BY <1>5, <2>1 DEF Scaled, WellMade, Rbac
<1>6. CASE Shared(k, obj)
  <2>1. k \in Rbac /\ k # "roleBinding" /\ k \notin Controlled
    BY <1>6 DEF Shared, Rbac, Controlled
  <2>2. server[k] \in Managed => server[k] # Absent
    BY AbsentAssumption
  <2> QED BY <1>6, <2>1, <2>2 DEF Shared, WellMade
<1> QED BY <1>2, <1>3, <1>4, <1>5, <1>6
        DEF ObjectWritten, Outside, Deleted, Collected, Lost

\* Every step keeps every version of an object well made.
LEMMA ObjectTrustStep ==
  ASSUME TypeOK, FinalizerProtocol, UidTrust, ReadTrust, ObjectTrust, [Next]_vars
  PROVE  ObjectTrust'
<1> SUFFICES ASSUME NEW k \in Objects
             PROVE  /\ WellMade(k, server'[k])
                    /\ \A i \in 1..Len(past'[k]) : WellMade(k, past'[k][i])
                    /\ past'[k] # <<>> => past'[k][Len(past'[k])] # server'[k]
  BY DEF ObjectTrust, WellMade, Current
<1>1. /\ WellMade(k, server[k]) /\ \A i \in 1..Len(past[k]) : WellMade(k, past[k][i])
      /\ past[k] # <<>> => past[k][Len(past[k])] # server[k]
      /\ k \in Kinds
  BY KindsFacts DEF ObjectTrust, Current
<1>2. CASE ObjectKept(k)
  BY <1>1, <1>2 DEF ObjectKept
<1>3. CASE Restarted(k)
  <2>1. Len(past'[k]) = 0 /\ 1..0 = {}
    BY <1>3, EmptySeq DEF Restarted
  <2> QED BY <1>1, <1>3, <2>1 DEF Restarted
<1>4. CASE Deliver(k)
  BY <1>1, <1>4, DeliverEffect
<1>5. ASSUME NEW obj, ObjectWritten(k, obj)
      PROVE  /\ WellMade(k, server'[k])
             /\ \A i \in 1..Len(past'[k]) : WellMade(k, past'[k][i])
             /\ past'[k] # <<>> => past'[k][Len(past'[k])] # server'[k]
  <2>1. Put(k, obj) /\ WellMade(k, obj)
    BY <1>1, <1>5, WrittenWellMade DEF ObjectWritten, Store
  <2>2. k \notin Lagging => past[k] = <<>>
    BY <1>1 DEF ReadTrust, Current
  <2> QED BY <1>1, <2>1, <2>2, PutEffect
<1> QED BY <1>2, <1>3, <1>4, <1>5, ObjectStep

\* What a step does to the gateway and its informer.
LEMMA GatewayStep ==
  ASSUME TypeOK, [Next]_vars
  PROVE  \/ ObjectKept("gateway") \/ Restarted("gateway") \/ Deliver("gateway")
         \/ \E obj : Store("gateway", obj)
<1>1. CASE UNCHANGED <<server, past>>
  BY <1>1 DEF ObjectKept
<1>2. ASSUME NEW j \in Objects, NEW obj, Put(j, obj)
      PROVE  ObjectKept("gateway")
  BY <1>2, PutSpares, KindsFacts
<1>3. CASE Crash \/ SkywalkingPanic
  BY <1>3, KindsFacts
     DEF Crash, SkywalkingPanic, Restarted, Restart, Relist, TypeOK, StoreTypes
<1>4. CASE Worker /\ ~SkywalkingPanic
  <2>1. CASE RemoveFinalizer \/ AddFinalizer \/ PatchStatus
    BY <1>1, <2>1 DEF RemoveFinalizer, AddFinalizer, PatchStatus, Requeue, NoWrite
  <2>2. CASE DropRequest \/ StartReconcile \/ CheckNamespace \/ NamespaceTerminating
             \/ Reread \/ SkywalkingError \/ FindKEDA
    BY <1>1, <2>2 DEF DropRequest, StartReconcile, CheckNamespace, NamespaceTerminating,
       Reread, SkywalkingError, FindKEDA, Requeue, NoWrite
  <2>3. CASE FinalizeBinding \/ CreateServiceAccount
    BY <1>1, <1>2, <2>3, KindsFacts
       DEF FinalizeBinding, CreateServiceAccount, Requeue, NoWrite, Store
  <2>4. CASE \E k \in Objects \ {"serviceAccount"} : CreateOrUpdate(k)
    BY <1>1, <1>2, <2>4 DEF CreateOrUpdate, Requeue, NoWrite, Store
  <2>5. CASE DeleteIfExists("deleteHPA", "hpa")
             \/ DeleteIfExists("deleteScaledObject", "scaledObject")
    BY <1>1, <1>2, <2>5, KindsFacts DEF DeleteIfExists, NoWrite, Store
  <2> QED BY <1>4, <2>1, <2>2, <2>3, <2>4, <2>5 DEF Worker
<1>5. CASE User
  BY <1>5 DEF User, CreateGateway, EditSpec, DeleteGateway, WriteGateway
<1>6. CASE Environment /\ ~Crash
  <2>1. ASSUME NEW j \in Kinds, Deliver(j), j # "gateway"
        PROVE  ObjectKept("gateway")
    BY <2>1, KindsFacts DEF Deliver, Advance, ObjectKept, TypeOK, StoreTypes
  <2>2. CASE ApiError \/ NamespaceError \/ InstallKEDA \/ TerminateNamespace
    BY <1>1, <2>2 DEF ApiError, NamespaceError, InstallKEDA, TerminateNamespace, NoWrite
  <2>3. CASE \/ \E j \in Objects : CollectGarbage(j)
             \/ \E j \in Deletable : ExternalDelete(j)
    BY <1>2, <2>3, DeletableAssumption DEF CollectGarbage, ExternalDelete, Store
  <2>4. CASE \/ \E n \in AutoscaledReplicas : Scale(n)
             \/ \E n \in Neighbours : NeighbourGrants(n) \/ NeighbourRevokes(n)
    BY <1>2, <2>4, KindsFacts DEF Scale, NeighbourGrants, NeighbourRevokes, Store
  <2> QED BY <1>6, <2>1, <2>2, <2>3, <2>4 DEF Environment
<1>7. CASE Resync \/ UNCHANGED vars
  BY <1>1, <1>7 DEF Resync, vars
<1> QED BY <1>3, <1>4, <1>5, <1>6, <1>7 DEF Next

\* No step makes a kind lag that does not.
LEMMA ReadTrustStep ==
  ASSUME TypeOK, ReadTrust, [Next]_vars
  PROVE  ReadTrust'
<1> SUFFICES ASSUME NEW k \in Kinds, k \notin Lagging
             PROVE  past'[k] = <<>>
  BY DEF ReadTrust, Current
<1>1. past[k] = <<>>
  BY DEF ReadTrust, Current
<1>2. ObjectKept(k) \/ Restarted(k) \/ Deliver(k) \/ \E obj : Store(k, obj)
  BY ObjectStep, GatewayStep DEF ObjectWritten, Kinds
<1>3. ~Deliver(k)
  BY <1>1 DEF Deliver, Advance, Current
<1> QED BY <1>1, <1>2, <1>3, PutEffect DEF ObjectKept, Restarted, Store

\* Nobody takes away what is outside Told but for a ScaledObject.
LEMMA UntoldStays ==
  ASSUME TypeOK, EverythingIsTold, NEW k \in Objects, k \notin Controlled,
         WellMade(k, server[k]), server[k] # Absent, NEW obj, ObjectWritten(k, obj)
  PROVE  obj # Absent /\ ~Collected(k, obj) /\ ~Lost(k, obj) /\ ~Deleted(k, obj)
<1>1. ~Deleted(k, obj) /\ ~Scaled(k, obj)
  BY DEF Deleted, Scaled, Controlled
<1>2. ~Collected(k, obj)
  BY DEF Collected, Orphaned, WellMade
<1>3. ~Lost(k, obj)
  BY DEF Lost, EverythingIsTold, Told
<1>4. Called(k, obj) => obj # Absent
  <2> SUFFICES ASSUME Called(k, obj)
               PROVE  obj # Absent
    OBVIOUS
  <2>1. inst \in Copies /\ server[k] \in {Absent} \cup Managed
    BY CopyOfPass, KindsFacts, VersionsFacts DEF Called, TypeOK, StoreTypes
  <2> QED BY <2>1, MutatedTyped, AbsentAssumption DEF Called
<1>5. Revoked(k, obj) \/ Shared(k, obj) => obj # Absent
  BY AbsentAssumption DEF Revoked, Shared
<1> QED BY <1>1, <1>2, <1>3, <1>4, <1>5 DEF ObjectWritten, Outside

\* No step takes away what nobody deletes.
LEMMA GrowTrustStep ==
  ASSUME TypeOK, EverythingIsTold, ObjectTrust, GrowTrust, [Next]_vars
  PROVE  GrowTrust'
<1> SUFFICES ASSUME NEW k \in {"clusterRole", "role", "roleBinding"},
                    NEW i \in 1..Len(past'[k]), past'[k][i] # Absent
             PROVE  server'[k] # Absent
  BY DEF GrowTrust
<1>1. k \in Objects /\ k \in Kinds /\ k \notin Controlled
  BY DEF Kinds, Objects, Controlled, Rbac
<1>2. WellMade(k, server[k])
      /\ \A n \in 1..Len(past[k]) : past[k][n] # Absent => server[k] # Absent
  BY <1>1 DEF ObjectTrust, GrowTrust
<1>3. CASE ObjectKept(k)
  BY <1>2, <1>3 DEF ObjectKept
<1>4. CASE Restarted(k)
  <2>1. Len(past'[k]) = 0 /\ 1..0 = {}
    BY <1>4, EmptySeq DEF Restarted
  <2> QED BY <2>1
<1>5. CASE Deliver(k)
  BY <1>1, <1>2, <1>5, DeliverEffect
<1>6. ASSUME NEW obj, ObjectWritten(k, obj)
      PROVE  server'[k] # Absent
  <2>1. /\ server'[k] = obj
        /\ past'[k][i] = server[k] \/ \E j \in 1..Len(past[k]) : past'[k][i] = past[k][j]
    BY <1>1, <1>6, PutEffect DEF ObjectWritten, Store
  <2>2. server[k] # Absent
    BY <1>2, <2>1
  <2> QED BY <1>1, <1>2, <1>6, <2>1, <2>2, UntoldStays
<1> QED BY <1>1, <1>3, <1>4, <1>5, <1>6, ObjectStep

---------------------------------------------------------------------------
(* UidTrust and DeletionTrust: the incarnations of the gateway. *)

\* Only the creation of a gateway uses up a uid.
LEMMA UidsMove ==
  ASSUME TypeOK, FinalizerProtocol, [Next]_vars
  PROVE  lastUid' = lastUid \/ \E spec \in Specs : CreateGateway(spec)
<1>1. CASE SparesGateway
  BY <1>1 DEF SparesGateway
<1>2. CASE User
  BY <1>2 DEF User, EditSpec, DeleteGateway, cluster
<1>3. CASE Worker /\ WritesGateway
  <2>1. PICK obj : Written(Gateway, obj) /\ inst' \in {inst, Absent}
    BY <1>3 DEF WritesGateway
  <2>2. CASE RemoveFinalizer \/ AddFinalizer \/ PatchStatus
    BY <2>2 DEF RemoveFinalizer, AddFinalizer, PatchStatus, Requeue, cluster
  <2>3. CASE SkywalkingError \/ SkywalkingPanic
    BY <2>3 DEF SkywalkingError, SkywalkingPanic, Requeue, cluster
  <2>4. CASE ~(RemoveFinalizer \/ AddFinalizer \/ PatchStatus \/ SkywalkingError \/ SkywalkingPanic)
    <3>1. SparesGateway
      BY <1>3, <2>4, CallsSpare, BeginningSpares DEF Worker
    <3> QED BY <3>1 DEF SparesGateway
  <2> QED BY <2>2, <2>3, <2>4
<1>4. CASE Environment \/ Resync
  BY <1>4, EnvironmentSpares DEF SparesGateway
<1>5. CASE UNCHANGED vars
  BY <1>5 DEF vars, cluster
<1> QED BY <1>1, <1>2, <1>3, <1>4, <1>5, StepKinds DEF Next

\* With one incarnation to come there was none before.
LEMMA FirstIsOnly ==
  ASSUME TypeOK, NEW spec, CreateGateway(spec), MaxUid = 1
  PROVE  lastUid = 0
BY DEF TypeOK, ClusterTypes, CreateGateway

\* What becomes of the gateway's uid.
LEMMA UidOfGateway ==
  ASSUME TypeOK, FinalizerProtocol, UidTrust, [Next]_vars
  PROVE  Gateway' # Absent => Gateway'.uid = lastUid' /\ lastUid' # 0
<1>1. CASE SparesGateway
  BY <1>1 DEF SparesGateway, UidTrust
<1>2. CASE WritesGateway
  <2>1. PICK obj : Put("gateway", obj) /\ Written(Gateway, obj)
    BY <1>2 DEF WritesGateway
  <2>2. Gateway' = obj
    BY <2>1, PutGatewayEffect
  <2>3. lastUid \in Nat
    BY DEF TypeOK, ClusterTypes
  <2>4. CASE Created(Gateway, obj)
    BY <2>2, <2>3, <2>4 DEF Created
  <2>5. CASE Rewritten(Gateway, obj)
    BY <2>2, <2>5 DEF Rewritten, UidTrust
  <2>6. CASE Removed(Gateway, obj)
    BY <2>2, <2>6 DEF Removed
  <2> QED BY <2>1, <2>4, <2>5, <2>6
          DEF Written, Edited, Reported, GivenFinalizer, MarkedDeleted
<1> QED BY <1>1, <1>2, StepKinds

\* Every step keeps the server's gateway, and its ScaledObject, of the latest incarnation.
LEMMA UidTrustStep ==
  ASSUME TypeOK, FinalizerProtocol, EverythingIsTold, UidTrust, ObjectTrust, CallTrust,
         [Next]_vars
  PROVE  UidTrust'
<1> DEFINE k == "scaledObject"
<1>1. keda' = keda /\ keda \in InitialKEDA
  BY KEDAKept DEF UidTrust
<1> SUFFICES ASSUME server'[k] # Absent
             PROVE  keda /\ server'[k].owner = lastUid' /\ lastUid' # 0
  BY <1>1, UidOfGateway DEF UidTrust
<1>2. k \in Objects /\ k \in Kinds /\ k \in Controlled
  BY KindsFacts DEF Controlled
<1>3. server[k] # Absent => keda /\ server[k].owner = lastUid /\ lastUid # 0
  BY DEF UidTrust
<1>4. CASE server'[k] = server[k]
  <2>1. keda /\ server[k].owner = lastUid /\ lastUid # 0
    BY <1>3, <1>4
  <2>2. ~\E spec \in Specs : CreateGateway(spec)
    BY <1>1, <2>1, FirstIsOnly DEF EverythingIsTold
  <2>3. lastUid' = lastUid
    BY <2>2, UidsMove
  <2> QED BY <1>4, <2>1, <2>3
<1>5. ASSUME NEW obj, ObjectWritten(k, obj), server'[k] # server[k]
      PROVE  keda /\ server'[k].owner = lastUid' /\ lastUid' # 0
  <2>1. server'[k] = obj
    BY <1>2, <1>5, PutEffect DEF ObjectWritten, Store
  <2>2. Called(k, obj)
    BY <1>5, <2>1 DEF ObjectWritten, Deleted, Revoked, Outside, Collected, Lost, Scaled, Shared
  <2>3. pc = "apply" /\ k = Head(todo) /\ obj = Mutated(k, server[k], inst) /\ inst' = inst
    BY <2>2 DEF Called, Proceed
  <2>4. inst \in Copies /\ inst.uid = lastUid /\ lastUid # 0 /\ inst.uid # NoOwner
    BY <2>3, CallerHasUid
  <2>5. server[k] \in {Absent} \cup Managed /\ WellMade(k, server[k])
    BY <1>2, VersionsFacts DEF TypeOK, StoreTypes, ObjectTrust
  <2>6. obj.owner = IF server[k] # Absent THEN server[k].owner ELSE inst.uid
    BY <1>2, <2>3, <2>4, <2>5, MutatedIsMade
  <2>7. keda
    <3>1. todo \in Seq(CallNames) /\ todo # <<>>
      BY <2>3 DEF TypeOK, PassTypes
    <3>2. 1 \in 1..Len(todo) /\ Head(todo) = todo[1]
      BY <3>1
    <3>3. k \in CallsLeft
      BY <2>3, <3>2 DEF CallsLeft
    <3> QED BY <2>3, <3>3 DEF CallTrust
  <2>8. lastUid' = lastUid
    <3>1. Gateway # Absent
      BY <2>3 DEF FinalizerProtocol, PassTrust, Protected
    <3>2. ~\E spec \in Specs : CreateGateway(spec)
      BY <3>1 DEF CreateGateway, Gateway
    <3> QED BY <3>2, UidsMove
  <2> QED BY <1>3, <2>1, <2>4, <2>6, <2>7, <2>8
<1>6. Deliver(k) => server' = server
  BY <1>2, DeliverEffect
<1> QED BY <1>2, <1>4, <1>5, <1>6, ObjectStep DEF ObjectKept, Restarted

\* With one incarnation, what is over stays over.
LEMMA OverKept ==
  ASSUME TypeOK, FinalizerProtocol, MaxUid = 1, Over, [Next]_vars
  PROVE  Over'
<1>1. ~\E spec \in Specs : CreateGateway(spec)
  BY FirstIsOnly DEF Over
<1>2. lastUid' = lastUid
  BY <1>1, UidsMove
<1>3. CASE SparesGateway
  BY <1>2, <1>3 DEF SparesGateway, Over
<1>4. CASE WritesGateway
  <2>1. PICK obj : Put("gateway", obj) /\ Written(Gateway, obj)
    BY <1>4 DEF WritesGateway
  <2>2. Gateway' = obj
    BY <2>1, PutGatewayEffect
  <2>3. lastUid \in Nat
    BY DEF TypeOK, ClusterTypes
  <2>4. ~Created(Gateway, obj)
    BY <1>2, <2>3 DEF Created
  <2>5. obj = Absent \/ obj.deleting
    <3>1. Gateway # Absent => Gateway.deleting
      BY DEF Over
    <3>2. Edited(Gateway, obj) \/ Reported(Gateway, obj) => Gateway # Absent /\ obj.deleting
      BY <3>1 DEF Edited, Reported, Rewritten
    <3>3. ~GivenFinalizer(Gateway, obj) /\ ~MarkedDeleted(Gateway, obj)
      BY <3>1 DEF GivenFinalizer, MarkedDeleted, Rewritten
    <3>4. Removed(Gateway, obj) => obj = Absent
      BY DEF Removed
    <3> QED BY <2>1, <2>4, <3>2, <3>3, <3>4 DEF Written
  <2> QED BY <1>2, <2>2, <2>5 DEF Over
<1> QED BY <1>3, <1>4, StepKinds

\* The finalizer's handler begins for a gateway somebody saw deleted.
LEMMA HandlerStarts ==
  ASSUME TypeOK, [Next]_vars, pc' \in {"finalize", "removeFinalizer"}
  PROVE  \/ pc \in {"finalize", "removeFinalizer"}
         \/ Cached("gateway") # Absent /\ Cached("gateway").deleting
<1>1. CASE pc' = pc
  BY <1>1
<1>2. CASE EndPass
  BY <1>2 DEF EndPass
<1>3. CASE Worker
  <2>1. CASE DropRequest \/ FinalizeBinding \/ RemoveFinalizer \/ NamespaceTerminating
    BY <1>1, <1>2, <2>1
       DEF DropRequest, FinalizeBinding, RemoveFinalizer, NamespaceTerminating, Requeue, pass
  <2>2. CASE StartReconcile
    BY <2>2 DEF StartReconcile, NothingToDo
  <2>3. CASE CheckNamespace \/ AddFinalizer \/ Reread
    BY <1>2, <2>3 DEF CheckNamespace, AddFinalizer, Reread, BeginCalls, Requeue
  <2>4. CASE \/ CreateServiceAccount \/ \E k \in Objects \ {"serviceAccount"} : CreateOrUpdate(k)
             \/ DeleteIfExists("deleteHPA", "hpa")
             \/ DeleteIfExists("deleteScaledObject", "scaledObject")
             \/ FindKEDA \/ SkywalkingError \/ SkywalkingPanic \/ PatchStatus
    BY <1>1, <1>2, <2>4 DEF CreateServiceAccount, CreateOrUpdate, DeleteIfExists, FindKEDA,
       SkywalkingError, SkywalkingPanic, PatchStatus, Requeue, Restart, Proceed
  <2> QED BY <1>3, <2>1, <2>2, <2>3, <2>4 DEF Worker
<1>4. CASE User
  BY <1>1, <1>4 DEF User, CreateGateway, EditSpec, DeleteGateway, WriteGateway
<1>5. CASE Environment
  BY <1>1, <1>2, <1>5 DEF Environment, Deliver, CollectGarbage, ExternalDelete, Scale,
     NeighbourGrants, NeighbourRevokes, Crash, Restart, ApiError, NamespaceError, InstallKEDA,
     TerminateNamespace, pass
<1>6. CASE Resync \/ UNCHANGED vars
  BY <1>1, <1>6 DEF Resync, vars, pass
<1> QED BY <1>3, <1>4, <1>5, <1>6 DEF Next

\* An informer or a pass has seen the gateway's deletion.
SeesDeleted ==
  \/ pc \in {"finalize", "removeFinalizer"}
  \/ \E i \in 1..Len(past["gateway"]) :
       past["gateway"][i] # Absent /\ past["gateway"][i].deleting
\* With one incarnation, whoever sees a deleted gateway sees one that is over.
LEMMA SeenIsOver ==
  ASSUME TypeOK, FinalizerProtocol, UidTrust, SeesDeleted => Over, MaxUid = 1, [Next]_vars,
         SeesDeleted'
  PROVE  Over'
<1> DEFINE p == past["gateway"]
<1>1. Gateway # Absent /\ Gateway.deleting => Over
  BY DEF Over, UidTrust
<1>2. Cached("gateway") # Absent /\ Cached("gateway").deleting => Over
  <2>1. CASE p = <<>>
    BY <1>1, <2>1 DEF Cached, Current, Gateway
  <2>2. CASE p # <<>>
    <3>1. p \in Seq(AnyVersion)
      BY KindsFacts DEF TypeOK, StoreTypes
    <3>2. 1 \in 1..Len(p) /\ Head(p) = p[1] /\ Cached("gateway") = p[1]
      BY <2>2, <3>1 DEF Cached, Current
    <3> QED BY <3>2 DEF SeesDeleted
  <2> QED BY <2>1, <2>2
<1>3. CASE pc' \in {"finalize", "removeFinalizer"}
  BY <1>2, <1>3, HandlerStarts, OverKept DEF SeesDeleted
<1>4. ASSUME NEW i \in 1..Len(past'["gateway"]),
             past'["gateway"][i] # Absent /\ past'["gateway"][i].deleting
      PROVE  Over'
  <2>1. \/ past'["gateway"][i] = Gateway
        \/ \E j \in 1..Len(p) : past'["gateway"][i] = p[j]
    <3>1. CASE ObjectKept("gateway")
      BY <1>4, <3>1 DEF ObjectKept
    <3>2. CASE Restarted("gateway")
      <4>1. Len(past'["gateway"]) = 0 /\ 1..0 = {}
        BY <3>2, EmptySeq DEF Restarted
      <4> QED BY <4>1
    <3>3. CASE Deliver("gateway")
      BY <3>3, DeliverEffect, KindsFacts
    <3>4. ASSUME NEW obj, Store("gateway", obj)
          PROVE  \/ past'["gateway"][i] = Gateway
                 \/ \E j \in 1..Len(p) : past'["gateway"][i] = p[j]
      BY <3>4, PutEffect, KindsFacts DEF Store, Gateway
    <3> QED BY <3>1, <3>2, <3>3, <3>4, GatewayStep
  <2> QED BY <1>1, <1>4, <2>1, OverKept DEF SeesDeleted
<1> QED BY <1>3, <1>4 DEF SeesDeleted

\* The grant stays until the gateway is over.
LEMMA GrantStays ==
  ASSUME TypeOK, EverythingIsTold, FinalizerProtocol, UidTrust, ObjectTrust,
         pc # "finalize", Granted, [Next]_vars
  PROVE  Granted'
<1> DEFINE k == "clusterRoleBinding"
<1>1. /\ k \in Objects /\ k \in Kinds /\ k \notin Controlled
      /\ WellMade(k, server[k]) /\ server[k] # Absent /\ server[k] \in {Absent} \cup Managed
  BY KindsFacts, VersionsFacts DEF Controlled, ObjectTrust, Granted, TypeOK, StoreTypes
<1>2. ASSUME NEW obj, ObjectWritten(k, obj)
      PROVE  Granted'
  <2>1. server'[k] = obj /\ obj # Absent
    BY <1>1, <1>2, PutEffect, UntoldStays DEF ObjectWritten, Store
  <2>2. Subject \in obj.subjects
    <3>1. CASE Called(k, obj)
      BY <1>1, <3>1, CallerHasUid, MutatedIsMade DEF Called
    <3>2. CASE Shared(k, obj)
      BY <3>2 DEF Shared
    <3>3. ~Revoked(k, obj) /\ ~Scaled(k, obj)
      BY DEF Revoked, Scaled
    <3> QED BY <1>1, <1>2, <3>1, <3>2, <3>3, UntoldStays DEF ObjectWritten, Outside
  <2> QED BY <2>1, <2>2 DEF Granted
<1>3. server'[k] = server[k] => Granted'
  BY DEF Granted
<1>4. Deliver(k) => server' = server
  BY <1>1, DeliverEffect
<1> QED BY <1>1, <1>2, <1>3, <1>4, ObjectStep DEF ObjectKept, Restarted

\* Every step keeps a deletion that was seen one that is over, and old bindings
\* without a grant that is gone.
LEMMA DeletionTrustStep ==
  ASSUME TypeOK, EverythingIsTold, FinalizerProtocol, UidTrust, ObjectTrust, ReadTrust,
         DeletionTrust, [Next]_vars
  PROVE  DeletionTrust'
<1> DEFINE k == "clusterRoleBinding"
<1>1. SeesDeleted /\ MaxUid = 1 => Over
  BY DEF DeletionTrust, SeesDeleted
<1>2. SeesDeleted' /\ MaxUid = 1 => Over'
  BY <1>1, SeenIsOver
<1>3. ASSUME ~Over', NEW i \in 1..Len(past'[k]), past'[k][i] # Absent,
             Subject \in past'[k][i].subjects
      PROVE  Granted'
  <2>1. k \in Objects /\ k \in Kinds
    BY KindsFacts
  <2>2. CASE MaxUid # 1
    <3>1. past'[k] = <<>>
      BY <2>1, <2>2, ReadTrustStep DEF EverythingIsTold, ReadTrust, Current
    <3>2. Len(past'[k]) = 0 /\ 1..0 = {}
      BY <3>1, EmptySeq
    <3> QED BY <3>2
  <2>3. CASE MaxUid = 1
    <3>1. ~Over /\ pc # "finalize"
      BY <1>1, <1>3, <2>3, OverKept DEF SeesDeleted
    <3>2. \A j \in 1..Len(past[k]) :
            past[k][j] # Absent /\ Subject \in past[k][j].subjects => Granted
      BY <3>1 DEF DeletionTrust
    <3>3. past'[k][i] = server[k] \/ \E j \in 1..Len(past[k]) : past'[k][i] = past[k][j]
      <4>1. CASE ObjectKept(k)
        BY <1>3, <4>1 DEF ObjectKept
      <4>2. CASE Restarted(k)
        <5>1. Len(past'[k]) = 0 /\ 1..0 = {}
          BY <4>2, EmptySeq DEF Restarted
        <5> QED BY <5>1
      <4>3. CASE Deliver(k)
        BY <2>1, <4>3, DeliverEffect
      <4>4. ASSUME NEW obj, ObjectWritten(k, obj)
            PROVE  past'[k][i] = server[k] \/ \E j \in 1..Len(past[k]) : past'[k][i] = past[k][j]
        BY <2>1, <4>4, PutEffect DEF ObjectWritten, Store
      <4> QED BY <2>1, <4>1, <4>2, <4>3, <4>4, ObjectStep
    <3>4. Granted
      BY <1>3, <3>2, <3>3 DEF Granted
    <3> QED BY <3>1, <3>4, GrantStays
  <2> QED BY <2>2, <2>3
<1> QED BY <1>2, <1>3 DEF DeletionTrust, SeesDeleted

---------------------------------------------------------------------------
(* NoWorkIsLost: what is asked for stays asked for until it is worked on. *)

\* A gateway that is written is asked for.
LEMMA GatewayChanged ==
  ASSUME TypeOK, ReadTrust, [Next]_vars, Gateway' # Gateway
  PROVE  Asked'
<1>1. "gateway" \in Kinds
  BY KindsFacts
<1>2. ~ObjectKept("gateway") /\ ~Restarted("gateway") /\ ~Deliver("gateway")
  BY <1>1, DeliverEffect DEF Gateway, ObjectKept, Restarted
<1>3. PICK obj : Store("gateway", obj)
  BY <1>2, GatewayStep
<1>4. server'["gateway"] = obj /\ obj # server["gateway"]
  BY <1>1, <1>3, PutEffect DEF Store, Gateway
<1>5. CASE "gateway" \in Lagging
  <2>1. past'["gateway"] # <<>>
    BY <1>1, <1>3, <1>4, <1>5, PutEffect DEF Store
  <2> QED BY <2>1 DEF Asked, Current
<1>6. CASE "gateway" \notin Lagging
  BY <1>3, <1>4, <1>6 DEF Store, Notifies, Wakes, Asked
<1> QED BY <1>5, <1>6

\* A request leaves the queue with the pass it starts, or with the process.
LEMMA QueueKept ==
  ASSUME [Next]_vars, queued
  PROVE  queued' \/ DropRequest \/ StartReconcile \/ Restart
<1>1. NoWrite \/ Requeue => queued'
  BY DEF NoWrite, Requeue
<1>2. ASSUME NEW k, NEW obj, Store(k, obj)
      PROVE  queued'
  BY <1>2 DEF Store
<1>3. CASE Worker
  <2>1. CASE FinalizeBinding \/ RemoveFinalizer \/ CheckNamespace \/ NamespaceTerminating
             \/ AddFinalizer \/ Reread \/ PatchStatus
    BY <1>1, <1>2, <2>1 DEF FinalizeBinding, RemoveFinalizer, CheckNamespace,
       NamespaceTerminating, AddFinalizer, Reread, PatchStatus
  <2>2. CASE \/ CreateServiceAccount \/ \E k \in Objects \ {"serviceAccount"} : CreateOrUpdate(k)
             \/ DeleteIfExists("deleteHPA", "hpa")
             \/ DeleteIfExists("deleteScaledObject", "scaledObject")
             \/ FindKEDA \/ SkywalkingError \/ SkywalkingPanic
    BY <1>1, <1>2, <2>2 DEF CreateServiceAccount, CreateOrUpdate, DeleteIfExists, FindKEDA,
       SkywalkingError, SkywalkingPanic
  <2> QED BY <1>3, <2>1, <2>2 DEF Worker
<1>4. CASE User
  BY <1>2, <1>4 DEF User, CreateGateway, EditSpec, DeleteGateway, WriteGateway
<1>5. CASE Environment
  BY <1>1, <1>2, <1>5 DEF Environment, Deliver, CollectGarbage, ExternalDelete, Scale,
     NeighbourGrants, NeighbourRevokes, Crash, ApiError, NamespaceError, InstallKEDA,
     TerminateNamespace
<1>6. CASE Resync \/ UNCHANGED vars
  BY <1>6 DEF Resync, vars
<1> QED BY <1>3, <1>4, <1>5, <1>6 DEF Next

\* A request whose gateway is living starts a pass that does its work; one that
\* has not seen it yet is followed by another.
LEMMA RequestWorks ==
  ASSUME TypeOK, ReadTrust, [Next]_vars, Gateway' = Gateway, Gateway # Absent,
         ~Gateway.deleting, Asked
  PROVE  Asked' \/ InHand'
<1>1. "gateway" \in Kinds
  BY KindsFacts
<1>2. CASE Restart
  BY <1>2 DEF Restart, Asked, Gateway
<1>3. CASE DropRequest \/ StartReconcile
  <2>1. CASE ~Current("gateway")
    BY <1>3, <2>1 DEF DropRequest, StartReconcile, Asked, Current
  <2>2. CASE Current("gateway")
    <3>1. Cached("gateway") = Gateway
      BY <2>2 DEF Cached, Gateway
    <3>2. pc' = "namespace" /\ inst' = WithDefaults(Gateway)
      BY <1>3, <3>1 DEF DropRequest, StartReconcile, NothingToDo
    <3> QED BY <3>2 DEF InHand
  <2> QED BY <2>1, <2>2
<1>4. CASE queued /\ ~DropRequest /\ ~StartReconcile /\ ~Restart
  BY <1>4, QueueKept DEF Asked
<1>5. CASE ~Current("gateway") /\ ~Restart
  <2>1. CASE ObjectKept("gateway")
    BY <1>5, <2>1 DEF ObjectKept, Asked, Current
  <2>2. CASE Deliver("gateway")
    BY <2>2 DEF Deliver, Wakes, Asked
  <2>3. ASSUME NEW obj, Store("gateway", obj)
        PROVE  Asked'
    <3>1. obj = server["gateway"] => past'["gateway"] = past["gateway"]
      BY <1>1, <2>3, PutEffect DEF Store
    <3>2. obj = server["gateway"]
      BY <1>1, <2>3, PutEffect DEF Store, Gateway
    <3> QED BY <1>5, <3>1, <3>2 DEF Asked, Current
  <2>4. ~Restarted("gateway")
    BY <1>5 DEF Restarted
  <2> QED BY <2>1, <2>2, <2>3, <2>4, GatewayStep
<1> QED BY <1>2, <1>3, <1>4, <1>5 DEF Asked

---------------------------------------------------------------------------
(* What is settled stays settled. *)

\* Who changes an object of these kinds wakes the gateway.
LEMMA ToldIsWoken ==
  ASSUME NEW k \in Objects, k \in Told, NEW old, NEW new, old # new,
         WellMade(k, old), WellMade(k, new)
  PROVE  Wakes(k, old, new)
<1>1. PICK o \in {old, new} : o # Absent
  OBVIOUS
<1>2. o.owner # NoOwner /\ k \in Watched
  BY <1>1 DEF WellMade, Told
<1> QED BY <1>1, <1>2 DEF Wakes

\* One of those, whatever it was.
LEMMA ToldStep ==
  ASSUME TypeOK, FinalizerProtocol, UidTrust, ReadTrust, ObjectTrust, [Next]_vars,
         Gateway # Absent, NEW k \in Objects, k \in Told
  PROVE  \/ queued' \/ Shown(k)'
         \/ server'[k] = server[k] /\ ~Shown(k)
<1>1. /\ WellMade(k, server[k]) /\ \A i \in 1..Len(past[k]) : WellMade(k, past[k][i])
      /\ past[k] # <<>> => past[k][Len(past[k])] # server[k]
      /\ k \in Kinds
  BY KindsFacts DEF ObjectTrust, Current
<1>2. CASE ObjectKept(k)
  BY <1>2 DEF ObjectKept, Shown, Current
<1>3. CASE Restarted(k)
  BY <1>3 DEF Restarted, Restart, Gateway
<1>4. CASE Deliver(k)
  <2>1. past'[k] # <<>> => Shown(k)'
    BY DEF Shown, Current
  <2>2. past'[k] = <<>> => Wakes(k, Cached(k), NextVersion(k))
    BY <1>1, <1>4, DeliverEffect, ToldIsWoken
  <2> QED BY <1>4, <2>1, <2>2 DEF Deliver
<1>5. ASSUME NEW obj, ObjectWritten(k, obj)
      PROVE  \/ queued' \/ Shown(k)'
             \/ server'[k] = server[k] /\ ~Shown(k)
  <2>1. Store(k, obj) /\ WellMade(k, obj)
    BY <1>1, <1>5, WrittenWellMade DEF ObjectWritten
  <2>2. CASE obj = server[k]
    BY <1>1, <2>1, <2>2, PutEffect DEF Store, Shown, Current
  <2>3. CASE obj # server[k] /\ k \in Lagging
    BY <1>1, <2>1, <2>3, PutEffect DEF Store, Shown, Current
  <2>4. CASE obj # server[k] /\ k \notin Lagging
    BY <1>1, <2>1, <2>4, ToldIsWoken DEF Store, Notifies
  <2> QED BY <2>2, <2>3, <2>4
<1> QED BY <1>2, <1>3, <1>4, <1>5, ObjectStep

\* What a call of the pass has written is what the copy asks for.
LEMMA WriteSettles ==
  ASSUME TypeOK, EverythingIsTold, FinalizerProtocol, UidTrust, ObjectTrust, CallTrust,
         [Next]_vars, NEW k \in Objects, NEW obj, Store(k, obj), Called(k, obj),
         NEW gw, gw = inst
  PROVE  Settled(k, gw)'
<1>1. pc = "apply" /\ k = Head(todo) /\ obj = Mutated(k, server[k], inst)
  BY DEF Called
<1>2. server[k] \in {Absent} \cup Managed /\ WellMade(k, server[k]) /\ k \in Kinds
  BY KindsFacts, VersionsFacts DEF TypeOK, StoreTypes, ObjectTrust
<1>3. Made(k, obj, gw)
  BY <1>1, <1>2, CallerHasUid, MutatedIsMade
<1>4. server'[k] = obj
  BY <1>2, PutEffect DEF Store
<1>5. UpToDate(k, gw)'
  BY <1>3, <1>4 DEF UpToDate, Made
<1>6. k \in CallsLeft
  <2>1. todo \in Seq(CallNames) /\ todo # <<>>
    BY <1>1 DEF TypeOK, PassTypes
  <2>2. 1 \in 1..Len(todo) /\ Head(todo) = todo[1]
    BY <2>1
  <2> QED BY <1>1, <2>2 DEF CallsLeft
<1>7. k \in {"hpa", "scaledObject"} /\ Valid(gw.spec) => k \in Wanted(gw)'
  <2>1. keda' = keda
    BY KEDAKept
  <2> QED BY <1>1, <1>6, <2>1 DEF CallTrust, Wanted
<1>8. k \in {"hpa", "scaledObject"} => Valid(gw.spec)
  BY <1>1, <1>6 DEF CallTrust
<1> QED BY <1>5, <1>7, <1>8 DEF Settled

\* The objects by who hears of them.
LEMMA ToldFacts ==
  /\ Told = {"serviceAccount", "deployment", "hpa", "service"}
  /\ Objects \ Told = Rbac \cup {"gatewayConfigMap", "scaledObject"}
  /\ Rbac \cap Controlled = {} /\ "gatewayConfigMap" \notin Controlled
  /\ "hpa" \notin Rbac /\ "scaledObject" \notin Rbac
BY DEF Told, Watched, Objects, Controlled, Rbac

\* What settles an object.
LEMMA UpToDateSettles ==
  ASSUME NEW k, NEW gw, UpToDate(k, gw), k \in {"hpa", "scaledObject"} => k \in Wanted(gw)
  PROVE  Settled(k, gw)
BY DEF Settled

\* An object that stays as it is stays settled.
LEMMA SettledUnchanged ==
  ASSUME EverythingIsTold, [Next]_vars, NEW k, NEW gw, Settled(k, gw), server'[k] = server[k],
         ~Shown(k) \/ past'[k] = past[k]
  PROVE  Settled(k, gw)'
<1>1. keda' = keda
  BY KEDAKept
<1>2. (k \in Wanted(gw))' <=> k \in Wanted(gw)
  BY <1>1 DEF Wanted
<1>3. UpToDate(k, gw)' <=> UpToDate(k, gw)
  BY DEF UpToDate
<1> QED BY <1>2, <1>3 DEF Settled, Shown, Current

\* A binding with the subject in it is what every gateway asks for.
LEMMA GrantSettles ==
  ASSUME NEW gw, NEW obj \in Managed, WellMade("clusterRoleBinding", obj),
         Subject \in obj.subjects
  PROVE  Made("clusterRoleBinding", obj, gw)
<1>1. "clusterRoleBinding" \in Rbac \cup {"serviceAccount"}
  BY DEF Rbac
<1> QED BY <1>1, WellMadeIsMade

\* A step that is not the handler's leaves what is settled so, or somebody hears of
\* it, when a pass at its calls works for gw.
LEMMA SettledStep ==
  ASSUME TypeOK, EverythingIsTold, FinalizerProtocol, UidTrust, ReadTrust, ObjectTrust,
         CallTrust, [Next]_vars, Gateway # Absent, pc # "finalize",
         NEW gw, pc = "apply" => gw = inst, NEW k \in Objects, Settled(k, gw)
  PROVE  queued' \/ Settled(k, gw)'
<1>1. CASE k \in Told
  <2>1. server'[k] = server[k] /\ ~Shown(k) => Settled(k, gw)'
    BY SettledUnchanged
  <2>2. Shown(k)' => Settled(k, gw)'
    BY DEF Settled
  <2> QED BY <1>1, <2>1, <2>2, ToldStep
<1>2. CASE k \notin Told
  <2>1. ~Shown(k) /\ k \in Kinds
    BY <1>2, KindsFacts DEF Shown
  <2>2. server'[k] = server[k] => Settled(k, gw)'
    BY <2>1, SettledUnchanged
  <2>3. WellMade(k, server[k]) /\ server[k] \in {Absent} \cup Managed
    BY KindsFacts, VersionsFacts DEF ObjectTrust, TypeOK, StoreTypes
  <2>4. ASSUME NEW obj, ObjectWritten(k, obj), server'[k] # server[k]
        PROVE  Settled(k, gw)'
    <3>1. Store(k, obj) /\ server'[k] = obj /\ WellMade(k, obj)
      BY <2>1, <2>3, <2>4, PutEffect, WrittenWellMade DEF ObjectWritten, Store
    <3>2. CASE Called(k, obj)
      BY <3>1, <3>2, WriteSettles DEF Called
    <3>3. CASE Deleted(k, obj)
      <4>1. k = "scaledObject" /\ pc = "apply" /\ Head(todo) = "deleteScaledObject"
        BY <1>2, <3>3, ToldFacts DEF Deleted
      <4>2. todo \in Seq(CallNames) /\ todo # <<>>
        BY <4>1 DEF TypeOK, PassTypes
      <4>3. 1 \in 1..Len(todo) /\ Head(todo) = todo[1]
        BY <4>2
      <4>4. "deleteScaledObject" \in CallsLeft
        BY <4>1, <4>3 DEF CallsLeft
      <4>5. Valid(gw.spec) => getEffectiveScaleMode(gw.spec) # "KEDA"
        BY <4>1, <4>4 DEF CallTrust
      <4>6. k \in Wanted(gw)' => getEffectiveScaleMode(gw.spec) = "KEDA"
        BY <4>1, ToldFacts DEF Wanted
      <4>7. server'[k] = Absent
        BY <3>1, <3>3 DEF Deleted
      <4> QED BY <4>5, <4>6, <4>7 DEF Settled
    <3>4. CASE Shared(k, obj)
      <4>1. k = "clusterRoleBinding" /\ obj \in Managed /\ (Subject \in obj.subjects <=> Granted)
        BY <3>4 DEF Shared
      <4>2. CASE Granted
        <5>1. Made(k, obj, gw)
          BY <3>1, <4>1, <4>2, GrantSettles
        <5>2. UpToDate(k, gw)'
          BY <3>1, <5>1 DEF UpToDate, Made
        <5> QED BY <4>1, <5>2 DEF Settled
      <4>3. CASE ~Granted
        <5>1. ~UpToDate(k, gw)
          <6>1. Initial(k, gw).subjects = {Subject}
            BY <4>1, RenderedSubjects
          <6> QED BY <4>1, <4>3, <6>1 DEF UpToDate, Granted
        <5>2. k \in Wanted(gw) => ~Valid(gw.spec)
          BY <2>1, <5>1 DEF Settled
        <5>3. (k \in Wanted(gw))' => k \in Wanted(gw)
          BY KEDAKept DEF Wanted
        <5> QED BY <4>1, <5>2, <5>3 DEF Settled
      <4> QED BY <4>2, <4>3
    <3>5. ~Revoked(k, obj) /\ ~Lost(k, obj) /\ ~Scaled(k, obj)
      BY <1>2, ToldFacts DEF Revoked, Lost, Scaled, EverythingIsTold
    <3>6. ~Collected(k, obj)
      <4>1. CASE k = "scaledObject"
        BY <4>1 DEF Collected, Orphaned, UidTrust, Gateway
      <4>2. CASE k # "scaledObject"
        <5>1. k \notin Controlled
          BY <1>2, <4>2, ToldFacts
        <5> QED BY <2>3, <5>1 DEF Collected, Orphaned, WellMade
      <4> QED BY <4>1, <4>2
    <3> QED BY <2>4, <3>2, <3>3, <3>4, <3>5, <3>6 DEF ObjectWritten, Outside
  <2>5. Deliver(k) => server' = server
    BY <2>1, DeliverEffect
  <2> QED BY <2>2, <2>4, <2>5, ObjectStep DEF ObjectKept, Restarted
<1> QED BY <1>1, <1>2

---------------------------------------------------------------------------
(* What the calls settle. *)

\* The call at work is one of the calls left.
LEMMA HeadIsLeft ==
  ASSUME TypeOK, pc = "apply"
  PROVE  Head(todo) \in CallsLeft /\ todo \in Seq(CallNames) /\ todo # <<>>
<1>1. todo \in Seq(CallNames) /\ todo # <<>>
  BY DEF TypeOK, PassTypes
<1>2. 1 \in 1..Len(todo) /\ Head(todo) = todo[1]
  BY <1>1
<1> QED BY <1>1, <1>2 DEF CallsLeft

\* An autoscaler a pass calls for is wanted.
LEMMA CalledIsWanted ==
  ASSUME CallTrust, pc = "apply", NEW k \in CallsLeft, k \in {"hpa", "scaledObject"}
  PROVE  k \in Wanted(inst)
BY DEF CallTrust, Wanted

\* What the cache shows as it should be is so on the server, or an event will tell.
LEMMA CacheSettles ==
  ASSUME TypeOK, EverythingIsTold, FinalizerProtocol, UidTrust, ReadTrust, ObjectTrust,
         GrowTrust, DeletionTrust, CallTrust, pc = "apply", ~Over,
         NEW k \in Objects, k = Head(todo), Cached(k) = Mutated(k, Cached(k), inst)
  PROVE  Settled(k, inst)
<1> DEFINE old == Cached(k)
<1>1. /\ k \in Kinds /\ server[k] \in {Absent} \cup Managed /\ old \in {Absent} \cup Managed
      /\ inst \in Copies /\ inst.uid # NoOwner /\ WellMade(k, server[k])
  BY KindsFacts, VersionsFacts, CachedTyped, CallerHasUid DEF TypeOK, StoreTypes, ObjectTrust
<1>2. k \in {"hpa", "scaledObject"} => k \in Wanted(inst)
  BY HeadIsLeft, CalledIsWanted
<1>3. CASE Current(k)
  <2>1. server[k] = Mutated(k, server[k], inst)
    BY <1>3 DEF Cached
  <2>2. Made(k, server[k], inst)
    BY <1>1, <2>1, MutatedIsMade
  <2> QED BY <1>2, <2>2, UpToDateSettles DEF Made, UpToDate
<1>4. CASE ~Current(k) /\ k \in Told
  BY <1>4 DEF Settled, Shown
<1>5. CASE ~Current(k) /\ k \notin Told
  <2>1. past[k] \in Seq(AnyVersion) /\ past[k] # <<>>
    BY <1>1, <1>5 DEF TypeOK, StoreTypes, Current
  <2>2. 1 \in 1..Len(past[k]) /\ past[k][1] = old
    BY <1>5, <2>1 DEF Cached
  <2>3. k \in Rbac
    BY <1>1, <1>5, ToldFacts, LaggingAssumption DEF EverythingIsTold, ReadTrust
  <2>4. WellMade(k, old)
    BY <2>2 DEF ObjectTrust
  <2>5. old # Absent /\ (k \in {"clusterRoleBinding", "roleBinding"} => Subject \in old.subjects)
    BY <1>1, <2>4, MutatedIsMade
  <2>6. server[k] # Absent /\ (k = "clusterRoleBinding" => Subject \in server[k].subjects)
    <3>1. CASE k = "clusterRoleBinding"
      BY <2>2, <2>5, <3>1 DEF DeletionTrust, Granted
    <3>2. CASE k # "clusterRoleBinding"
      <4>1. k \in {"clusterRole", "role", "roleBinding"}
        BY <2>3, <3>2 DEF Rbac
      <4> QED BY <2>2, <2>5, <3>2, <4>1 DEF GrowTrust
    <3> QED BY <3>1, <3>2
  <2>7. Made(k, server[k], inst)
    BY <1>1, <2>3, <2>6, WellMadeIsMade
  <2> QED BY <1>2, <2>7, UpToDateSettles DEF Made, UpToDate
<1> QED BY <1>3, <1>4, <1>5

\* What a pass has called for is settled when it goes on.
LEMMA CallSettles ==
  ASSUME TypeOK, EverythingIsTold, FinalizerProtocol, UidTrust, ReadTrust, ObjectTrust,
         GrowTrust, DeletionTrust, CallTrust, [Next]_vars, ~Over, Proceed,
         CreateServiceAccount \/ \E j \in Objects \ {"serviceAccount"} : CreateOrUpdate(j),
         NEW gw, gw = inst, NEW k, k = Head(todo)
  PROVE  Settled(k, gw)'
<1>1. pc = "apply" /\ k \in Objects
  BY KindsFacts DEF CreateServiceAccount, CreateOrUpdate, Calling
<1>2. ~Requeue
  BY <1>1 DEF Proceed, Requeue, EndPass
<1>3. ASSUME NEW obj, Store(k, obj), obj = Mutated(k, server[k], inst)
      PROVE  Settled(k, gw)'
  BY <1>1, <1>3, WriteSettles DEF Called
<1>4. NoWrite /\ Settled(k, gw) => Settled(k, gw)'
  BY SettledUnchanged DEF NoWrite
<1>5. CASE CreateServiceAccount
  <2>1. k = "serviceAccount" /\ k \in Rbac \cup {"serviceAccount"}
    BY <1>5 DEF CreateServiceAccount, Calling
  <2>2. CASE server[k] # Absent /\ NoWrite
    <3>1. server[k] \in Managed /\ WellMade(k, server[k])
      BY <1>1, <2>2, KindsFacts, VersionsFacts DEF TypeOK, StoreTypes, ObjectTrust
    <3>2. Made(k, server[k], gw)
      BY <2>1, <3>1, WellMadeIsMade
    <3>3. Settled(k, gw)
      BY <2>1, <3>2, UpToDateSettles DEF Made, UpToDate
    <3> QED BY <1>4, <2>2, <3>3
  <2>3. CASE server[k] = Absent /\ Store(k, Initial(k, inst))
    BY <1>3, <2>3 DEF Mutated
  <2> QED BY <1>2, <1>5, <2>1, <2>2, <2>3 DEF CreateServiceAccount
<1>6. ASSUME NEW j \in Objects \ {"serviceAccount"}, CreateOrUpdate(j)
      PROVE  Settled(k, gw)'
  <2>1. k = j
    BY <1>6 DEF CreateOrUpdate, Calling
  <2>2. CASE Cached(k) = Mutated(k, Cached(k), inst) /\ NoWrite
    BY <1>1, <1>4, <2>2, CacheSettles
  <2>3. CASE Current(k) /\ Store(k, Mutated(k, Cached(k), inst))
    BY <1>3, <2>3 DEF Cached
  <2> QED BY <1>2, <1>6, <2>1, <2>2, <2>3 DEF CreateOrUpdate
<1> QED BY <1>5, <1>6

\* An autoscaler that is to go is gone, or an event will tell.
LEMMA DeleteSettles ==
  ASSUME TypeOK, ReadTrust, CallTrust, [Next]_vars, EverythingIsTold,
         NEW call, NEW k, DeleteIfExists(call, k),
         \/ call = "deleteHPA" /\ k = "hpa"
         \/ call = "deleteScaledObject" /\ k = "scaledObject",
         NEW gw, gw = inst
  PROVE  Settled(k, gw)'
<1>1. k \in Objects /\ k \in Kinds /\ pc = "apply" /\ Head(todo) = call
  BY KindsFacts DEF DeleteIfExists, Calling
<1>2. k \in Wanted(gw)' => ~Valid(gw.spec)
  <2>1. call \in CallsLeft
    BY <1>1, HeadIsLeft
  <2>2. Valid(gw.spec) => getEffectiveScaleMode(gw.spec) # IF k = "hpa" THEN "NativeHPA" ELSE "KEDA"
    BY <1>1, <2>1 DEF CallTrust
  <2>3. k \in Wanted(gw)' =>
          getEffectiveScaleMode(gw.spec) = IF k = "hpa" THEN "NativeHPA" ELSE "KEDA"
    BY ToldFacts DEF Wanted
  <2> QED BY <2>2, <2>3
<1>3. server'[k] = Absent \/ Shown(k)'
  <2>1. CASE Cached(k) = Absent
    <3>1. NoWrite
      BY <2>1 DEF DeleteIfExists
    <3>2. k = "hpa" \/ Current(k)
      BY <1>1, LaggingAssumption DEF ReadTrust
    <3>3. CASE Current(k)
      BY <2>1, <3>1, <3>3 DEF Cached, NoWrite
    <3>4. CASE k = "hpa" /\ ~Current(k)
      BY <3>1, <3>4, ToldFacts DEF Shown, Current, NoWrite
    <3> QED BY <3>2, <3>3, <3>4
  <2>2. CASE Cached(k) # Absent
    BY <1>1, <2>2, PutEffect DEF DeleteIfExists, Store
  <2> QED BY <2>1, <2>2
<1> QED BY <1>2, <1>3 DEF Settled

\* The calls a pass begins with will settle every object that is not settled.
LEMMA CallsAhead ==
  ASSUME NEW gw \in Copies, todo' = Calls(gw.spec), NEW k \in Objects
  PROVE  Coming(k)' \/ Settled(k, gw)'
<1> DEFINE spec == gw.spec
           mode == getEffectiveScaleMode(spec)
<1>1. spec \in DefaultedSpecs
  BY DEF Copies
<1>2. mode \in AutoScalingModes
  BY <1>1, ModeTyped DEF DefaultedSpecs
<1>3. CallsLeft' = Members(Calls(spec))
  BY DEF CallsLeft, Members
<1>4. CASE ~Valid(spec)
  <2>1. CallsLeft' = {"deleteHPA", "deleteScaledObject", "patchStatus"}
    BY <1>1, <1>3, <1>4, CallsMeaning
  <2> QED BY <1>4, <2>1 DEF Coming, Settled
<1>5. CASE Valid(spec)
  <2>1. CallsLeft' = Members(Preparations(spec)) \cup Members(AutoscalerCalls(mode))
    BY <1>1, <1>3, <1>5, CallsMeaning
  <2>2. CASE k \in {"serviceAccount", "gatewayConfigMap", "deployment"}
    BY <1>1, <2>1, <2>2, PreparationsFacts DEF Coming
  <2>3. CASE k \in Rbac
    <3>1. CASE spec.rbac
      BY <1>1, <2>1, <2>3, <3>1, PreparationsFacts DEF Coming
    <3>2. CASE ~spec.rbac
      <4>1. k \notin Wanted(gw)' /\ k \notin {"hpa", "scaledObject"}
        BY <2>3, <3>2, ToldFacts DEF Wanted, Rbac
      <4> QED BY <4>1 DEF Settled
    <3> QED BY <3>1, <3>2
  <2>4. CASE k \in {"service", "hpa", "scaledObject"}
    <3> HIDE DEF mode
    <3> QED BY <1>2, <2>1, <2>4, AutoscalerCallsFacts DEF Coming, AutoScalingModes
  <2> QED BY <2>2, <2>3, <2>4 DEF Objects, Controlled
<1> QED BY <1>4, <1>5

---------------------------------------------------------------------------
(* The work in hand, and at rest. *)

\* What the work in hand is, seen from the state it ends in.
LEMMA InHandAgain ==
  ASSUME NEW gw, gw = WithDefaults(Gateway), Gateway' = Gateway,
         pc' \in {"namespace", "addFinalizer", "reread", "apply"},
         pc' # "reread" => inst' = gw,
         pc' = "apply" => \A k \in Objects : Coming(k)' \/ Settled(k, gw)'
  PROVE  InHand'
BY DEF InHand, Settled, UpToDate, Wanted, Shown, Current

\* The work that is done, likewise.
LEMMA AtRestAgain ==
  ASSUME NEW gw, gw = WithDefaults(Gateway), Gateway' = Gateway, pc' = "idle",
         gw.status = DesiredStatus(gw, keda), keda' = keda,
         \A k \in Objects : Settled(k, gw)'
  PROVE  AtRest'
BY DEF AtRest, Settled, UpToDate, Wanted, Shown, Current

\* A call other than the lookup of KEDA leaves the others to come.
LEMMA ComingStep ==
  ASSUME TypeOK, pc = "apply", Proceed, Head(todo) # "findKEDA", NEW k \in Objects, Coming(k)
  PROVE  \/ Coming(k)' \/ k = Head(todo)
         \/ Head(todo) = "deleteHPA" /\ k = "hpa"
         \/ Head(todo) = "deleteScaledObject" /\ k = "scaledObject"
<1>1. todo \in Seq(CallNames) /\ todo # <<>> /\ todo' = Tail(todo)
  BY HeadIsLeft DEF Proceed
<1>2. \A c \in CallsLeft : c = Head(todo) \/ c \in CallsLeft'
  BY <1>1, HeadAndTail DEF CallsLeft
<1> QED BY <1>2 DEF Coming

\* What a pass reports of KEDA is right when it gets there.
LEMMA ReportIsRight ==
  ASSUME CallTrust, pc = "apply", "findKEDA" \notin CallsLeft
  PROVE  DesiredStatus(inst, kedaFound) = DesiredStatus(inst, keda)
BY DEF CallTrust, DesiredStatus

\* A patch of the current status from the current status gives the new one.
LEMMA PatchOfCurrent ==
  ASSUME NEW old \in Statuses, NEW new \in Statuses
  PROVE  MergePatch(old, old, new) = new
<1>1. Patched(old.deployed, old.deployed, new.deployed) = new.deployed
  BY DEF Patched
<1>2. Patched(old.observedGeneration, old.observedGeneration, new.observedGeneration)
      = new.observedGeneration
  BY DEF Patched
<1>3. Patched(old.mode, old.mode, new.mode) = new.mode
  BY DEF Patched
<1>4. Patched(old.conditions, old.conditions, new.conditions) = new.conditions
  BY DEF Patched
<1>5. new = [deployed |-> new.deployed, observedGeneration |-> new.observedGeneration,
             mode |-> new.mode, conditions |-> new.conditions]
  BY DEF Statuses
<1> QED BY <1>1, <1>2, <1>3, <1>4, <1>5 DEF MergePatch

\* The status comes last: it is there already, or writing it asks for another pass.
LEMMA StatusSettles ==
  ASSUME TypeOK, EverythingIsTold, FinalizerProtocol, UidTrust, ReadTrust, ObjectTrust,
         CallTrust, [Next]_vars, Gateway' = Gateway, Gateway # Absent, InHand, PatchStatus
  PROVE  Asked' \/ AtRest'
<1> DEFINE g == WithDefaults(Gateway)
<1>1. Gateway \in Gateways /\ pc = "apply" /\ Head(todo) = "patchStatus"
  BY GatewayTyped DEF PatchStatus, Calling
<1>2. PICK gw \in Copies : gw = g
  BY <1>1, DefaultsTyped
<1>3. gw.status = Gateway.status
  BY <1>1, <1>2, DefaultsFields
<1> HIDE DEF g
<1>4. inst = gw /\ \A k \in Objects : Coming(k) \/ Settled(k, gw)
  BY <1>1, <1>2 DEF InHand, g
<1>5. CallsLeft = {"patchStatus"}
  BY <1>1, LastCallIsAlone DEF LastCalls
<1>6. \A k \in Objects : Settled(k, gw)
  <2>1. "patchStatus" \notin Objects
    BY DEF Objects, Controlled, Rbac
  <2> QED BY <1>4, <1>5, <2>1 DEF Coming
<1> DEFINE new == DesiredStatus(inst, kedaFound)
<1>7. new = DesiredStatus(gw, keda) /\ new \in Statuses /\ gw.status \in Statuses
  <2>1. new = DesiredStatus(gw, keda)
    BY <1>1, <1>4, <1>5, ReportIsRight
  <2>2. keda \in BOOLEAN
    BY DEF TypeOK, ClusterTypes
  <2> QED BY <1>2, <2>1, <2>2, DesiredStatusTyped DEF Copies
<1> HIDE DEF new
<1>8. CASE Requeue
  BY <1>8 DEF Requeue, Asked
<1>9. CASE new = gw.status /\ EndPass
  <2>1. \A k \in Objects : queued' \/ Settled(k, gw)'
    BY <1>1, <1>4, <1>6, SettledStep
  <2> QED BY <1>2, <1>7, <1>9, <2>1, AtRestAgain, KEDAKept DEF Asked, EndPass, g
<1>10. CASE new # gw.status /\ ~Requeue
  <2> DEFINE status == MergePatch(Gateway.status, inst.status, new)
             patched == [Gateway EXCEPT !.status = status]
  <2>1. Store("gateway", patched)
    BY <1>4, <1>10 DEF PatchStatus, Gateway, new
  <2>2. status = new
    BY <1>3, <1>4, <1>7, PatchOfCurrent
  <2> HIDE DEF status
  <2>3. patched.status = status
    BY <1>1, <1>7, <2>2, PatchedFields
  <2> HIDE DEF patched
  <2>4. server'["gateway"] = patched
    BY <2>1, PutEffect, KindsFacts DEF Store
  <2> QED BY <1>3, <1>10, <2>2, <2>3, <2>4 DEF Gateway
<1>11. new = gw.status => EndPass
  BY <1>4 DEF PatchStatus, new
<1> QED BY <1>8, <1>9, <1>10, <1>11

\* After the lookup of KEDA its objects are still to come.
LEMMA LookupSettles ==
  ASSUME TypeOK, EverythingIsTold, FinalizerProtocol, UidTrust, ReadTrust, ObjectTrust,
         CallTrust, [Next]_vars, Gateway' = Gateway, Gateway # Absent, InHand, FindKEDA
  PROVE  Asked' \/ InHand'
<1>1. pc = "apply" /\ Head(todo) = "findKEDA" /\ pc' = pc /\ inst' = inst
      /\ UNCHANGED <<server, past>>
  BY DEF FindKEDA, Calling, NoWrite
<1>2. PICK gw : gw = WithDefaults(Gateway)
  OBVIOUS
<1>3. inst = gw /\ \A k \in Objects : Coming(k) \/ Settled(k, gw)
  BY <1>1, <1>2 DEF InHand
<1>4. CallsLeft = {"findKEDA"}
  BY <1>1, LastCallIsAlone DEF LastCalls
<1>5. ASSUME NEW k \in Objects
      PROVE  Asked' \/ Coming(k)' \/ Settled(k, gw)'
  <2>1. CASE Settled(k, gw)
    BY <1>1, <1>3, <2>1, SettledStep DEF Asked
  <2>2. CASE k = "service" \/ (k = "scaledObject" /\ keda)
    BY <2>2, FoundCalls DEF Coming
  <2>3. CASE k = "scaledObject" /\ ~keda
    <3>1. server'[k] = Absent
      BY <1>1, <2>3 DEF UidTrust
    <3>2. k \notin Wanted(gw)'
      BY <2>3, KEDAKept, ToldFacts DEF Wanted
    <3> QED BY <3>1, <3>2 DEF Settled
  <2>4. Coming(k) => k \in {"service", "scaledObject"}
    <3>1. "findKEDA" \notin Objects
      BY DEF Objects, Controlled, Rbac
    <3> QED BY <1>4, <3>1 DEF Coming
  <2> QED BY <1>3, <2>1, <2>2, <2>3, <2>4
<1> QED BY <1>1, <1>2, <1>3, <1>5, InHandAgain

\* So are those of any other call.
LEMMA CallsKeepHand ==
  ASSUME TypeOK, EverythingIsTold, FinalizerProtocol, UidTrust, ReadTrust, ObjectTrust,
         GrowTrust, DeletionTrust, CallTrust, [Next]_vars, Gateway' = Gateway,
         Gateway # Absent, ~Over, InHand, Proceed,
         \/ CreateServiceAccount
         \/ \E j \in Objects \ {"serviceAccount"} : CreateOrUpdate(j)
         \/ DeleteIfExists("deleteHPA", "hpa")
         \/ DeleteIfExists("deleteScaledObject", "scaledObject")
  PROVE  Asked' \/ InHand'
<1>1. pc = "apply" /\ Head(todo) # "findKEDA" /\ pc' = pc /\ inst' = inst
  <2>1. "findKEDA" \notin Objects
    BY DEF Objects, Controlled, Rbac
  <2> QED BY <2>1 DEF CreateServiceAccount, CreateOrUpdate, DeleteIfExists, Calling, Proceed
<1>2. PICK gw : gw = WithDefaults(Gateway)
  OBVIOUS
<1>3. inst = gw /\ \A k \in Objects : Coming(k) \/ Settled(k, gw)
  BY <1>1, <1>2 DEF InHand
<1>4. PICK h : h = Head(todo)
  OBVIOUS
<1>5. CASE CreateServiceAccount \/ \E j \in Objects \ {"serviceAccount"} : CreateOrUpdate(j)
  <2>1. Settled(h, gw)' /\ h \in Objects
    BY <1>3, <1>4, <1>5, CallSettles, KindsFacts
       DEF CreateServiceAccount, CreateOrUpdate, Calling
  <2>2. ASSUME NEW k \in Objects
        PROVE  Asked' \/ Coming(k)' \/ Settled(k, gw)'
    <3>1. CASE Settled(k, gw)
      BY <1>1, <1>3, <3>1, SettledStep DEF Asked
    <3>2. h # "deleteHPA" /\ h # "deleteScaledObject"
      BY <2>1 DEF Objects, Controlled, Rbac
    <3> QED BY <1>1, <1>3, <1>4, <2>1, <3>1, <3>2, ComingStep
  <2> QED BY <1>1, <1>2, <1>3, <2>2, InHandAgain
<1>6. ASSUME NEW call, NEW d, DeleteIfExists(call, d),
             \/ call = "deleteHPA" /\ d = "hpa"
             \/ call = "deleteScaledObject" /\ d = "scaledObject"
      PROVE  Asked' \/ InHand'
  <2>1. Settled(d, gw)'
    BY <1>3, <1>6, DeleteSettles
  <2>2. ASSUME NEW k \in Objects
        PROVE  Asked' \/ Coming(k)' \/ Settled(k, gw)'
    <3>1. CASE Settled(k, gw)
      BY <1>1, <1>3, <3>1, SettledStep DEF Asked
    <3>2. call = Head(todo) /\ call \notin Objects
      BY <1>6 DEF DeleteIfExists, Calling, Objects, Controlled, Rbac
    <3> QED BY <1>1, <1>3, <1>6, <2>1, <3>1, <3>2, ComingStep
  <2> QED BY <1>1, <1>2, <1>3, <2>2, InHandAgain
<1> QED BY <1>5, <1>6

\* The work in hand is gone on with, done, or asked for again.
LEMMA HandKept ==
  ASSUME TypeOK, EverythingIsTold, FinalizerProtocol, UidTrust, ReadTrust, ObjectTrust,
         GrowTrust, DeletionTrust, CallTrust, [Next]_vars, Gateway' = Gateway,
         Gateway # Absent, ~Gateway.deleting, namespace = "Active", ~Asked, InHand
  PROVE  Asked' \/ InHand' \/ AtRest'
<1>1. PICK gw : gw = WithDefaults(Gateway)
  OBVIOUS
<1>2. /\ pc \in {"namespace", "addFinalizer", "reread", "apply"}
      /\ pc # "reread" => inst = gw
      /\ pc = "apply" => \A k \in Objects : Coming(k) \/ Settled(k, gw)
  BY <1>1 DEF InHand
<1>3. ~Over
  BY DEF Over
<1>4. Gateway \in Gateways /\ gw \in Copies
  BY <1>1, GatewayTyped, DefaultsTyped
<1>5. Requeue \/ Restart \/ ApiError => Asked'
  BY DEF Requeue, Restart, ApiError, Asked, Gateway
<1>6. CASE UNCHANGED <<pc, todo, inst>>
  <2>1. ASSUME pc = "apply", NEW k \in Objects
        PROVE  Asked' \/ Coming(k)' \/ Settled(k, gw)'
    <3>1. CASE Settled(k, gw)
      BY <1>2, <2>1, <3>1, SettledStep DEF Asked
    <3>2. CASE Coming(k)
      BY <1>6, <3>2 DEF Coming, CallsLeft
    <3> QED BY <1>2, <2>1, <3>1, <3>2
  <2> QED BY <1>1, <1>2, <1>6, <2>1, InHandAgain
<1>7. CASE /\ pc' = "apply" /\ inst' = gw /\ todo' = Calls(gw.spec)
  BY <1>1, <1>4, <1>7, CallsAhead, InHandAgain
<1>8. CASE Worker
  <2>1. CASE DropRequest \/ StartReconcile \/ FinalizeBinding \/ RemoveFinalizer
             \/ NamespaceTerminating
    BY <1>2, <2>1
       DEF DropRequest, StartReconcile, FinalizeBinding, RemoveFinalizer, NamespaceTerminating
  <2>2. CASE CheckNamespace
    <3>1. inst = gw /\ inst' = gw
      BY <1>2, <2>2 DEF CheckNamespace
    <3>2. CASE pc' = "addFinalizer"
      BY <1>1, <3>1, <3>2, InHandAgain
    <3>3. CASE BeginCalls(inst)
      BY <1>7, <3>1, <3>3 DEF BeginCalls
    <3> QED BY <2>2, <3>2, <3>3 DEF CheckNamespace
  <2>3. CASE AddFinalizer
    <3> DEFINE g == IF inst.spec = server["gateway"].spec THEN inst.gen ELSE inst.gen + 1
               written == [inst EXCEPT !.finalizer = TRUE, !.gen = g]
    <3>1. CASE Requeue
      BY <1>5, <3>1
    <3>2. CASE ~Requeue
      <4>1. Store("gateway", written) /\ pc = "addFinalizer" /\ inst = gw
        BY <1>2, <2>3, <3>2 DEF AddFinalizer
      <4>2. ~Gateway.finalizer
        BY <1>1, <1>4, <4>1, DefaultsFields DEF FinalizerProtocol, PassStage
      <4>3. inst \in Gateways /\ g \in Nat
        <5>1. inst \in Gateways /\ inst.gen \in Nat
          BY <1>4, <4>1, CopyIsGateway DEF Copies
        <5> QED BY <5>1
      <4> HIDE DEF g
      <4>4. written.finalizer
        BY <4>3, FinalizedFields
      <4> HIDE DEF written
      <4>5. Gateway' = written
        BY <4>1, PutEffect, KindsFacts DEF Store, Gateway
      <4> QED BY <4>2, <4>4, <4>5
    <3> QED BY <3>1, <3>2
  <2>4. CASE Reread
    <3>1. Cached("gateway") = Gateway
      BY DEF Asked, Cached, Gateway
    <3> QED BY <1>1, <1>5, <1>7, <2>4, <3>1 DEF Reread, BeginCalls
  <2>5. CASE \/ CreateServiceAccount
             \/ \E j \in Objects \ {"serviceAccount"} : CreateOrUpdate(j)
             \/ DeleteIfExists("deleteHPA", "hpa")
             \/ DeleteIfExists("deleteScaledObject", "scaledObject")
    <3>1. Requeue \/ Proceed
      BY <2>5 DEF CreateServiceAccount, CreateOrUpdate, DeleteIfExists
    <3> QED BY <1>3, <1>5, <2>5, <3>1, CallsKeepHand
  <2>6. CASE FindKEDA
    BY <2>6, LookupSettles
  <2>7. CASE SkywalkingError \/ SkywalkingPanic
    BY <1>5, <2>7 DEF SkywalkingError, SkywalkingPanic
  <2>8. CASE PatchStatus
    BY <2>8, StatusSettles
  <2> QED BY <1>8, <2>1, <2>2, <2>3, <2>4, <2>5, <2>6, <2>7, <2>8 DEF Worker
<1>9. CASE User
  BY <1>6, <1>9 DEF User, CreateGateway, EditSpec, DeleteGateway, WriteGateway
<1>10. CASE Environment
  <2>1. ~NamespaceError
    BY DEF EverythingIsTold, NamespaceError, Disturb
  <2> QED BY <1>5, <1>6, <1>10, <2>1 DEF Environment, Deliver, CollectGarbage, ExternalDelete,
         Scale, NeighbourGrants, NeighbourRevokes, Crash, InstallKEDA, TerminateNamespace, pass
<1>11. CASE Resync \/ UNCHANGED vars
  BY <1>6, <1>11 DEF Resync, vars, pass
<1> QED BY <1>8, <1>9, <1>10, <1>11 DEF Next

\* Work that is done stays done, or is asked for again.
LEMMA RestKept ==
  ASSUME TypeOK, EverythingIsTold, FinalizerProtocol, UidTrust, ReadTrust, ObjectTrust,
         CallTrust, [Next]_vars, Gateway' = Gateway, Gateway # Absent, ~Asked, AtRest
  PROVE  Asked' \/ AtRest'
<1>1. PICK gw : gw = WithDefaults(Gateway)
  OBVIOUS
<1>2. /\ pc = "idle" /\ ~queued /\ gw.status = DesiredStatus(gw, keda)
      /\ \A k \in Objects : Settled(k, gw)
  BY <1>1 DEF AtRest, Asked
<1>3. \A k \in Objects : queued' \/ Settled(k, gw)'
  BY <1>2, SettledStep
<1>4. pc' = "idle"
  <2>1. CASE Worker
    BY <1>2, <2>1 DEF Worker, DropRequest, StartReconcile, FinalizeBinding, RemoveFinalizer,
       CheckNamespace, NamespaceTerminating, AddFinalizer, Reread, CreateServiceAccount,
       CreateOrUpdate, DeleteIfExists, FindKEDA, SkywalkingError, SkywalkingPanic, PatchStatus,
       Calling
  <2>2. CASE User
    BY <1>2, <2>2 DEF User, CreateGateway, EditSpec, DeleteGateway, WriteGateway
  <2>3. CASE Environment
    BY <1>2, <2>3 DEF Environment, Deliver, CollectGarbage, ExternalDelete, Scale,
       NeighbourGrants, NeighbourRevokes, Crash, Restart, EndPass, ApiError, NamespaceError,
       InstallKEDA, TerminateNamespace, pass
  <2>4. CASE Resync \/ UNCHANGED vars
    BY <1>2, <2>4 DEF Resync, vars, pass
  <2> QED BY <2>1, <2>2, <2>3, <2>4 DEF Next
<1> QED BY <1>1, <1>2, <1>3, <1>4, AtRestAgain, KEDAKept DEF Asked

\* A namespace that is terminated stays so.
LEMMA NamespaceStays ==
  ASSUME [Next]_vars, namespace' = "Active"
  PROVE  namespace = "Active"
<1>1. UNCHANGED cluster => namespace = "Active"
  BY DEF cluster
<1>2. CASE Worker
  <2>1. CASE DropRequest \/ StartReconcile \/ FinalizeBinding \/ RemoveFinalizer
             \/ CheckNamespace \/ NamespaceTerminating \/ AddFinalizer \/ Reread
    BY <1>1, <2>1 DEF DropRequest, StartReconcile, FinalizeBinding, RemoveFinalizer,
       CheckNamespace, NamespaceTerminating, AddFinalizer, Reread, Requeue, cluster
  <2>2. CASE \/ CreateServiceAccount \/ \E k \in Objects \ {"serviceAccount"} : CreateOrUpdate(k)
             \/ DeleteIfExists("deleteHPA", "hpa")
             \/ DeleteIfExists("deleteScaledObject", "scaledObject")
             \/ FindKEDA \/ SkywalkingError \/ SkywalkingPanic \/ PatchStatus
    BY <1>1, <2>2 DEF CreateServiceAccount, CreateOrUpdate, DeleteIfExists, FindKEDA,
       SkywalkingError, SkywalkingPanic, PatchStatus, Requeue, cluster
  <2> QED BY <1>2, <2>1, <2>2 DEF Worker
<1>3. CASE User
  BY <1>3 DEF User, CreateGateway, EditSpec, DeleteGateway, cluster
<1>4. CASE Environment
  BY <1>4 DEF Environment, Deliver, CollectGarbage, ExternalDelete, Scale, NeighbourGrants,
     NeighbourRevokes, Crash, ApiError, NamespaceError, InstallKEDA, TerminateNamespace, cluster
<1>5. CASE Resync \/ UNCHANGED vars
  BY <1>5 DEF Resync, vars, cluster
<1> QED BY <1>2, <1>3, <1>4, <1>5 DEF Next

\* Every step keeps the gateway asked for, worked on or at rest.
LEMMA NoWorkIsLostStep ==
  ASSUME TypeOK, EverythingIsTold, FinalizerProtocol, WorkProtocol, [Next]_vars
  PROVE  NoWorkIsLost'
<1>1. /\ ObjectTrust /\ ReadTrust /\ GrowTrust /\ UidTrust /\ DeletionTrust /\ CallTrust
      /\ NoWorkIsLost
  BY DEF WorkProtocol
<1>2. CASE Gateway' # Gateway
  BY <1>1, <1>2, GatewayChanged DEF NoWorkIsLost
<1>3. CASE Gateway' = Gateway
  <2> SUFFICES ASSUME Gateway' # Absent, ~Gateway'.deleting, namespace' = "Active"
               PROVE  Asked' \/ InHand' \/ AtRest'
    BY DEF NoWorkIsLost, Living
  <2>1. Gateway # Absent /\ ~Gateway.deleting /\ namespace = "Active"
    BY <1>3, NamespaceStays
  <2>2. Asked \/ InHand \/ AtRest
    BY <1>1, <2>1 DEF NoWorkIsLost, Living
  <2>3. CASE Asked
    BY <1>1, <1>3, <2>1, <2>3, RequestWorks
  <2>4. CASE ~Asked /\ InHand
    BY <1>1, <1>3, <2>1, <2>4, HandKept
  <2>5. CASE ~Asked /\ AtRest
    BY <1>1, <1>3, <2>1, <2>5, RestKept
  <2> QED BY <2>2, <2>3, <2>4, <2>5
<1> QED BY <1>2, <1>3

---------------------------------------------------------------------------
(* Together. *)

\* At the start no gateway exists, and no work with it.
LEMMA InitWork ==
  ASSUME Init
  PROVE  WorkProtocol
<1>1. \A k \in Kinds : server[k] = Absent /\ past[k] = <<>>
  BY DEF Init
<1>2. \A k \in Objects : server[k] = Absent /\ past[k] = <<>>
  BY <1>1, KindsFacts
<1>3. Gateway = Absent /\ past["gateway"] = <<>>
  BY <1>1, KindsFacts DEF Gateway
<1>4. Len(<<>>) = 0 /\ 1..0 = {}
  OBVIOUS
<1>5. ObjectTrust /\ ReadTrust
  BY <1>1, <1>2, <1>4 DEF ObjectTrust, ReadTrust, WellMade, Current
<1>6. GrowTrust
  <2>1. {"clusterRole", "role", "roleBinding"} \subseteq Kinds
    BY DEF Kinds, Objects, Rbac
  <2> QED BY <1>1, <1>4, <2>1 DEF GrowTrust
<1>7. UidTrust
  BY <1>2, <1>3, KindsFacts DEF Init, UidTrust
<1>8. DeletionTrust /\ CallTrust
  BY <1>2, <1>3, <1>4, KindsFacts DEF Init, DeletionTrust, CallTrust
<1>9. NoWorkIsLost
  BY <1>3 DEF NoWorkIsLost, Living
<1> QED BY <1>5, <1>6, <1>7, <1>8, <1>9 DEF WorkProtocol

\* Every step keeps all of WorkProtocol.
LEMMA WorkStep ==
  ASSUME TypeOK, EverythingIsTold, FinalizerProtocol, WorkProtocol, [Next]_vars
  PROVE  WorkProtocol'
<1>1. ObjectTrust /\ ReadTrust /\ GrowTrust /\ UidTrust /\ DeletionTrust /\ CallTrust
  BY DEF WorkProtocol
<1>2. ObjectTrust' /\ ReadTrust' /\ GrowTrust' /\ CallTrust'
  BY <1>1, ObjectTrustStep, ReadTrustStep, GrowTrustStep, CallTrustStep
<1>3. UidTrust' /\ DeletionTrust'
  BY <1>1, UidTrustStep, DeletionTrustStep
<1> QED BY <1>2, <1>3, NoWorkIsLostStep DEF WorkProtocol

\* An object is missing or stale, or the status out of date, only while a request,
\* a pass or an event that will ask for one knows of it: Reconcile, with its error
\* returns, the event handlers of SetupWithManager and the calls in their order
\* let no work go, as long as everything is told.
THEOREM WorkIsKept ==
  ASSUME EverythingIsTold
  PROVE  Safety => []WorkProtocol
<1>1. Init => WorkProtocol
  BY InitWork
<1>2. TypeOK /\ FinalizerProtocol /\ WorkProtocol /\ [Next]_vars => WorkProtocol'
  BY WorkStep
<1> QED BY <1>1, <1>2, TypeCorrect, ProtocolHolds, PTL DEF Safety

\* At rest nothing is asked for and nothing is in hand: a living gateway has what it
\* asks for.
THEOREM RestIsConverged ==
  ASSUME EverythingIsTold
  PROVE  Safety => []QuiescentConverged
<1>1. TypeOK /\ WorkProtocol => QuiescentConverged
  <2> SUFFICES ASSUME TypeOK, WorkProtocol, Quiescent, Living
               PROVE  Converged(WithDefaults(Gateway))
    BY DEF QuiescentConverged
  <2>1. ~Asked /\ pc = "idle" /\ \A k \in Objects : ~Shown(k)
    BY KindsFacts DEF Quiescent, Asked, Shown
  <2>2. AtRest
    BY <2>1 DEF WorkProtocol, NoWorkIsLost, InHand
  <2>3. Wanted(WithDefaults(Gateway)) \subseteq Objects
    BY DEF Wanted, Objects, Controlled, Rbac
  <2> QED BY <2>1, <2>2, <2>3, KindsFacts DEF AtRest, Converged, Settled
<1> QED BY <1>1, TypeCorrect, WorkIsKept, PTL
===============================================================================
