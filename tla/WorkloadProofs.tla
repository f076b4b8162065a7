---------------------------- MODULE WorkloadProofs ----------------------------
(***************************************************************************)
(* Proofs about Workloads: what the rendered objects owe the users, for    *)
(* every gateway, every controller and every edit.                         *)
(***************************************************************************)
EXTENDS WorkloadProperties, SequenceLemmas

---------------------------------------------------------------------------
(* The resources. *)

\* An edit of one field by a value a part offers keeps a resource well typed.
LEMMA EditTyped ==
  ASSUME NEW fields, NEW types, NEW values, NEW old,
         WellTyped(old, fields, types), Offers(values, fields, types)
  PROVE  \A new \in Edited(old, values) : WellTyped(new, fields, types)
<1>1. ASSUME NEW f \in DOMAIN values, NEW v \in values[f]
      PROVE  WellTyped([old EXCEPT ![f] = v], fields, types)
  BY <1>1 DEF WellTyped, Offers
<1> QED BY <1>1 DEF Edited

\* The fields of a resource with its defaults that the passes look at.
GatewayOK(s) ==
  /\ s.serviceAccount.enable \in BOOLEAN
  /\ s.rbac \in BOOLEAN /\ s.replicas \in Nat /\ s.skywalking \in BOOLEAN
  /\ s.service.type \in ServiceTypes
  /\ s.autoScaling \in G!AutoScalings /\ s.cpuRequest \in {"missing", "zero", "set"}
  /\ s.local \in BOOLEAN /\ s.enableHigressIstio \in BOOLEAN
  /\ s.rolling \in [surge : Nat, unavailable : Nat]
  /\ s.jwtPolicy \in JWTPolicies
  /\ s.meshConfig \in GatewayTypes.meshConfig /\ DOMAIN s = GatewayFields

ControllerOK(s) ==
  /\ s.serviceAccount.enable \in BOOLEAN
  /\ s.rbac \in BOOLEAN /\ s.replicas \in {Unset} \cup Nat
  /\ s.service \in {Unset} \cup [type : ServiceTypes \cup {""}, ports : Ports]
  /\ s.enableHigressIstio \in BOOLEAN /\ s.extraRootCA \in BOOLEAN
  /\ s.jwtPolicy \in JWTPolicies

\* setDefaultValues gives a gateway's nil pointers a value and leaves its
\* environment alone.
LEMMA GatewayDefaults ==
  ASSUME NEW r, WellTyped(r, GatewayFields, GatewayTypes)
  PROVE  GatewayOK(G!setDefaultValues(r)) /\ G!setDefaultValues(r).env = r.env
<1>1. DOMAIN r = GatewayFields /\ \A f \in DOMAIN GatewayTypes : r[f] \in GatewayTypes[f]
  BY DEF WellTyped
<1>2. /\ r.serviceAccount \in ServiceAccounts /\ r.rbac \in {Unset} \cup BOOLEAN
      /\ r.replicas \in {Unset} \cup Nat /\ r.skywalking \in {Unset} \cup BOOLEAN
      /\ r.service \in {Unset} \cup
           [type : ServiceTypes, ip : STRING, ranges : SUBSET STRING,
            policy : TrafficPolicies, ports : Ports]
      /\ r.autoScaling \in G!AutoScalings /\ r.cpuRequest \in {"missing", "zero", "set"}
      /\ r.local \in BOOLEAN /\ r.enableHigressIstio \in BOOLEAN
      /\ r.rolling \in [surge : Nat, unavailable : Nat]
      /\ r.jwtPolicy \in JWTPolicies /\ r.meshConfig \in GatewayTypes.meshConfig
  BY <1>1 DEF GatewayTypes
<1>3. {"serviceAccount", "rbac", "replicas", "skywalking", "service", "selectorLabels"}
         \subseteq GatewayFields
  BY DEF GatewayFields, GatewayTypes
<1> DEFINE s == G!setDefaultValues(r)
<1>4. /\ DOMAIN s = DOMAIN r
      /\ s.serviceAccount = G!OrDefault(r.serviceAccount, [enable |-> TRUE, name |-> "higress-gateway"])
      /\ s.rbac = G!OrDefault(r.rbac, TRUE) /\ s.replicas = G!OrDefault(r.replicas, 1)
      /\ s.skywalking = G!OrDefault(r.skywalking, FALSE)
      /\ s.service = G!OrDefault(r.service, G!DefaultService)
      /\ s.autoScaling = r.autoScaling /\ s.cpuRequest = r.cpuRequest /\ s.local = r.local
      /\ s.enableHigressIstio = r.enableHigressIstio
      /\ s.rolling = r.rolling /\ s.jwtPolicy = r.jwtPolicy /\ s.meshConfig = r.meshConfig
      /\ s.env = r.env
  BY <1>1, <1>3 DEF G!setDefaultValues
<1>5. s.serviceAccount.enable \in BOOLEAN
  <2>1. CASE r.serviceAccount = Unset
    <3>1. s.serviceAccount = [enable |-> TRUE, name |-> "higress-gateway"]
      BY <1>4, <2>1 DEF G!OrDefault
    <3>2. s.serviceAccount.enable = TRUE
      BY <3>1
    <3> QED BY <3>2
  <2>2. CASE r.serviceAccount # Unset
    <3>1. s.serviceAccount = r.serviceAccount
      BY <1>4, <2>2 DEF G!OrDefault
    <3>2. r.serviceAccount \in [enable : BOOLEAN, name : STRING]
      BY <1>2, <2>2 DEF ServiceAccounts
    <3> QED BY <3>1, <3>2
  <2> QED BY <2>1, <2>2
<1>6. s.rbac \in BOOLEAN
  BY <1>2, <1>4, Zenon DEF G!OrDefault
<1>7. s.skywalking \in BOOLEAN
  BY <1>2, <1>4, Zenon DEF G!OrDefault
<1>8. s.replicas \in Nat
  BY <1>2, <1>4 DEF G!OrDefault
<1>9. s.service.type \in ServiceTypes
  <2>1. CASE r.service = Unset
    <3>1. s.service = G!DefaultService
      BY <1>4, <2>1 DEF G!OrDefault
    <3>2. G!DefaultService.type = "LoadBalancer"
      BY DEF G!DefaultService
    <3>3. s.service.type = "LoadBalancer"
      BY <3>1, <3>2
    <3> QED BY <3>3 DEF ServiceTypes
  <2>2. CASE r.service # Unset
    <3>1. s.service = r.service
      BY <1>4, <2>2 DEF G!OrDefault
    <3>2. r.service \in [type : ServiceTypes, ip : STRING, ranges : SUBSET STRING,
                         policy : TrafficPolicies, ports : Ports]
      BY <1>2, <2>2
    <3>3. r.service.type \in ServiceTypes
      BY <3>2
    <3> QED BY <3>1, <3>3
  <2> QED BY <2>1, <2>2
<1> QED BY <1>1, <1>2, <1>4, <1>5, <1>6, <1>7, <1>8, <1>9 DEF GatewayOK

\* The same of a controller.
LEMMA ControllerDefaults ==
  ASSUME NEW r, WellTyped(r, ControllerFields, ControllerTypes)
  PROVE  ControllerOK(C!setDefaultValues(r))
<1>1. DOMAIN r = ControllerFields /\ \A f \in DOMAIN ControllerTypes : r[f] \in ControllerTypes[f]
  BY DEF WellTyped
<1>2. /\ r.serviceAccount \in ServiceAccounts /\ r.rbac \in {Unset} \cup BOOLEAN
      /\ r.replicas \in {Unset} \cup Nat
      /\ r.service \in {Unset} \cup [type : ServiceTypes \cup {""}, ports : Ports]
      /\ r.enableHigressIstio \in BOOLEAN /\ r.extraRootCA \in BOOLEAN
      /\ r.jwtPolicy \in JWTPolicies
  BY <1>1 DEF ControllerTypes
<1>3. {"serviceAccount", "rbac", "selectorLabels"} \subseteq ControllerFields
  BY DEF ControllerFields, ControllerTypes
<1> DEFINE s == C!setDefaultValues(r)
<1>4. /\ s.serviceAccount =
           C!OrDefault(r.serviceAccount, [enable |-> TRUE, name |-> "higress-controller"])
      /\ s.rbac = C!OrDefault(r.rbac, TRUE) /\ s.replicas = r.replicas /\ s.service = r.service
      /\ s.enableHigressIstio = r.enableHigressIstio /\ s.extraRootCA = r.extraRootCA
      /\ s.jwtPolicy = r.jwtPolicy
  BY <1>1, <1>3 DEF C!setDefaultValues
<1>5. s.serviceAccount.enable \in BOOLEAN /\ s.rbac \in BOOLEAN
  <2>1. s.serviceAccount.enable \in BOOLEAN
    <3>1. CASE r.serviceAccount = Unset
      <4>1. s.serviceAccount = [enable |-> TRUE, name |-> "higress-controller"]
        BY <1>4, <3>1 DEF C!OrDefault
      <4>2. s.serviceAccount.enable = TRUE
        BY <4>1
      <4> QED BY <4>2
    <3>2. CASE r.serviceAccount # Unset
      <4>1. s.serviceAccount = r.serviceAccount
        BY <1>4, <3>2 DEF C!OrDefault
      <4>2. r.serviceAccount \in [enable : BOOLEAN, name : STRING]
        BY <1>2, <3>2 DEF ServiceAccounts
      <4> QED BY <4>1, <4>2
    <3> QED BY <3>1, <3>2
  <2>2. s.rbac \in BOOLEAN
    BY <1>2, <1>4, Zenon DEF C!OrDefault
  <2> QED BY <2>1, <2>2
<1> QED BY <1>2, <1>4, <1>5 DEF ControllerOK

---------------------------------------------------------------------------
(* Passes. *)

\* Of the kinds it asks for, a pass writes those that do not fail, up to the
\* first that does.
LEMMA StopsAtFailure ==
  ASSUME NEW S, NEW kinds \in Seq(S), NEW failing, NEW n \in Stops(kinds, failing)
  PROVE  /\ n \in 0..Len(kinds) /\ FirstOf(kinds, n) \cap failing = {}
         /\ n < Len(kinds) => kinds[n + 1] \in failing \cap Members(kinds)
         /\ ~(n < Len(kinds)) => FirstOf(kinds, n) = Members(kinds)
<1>1. Len(kinds) \in Nat
  BY LenProperties
<1>2. /\ n \in 0..Len(kinds) /\ \A i \in 1..n : kinds[i] \notin failing
      /\ n < Len(kinds) => kinds[n + 1] \in failing
  BY DEF Stops
<1>3. n < Len(kinds) => kinds[n + 1] \in Members(kinds)
  BY <1>1, <1>2 DEF Members
<1>4. ~(n < Len(kinds)) => n = Len(kinds)
  BY <1>1, <1>2
<1> QED BY <1>2, <1>3, <1>4 DEF FirstOf, Members

IsMap(m) == m = [key \in DOMAIN m |-> m[key]]
AllGatewayKinds == GatewayKinds \cup {"serviceAccounts"}
AllControllerKinds == ControllerKinds \cup {"serviceAccounts"}

\* A pass with a valid configuration asks for every kind of object, one with an
\* invalid configuration for the deletion of the autoscalers.
LEMMA GatewayCallsCover ==
  ASSUME NEW s
  PROVE  /\ GatewayCalls(s) \in Seq(AllGatewayKinds)
         /\ G!Valid(s) => Members(GatewayCalls(s)) = AllGatewayKinds
         /\ ~G!Valid(s) => Members(GatewayCalls(s)) = {"hpa", "scaledObject"}
<1> DEFINE first == <<"serviceAccounts", "clusterRoleBinding", "configMap",
                      "skywalkingConfigMap", "deployment">>
           last == <<"service">>
<1>1. /\ first \in Seq(AllGatewayKinds)
      /\ Members(first) = {"serviceAccounts", "clusterRoleBinding", "configMap",
                           "skywalkingConfigMap", "deployment"}
  BY DEF AllGatewayKinds, GatewayKinds, Members
<1>2. last \in Seq(AllGatewayKinds) /\ Members(last) = {"service"}
  BY DEF AllGatewayKinds, GatewayKinds, Members
<1>3. /\ Autoscalers(s) \in Seq(AllGatewayKinds)
      /\ Members(Autoscalers(s)) = {"hpa", "scaledObject"}
  <2>1. <<"scaledObject", "hpa">> \in Seq(AllGatewayKinds) /\ <<"hpa", "scaledObject">> \in Seq(AllGatewayKinds)
    BY DEF AllGatewayKinds, GatewayKinds
  <2>2. /\ Members(<<"scaledObject", "hpa">>) = {"hpa", "scaledObject"}
        /\ Members(<<"hpa", "scaledObject">>) = {"hpa", "scaledObject"}
    BY DEF Members
  <2> QED BY <2>1, <2>2 DEF Autoscalers
<1> HIDE DEF first, last
<1>4. CASE G!Valid(s)
  <2> DEFINE middle == first \o Autoscalers(s)
  <2>1. Joins(middle, first, Autoscalers(s))
    BY DEF Joins
  <2>2. Joins(GatewayCalls(s), middle, last)
    BY <1>4 DEF GatewayCalls, first, last, Joins
  <2> HIDE DEF middle
  <2>3. /\ middle \in Seq(AllGatewayKinds)
        /\ Members(middle) = Members(first) \cup {"hpa", "scaledObject"}
    BY <1>1, <1>3, <2>1, ConcatMembers
  <2>4. /\ GatewayCalls(s) \in Seq(AllGatewayKinds)
        /\ Members(GatewayCalls(s)) = Members(middle) \cup Members(last)
    BY <1>2, <2>2, <2>3, ConcatMembers
  <2>5. Members(GatewayCalls(s)) = AllGatewayKinds
    BY <1>1, <1>2, <2>3, <2>4 DEF AllGatewayKinds, GatewayKinds
  <2> QED BY <1>4, <2>4, <2>5
<1>5. CASE ~G!Valid(s)
  BY <1>3, <1>5 DEF GatewayCalls
<1> QED BY <1>4, <1>5

\* A controller's pass asks for every kind of object.
LEMMA ControllerCallsCover ==
  ControllerCalls \in Seq(AllControllerKinds) /\ Members(ControllerCalls) = AllControllerKinds
BY DEF ControllerCalls, AllControllerKinds, ControllerKinds, Members

\* What a pass of the gateway's reconciler does: it writes each kind of object
\* as it is to be, which has not failed then, or leaves it alone; it settles
\* only if it has written all, and stops only at a kind that fails.
GatewayRuns(order) ==
  LET New(kind) == GatewayObject(kind, gwLive[kind], Gateway, order)
      Fails(kind) == GatewayFails(kind, New(kind), Gateway) IN
  /\ DOMAIN gwLive' = AllGatewayKinds /\ IsMap(gwLive')
  /\ \A kind \in AllGatewayKinds :
       gwLive'[kind] = gwLive[kind] \/ (~Fails(kind) /\ gwLive'[kind] = New(kind))
  /\ gwPass' \in {"settled", "rejected"} \cup GatewayKinds
  /\ gwPass' = "settled" =>
       /\ G!Valid(Gateway) /\ bindings' = Bind(Gateway, G!getServiceAccount(Gateway), "higress-gateway")
       /\ \A kind \in AllGatewayKinds : ~Fails(kind) /\ gwLive'[kind] = New(kind)
  /\ gwPass' \in GatewayKinds => Fails(gwPass') /\ gwLive'[gwPass'] = gwLive[gwPass']
  /\ bindings' \in {bindings, Bind(Gateway, G!getServiceAccount(Gateway), "higress-gateway")}
  /\ UNCHANGED <<gw, ctlVars, part, clearsPolicy>>

\* Every pass is one of these.
LEMMA GatewayPassRuns ==
  ASSUME DOMAIN gwLive = AllGatewayKinds, GatewayPass
  PROVE  \E order \in EnvOrders(Gateway) : GatewayRuns(order)
<1> DEFINE calls == GatewayCalls(Gateway)
           New(order, kind) == GatewayObject(kind, gwLive[kind], Gateway, order)
           Failing(order) == {kind \in DOMAIN gwLive : GatewayFails(kind, New(order, kind), Gateway)}
<1>1. PICK order \in EnvOrders(Gateway) : \E n \in Stops(calls, Failing(order)) :
        /\ gwLive' = [kind \in DOMAIN gwLive |->
                       IF kind \in FirstOf(calls, n) THEN New(order, kind) ELSE gwLive[kind]]
        /\ gwPass' = IF n < Len(calls) THEN calls[n + 1]
                     ELSE IF G!Valid(Gateway) THEN "settled" ELSE "rejected"
        /\ bindings' = IF G!Valid(Gateway)
                       THEN Bind(Gateway, G!getServiceAccount(Gateway), "higress-gateway")
                       ELSE bindings
        /\ UNCHANGED <<gw, ctlVars, part, clearsPolicy>>
  BY DEF GatewayPass, Gateway
<1>2. PICK n \in Stops(calls, Failing(order)) :
        /\ gwLive' = [kind \in DOMAIN gwLive |->
                       IF kind \in FirstOf(calls, n) THEN New(order, kind) ELSE gwLive[kind]]
        /\ gwPass' = IF n < Len(calls) THEN calls[n + 1]
                     ELSE IF G!Valid(Gateway) THEN "settled" ELSE "rejected"
        /\ bindings' = IF G!Valid(Gateway)
                       THEN Bind(Gateway, G!getServiceAccount(Gateway), "higress-gateway")
                       ELSE bindings
        /\ UNCHANGED <<gw, ctlVars, part, clearsPolicy>>
  BY <1>1
<1>3. /\ calls \in Seq(AllGatewayKinds)
      /\ G!Valid(Gateway) => Members(calls) = AllGatewayKinds
  BY GatewayCallsCover
<1>4. "serviceAccounts" \notin Failing(order)
  BY DEF GatewayFails
<1>5. \A kind \in AllGatewayKinds : kind \in Failing(order) <=> GatewayFails(kind, New(order, kind), Gateway)
  OBVIOUS
<1> HIDE DEF calls, New, Failing
<1>6. /\ n \in 0..Len(calls) /\ FirstOf(calls, n) \cap Failing(order) = {}
      /\ n < Len(calls) => calls[n + 1] \in Failing(order) \cap Members(calls)
      /\ ~(n < Len(calls)) => FirstOf(calls, n) = Members(calls)
  BY <1>2, <1>3, StopsAtFailure
<1>7. Members(calls) \subseteq AllGatewayKinds
  BY <1>3, LenProperties, ElementOfSeq DEF Members
<1>8. /\ DOMAIN gwLive' = AllGatewayKinds /\ IsMap(gwLive')
      /\ \A kind \in AllGatewayKinds :
           gwLive'[kind] = IF kind \in FirstOf(calls, n) THEN New(order, kind) ELSE gwLive[kind]
  BY <1>2 DEF IsMap
<1>9. \A kind \in AllGatewayKinds :
        \/ gwLive'[kind] = gwLive[kind]
        \/ ~GatewayFails(kind, New(order, kind), Gateway) /\ gwLive'[kind] = New(order, kind)
  BY <1>5, <1>6, <1>8
<1>10. CASE n < Len(calls)
  <2>1. /\ gwPass' \in Failing(order) /\ gwPass' \in AllGatewayKinds /\ gwPass' # "serviceAccounts"
        /\ gwPass' \notin FirstOf(calls, n)
    BY <1>2, <1>4, <1>6, <1>7, <1>10
  <2>2. gwPass' \in GatewayKinds
    BY <2>1 DEF AllGatewayKinds
  <2>3. gwPass' # "settled"
    BY <2>2 DEF GatewayKinds
  <2>4. GatewayFails(gwPass', New(order, gwPass'), Gateway) /\ gwLive'[gwPass'] = gwLive[gwPass']
    BY <1>5, <1>8, <2>1
  <2> QED BY <1>2, <1>8, <1>9, <2>2, <2>3, <2>4 DEF GatewayRuns, New
<1>11. CASE ~(n < Len(calls))
  <2>1. gwPass' = IF G!Valid(Gateway) THEN "settled" ELSE "rejected"
    BY <1>2, <1>11
  <2>2. gwPass' \notin GatewayKinds /\ (gwPass' = "settled" => G!Valid(Gateway))
    BY <2>1 DEF GatewayKinds
  <2>3. G!Valid(Gateway) => FirstOf(calls, n) = AllGatewayKinds
    BY <1>3, <1>6, <1>11
  <2>4. G!Valid(Gateway) =>
          \A kind \in AllGatewayKinds :
            ~GatewayFails(kind, New(order, kind), Gateway) /\ gwLive'[kind] = New(order, kind)
    BY <1>5, <1>6, <1>8, <2>3
  <2> QED BY <1>2, <1>8, <1>9, <2>1, <2>2, <2>4 DEF GatewayRuns, New
<1> QED BY <1>10, <1>11

\* What a pass of the controller's reconciler does.
ControllerRuns ==
  LET New(kind) == ControllerObject(kind, ctlLive[kind], Controller)
      Fails(kind) == ControllerFails(kind, New(kind), Controller) IN
  /\ DOMAIN ctlLive' = AllControllerKinds /\ IsMap(ctlLive')
  /\ \A kind \in AllControllerKinds :
       ctlLive'[kind] = ctlLive[kind] \/ (~Fails(kind) /\ ctlLive'[kind] = New(kind))
  /\ ctlPass' \in {"settled"} \cup ControllerKinds
  /\ ctlPass' = "settled" =>
       \A kind \in AllControllerKinds : ~Fails(kind) /\ ctlLive'[kind] = New(kind)
  /\ ctlPass' \in ControllerKinds => Fails(ctlPass') /\ ctlLive'[ctlPass'] = ctlLive[ctlPass']
  /\ bindings' = Bind(Controller, C!getServiceAccount(Controller), "higress-controller")
  /\ UNCHANGED <<ctl, gwVars, part, clearsPolicy>>

\* Every pass is one of these.
LEMMA ControllerPassRuns ==
  ASSUME DOMAIN ctlLive = AllControllerKinds, ControllerPass
  PROVE  ControllerRuns
<1> DEFINE calls == ControllerCalls
           New(kind) == ControllerObject(kind, ctlLive[kind], Controller)
           Failing == {kind \in DOMAIN ctlLive : ControllerFails(kind, New(kind), Controller)}
<1>1. PICK n \in Stops(calls, Failing) :
        /\ ctlLive' = [kind \in DOMAIN ctlLive |->
                        IF kind \in FirstOf(calls, n) THEN New(kind) ELSE ctlLive[kind]]
        /\ ctlPass' = IF n < Len(calls) THEN calls[n + 1] ELSE "settled"
        /\ bindings' = Bind(Controller, C!getServiceAccount(Controller), "higress-controller")
        /\ UNCHANGED <<ctl, gwVars, part, clearsPolicy>>
  BY DEF ControllerPass, Controller
<1>2. calls \in Seq(AllControllerKinds) /\ Members(calls) = AllControllerKinds
  BY ControllerCallsCover
<1>3. "serviceAccounts" \notin Failing
  BY DEF ControllerFails
<1>4. \A kind \in AllControllerKinds : kind \in Failing <=> ControllerFails(kind, New(kind), Controller)
  OBVIOUS
<1> HIDE DEF calls, New, Failing
<1>5. /\ n \in 0..Len(calls) /\ FirstOf(calls, n) \cap Failing = {}
      /\ n < Len(calls) => calls[n + 1] \in Failing \cap Members(calls)
      /\ ~(n < Len(calls)) => FirstOf(calls, n) = Members(calls)
  BY <1>1, <1>2, StopsAtFailure
<1>6. /\ DOMAIN ctlLive' = AllControllerKinds /\ IsMap(ctlLive')
      /\ \A kind \in AllControllerKinds :
           ctlLive'[kind] = IF kind \in FirstOf(calls, n) THEN New(kind) ELSE ctlLive[kind]
  BY <1>1 DEF IsMap
<1>7. \A kind \in AllControllerKinds :
        \/ ctlLive'[kind] = ctlLive[kind]
        \/ ~ControllerFails(kind, New(kind), Controller) /\ ctlLive'[kind] = New(kind)
  BY <1>4, <1>5, <1>6
<1>8. CASE n < Len(calls)
  <2>1. /\ ctlPass' \in Failing /\ ctlPass' \in AllControllerKinds /\ ctlPass' # "serviceAccounts"
        /\ ctlPass' \notin FirstOf(calls, n)
    BY <1>1, <1>2, <1>3, <1>5, <1>8
  <2>2. ctlPass' \in ControllerKinds
    BY <2>1 DEF AllControllerKinds
  <2>3. ctlPass' # "settled"
    BY <2>2 DEF ControllerKinds
  <2>4. ControllerFails(ctlPass', New(ctlPass'), Controller) /\ ctlLive'[ctlPass'] = ctlLive[ctlPass']
    BY <1>4, <1>6, <2>1
  <2> QED BY <1>1, <1>6, <1>7, <2>2, <2>3, <2>4 DEF ControllerRuns, New
<1>9. CASE ~(n < Len(calls))
  <2>1. ctlPass' = "settled" /\ FirstOf(calls, n) = AllControllerKinds
    BY <1>1, <1>2, <1>5, <1>9
  <2>2. ctlPass' \notin ControllerKinds
    BY <2>1 DEF ControllerKinds
  <2>3. \A kind \in AllControllerKinds :
          ~ControllerFails(kind, New(kind), Controller) /\ ctlLive'[kind] = New(kind)
    BY <1>4, <1>5, <1>6, <2>1
  <2> QED BY <1>1, <1>6, <1>7, <2>1, <2>2, <2>3 DEF ControllerRuns, New
<1> QED BY <1>8, <1>9

---------------------------------------------------------------------------
(* The gateway's objects. *)

\* Creating a Deployment renders it twice, which changes nothing; updating one
\* keeps the replicas under an autoscaler and renders everything else anew.
LEMMA DeploymentRendered ==
  ASSUME NEW old, NEW s, NEW order
  PROVE  GatewayObject("deployment", old, s, order) =
           [G!updateDeploymentSpec(Absent, s, order) EXCEPT !.replicas =
              IF G!shouldPreserveReplicas(s) /\ old # Absent THEN old.replicas ELSE s.replicas]
<1> DEFINE fresh == G!updateDeploymentSpec(Absent, s, order)
<1>1. GatewayObject("deployment", old, s, order) =
        G!updateDeploymentSpec(Base(old, fresh), s, order)
  BY DEF GatewayObject
<1>2. fresh.replicas = s.replicas
  BY DEF G!updateDeploymentSpec
<1>3. \A base : G!updateDeploymentSpec(base, s, order) =
        [fresh EXCEPT !.replicas =
           IF G!shouldPreserveReplicas(s) /\ base # Absent THEN base.replicas ELSE s.replicas]
  BY DEF G!updateDeploymentSpec
<1> HIDE DEF fresh
<1>4. CASE old = Absent
  BY <1>1, <1>2, <1>3, <1>4 DEF Base
<1>5. CASE old # Absent
  BY <1>1, <1>3, <1>5 DEF Base
<1> QED BY <1>4, <1>5 DEF fresh

\* What the rendered Deployment says.
LEMMA DeploymentFields ==
  ASSUME NEW old, NEW s, NEW order
  PROVE  LET new == GatewayObject("deployment", old, s, order) IN
         /\ new.replicas = IF G!shouldPreserveReplicas(s) /\ old # Absent THEN old.replicas ELSE s.replicas
         /\ new.selector = s.selectorLabels /\ new.podLabels = G!buildPodTemplateLabels(s)
         /\ new.rolling = s.rolling /\ new.account = G!PodAccount(s) /\ new.volumes = G!genVolumes(s)
         /\ new.container.mounts = G!genVolumeMounts(s)
         /\ new.container.cpuRequest = IF s.local THEN "missing" ELSE s.cpuRequest
<1> DEFINE fresh == G!updateDeploymentSpec(Absent, s, order)
<1>1. /\ {"replicas", "selector", "podLabels", "rolling", "account", "volumes", "container"}
           \subseteq DOMAIN fresh
      /\ fresh.selector = s.selectorLabels /\ fresh.podLabels = G!buildPodTemplateLabels(s)
      /\ fresh.rolling = s.rolling /\ fresh.account = G!PodAccount(s)
      /\ fresh.volumes = G!genVolumes(s)
      /\ fresh.container.mounts = G!genVolumeMounts(s)
      /\ fresh.container.cpuRequest = IF s.local THEN "missing" ELSE s.cpuRequest
  BY DEF G!updateDeploymentSpec
<1> HIDE DEF fresh
<1>2. GatewayObject("deployment", old, s, order) =
        [fresh EXCEPT !.replicas =
           IF G!shouldPreserveReplicas(s) /\ old # Absent THEN old.replicas ELSE s.replicas]
  BY DeploymentRendered DEF fresh
<1> DEFINE new == GatewayObject("deployment", old, s, order)
<1> HIDE DEF new
<1>3. /\ new.replicas = IF G!shouldPreserveReplicas(s) /\ old # Absent THEN old.replicas ELSE s.replicas
      /\ new.selector = fresh.selector /\ new.podLabels = fresh.podLabels
      /\ new.rolling = fresh.rolling /\ new.account = fresh.account
      /\ new.volumes = fresh.volumes /\ new.container = fresh.container
  BY <1>1, <1>2 DEF new
<1> QED BY <1>1, <1>3 DEF new

\* Every volume a gateway's container mounts is one of its pod's.
LEMMA GatewayMounts ==
  ASSUME NEW s
  PROVE  A!Mountable(G!genVolumeMounts(s), G!genVolumes(s))
<1>1. ASSUME NEW m \in G!genVolumeMounts(s)
      PROVE  \E source : <<m, source>> \in G!genVolumes(s)
  BY <1>1 DEF G!genVolumeMounts, G!genVolumes, G!When
<1>2. ASSUME NEW m \in G!genVolumeMounts(s)
      PROVE  m \in {v[1] : v \in G!genVolumes(s)}
  <2>1. PICK source : <<m, source>> \in G!genVolumes(s)
    BY <1>1
  <2>2. <<m, source>>[1] = m
    OBVIOUS
  <2> QED BY <2>1, <2>2
<1> QED BY <1>2 DEF A!Mountable

\* A scheduling label never hides a label of the selector.
LEMMA SelectorSelects ==
  ASSUME NEW s
  PROVE  A!Selects(s.selectorLabels, G!buildPodTemplateLabels(s))
BY DEF A!Selects, G!buildPodTemplateLabels, G!Merged

\* The only reasons for which the server refuses a gateway's Deployment.
LEMMA DeploymentRefused ==
  ASSUME NEW s, NEW order, GatewayOK(s),
         GatewayFails("deployment", GatewayObject("deployment", gwLive.deployment, s, order), s)
  PROVE  \/ s.rolling = [surge |-> 0, unavailable |-> 0]
         \/ gwLive.deployment # Absent /\ gwLive.deployment.selector # s.selectorLabels
<1> DEFINE new == GatewayObject("deployment", gwLive.deployment, s, order)
<1>1. /\ new.selector = s.selectorLabels /\ new.podLabels = G!buildPodTemplateLabels(s)
      /\ new.rolling = s.rolling /\ new.volumes = G!genVolumes(s)
      /\ new.container.mounts = G!genVolumeMounts(s)
  BY DeploymentFields
<1> HIDE DEF new
<1>2. ~ /\ A!Mountable(new.container.mounts, new.volumes)
        /\ A!SelectorAdmitted(gwLive.deployment, new)
        /\ A!RollingAdmitted(new.rolling)
  BY DEF GatewayFails, new
<1>3. A!Mountable(new.container.mounts, new.volumes) /\ A!Selects(new.selector, new.podLabels)
  BY <1>1, GatewayMounts, SelectorSelects
<1>4. CASE ~A!SelectorAdmitted(gwLive.deployment, new)
  BY <1>1, <1>3, <1>4 DEF A!SelectorAdmitted
<1>5. CASE ~A!RollingAdmitted(new.rolling)
  <2>1. s.rolling \in [surge : Nat, unavailable : Nat] /\ s.rolling.surge = 0 /\ s.rolling.unavailable = 0
    BY <1>1, <1>5 DEF A!RollingAdmitted, GatewayOK
  <2> QED BY <2>1
<1> QED BY <1>2, <1>3, <1>4, <1>5

\* Merging an entry into a map for the second time changes nothing.
LEMMA MergedTwice ==
  ASSUME NEW f, NEW g
  PROVE  G!Merged(f, G!Merged(f, g)) = G!Merged(f, g)
BY DEF G!Merged

\* What updateServiceSpec has rendered it renders again.
LEMMA ServiceRenderedTwice ==
  ASSUME NEW svc, NEW s
  PROVE  G!updateServiceSpec(G!updateServiceSpec(svc, s), s) = G!updateServiceSpec(svc, s)
<1> DEFINE once == G!updateServiceSpec(svc, s)
           entry == G!Entry("topology.istio.io/network", s.network)
<1>1. /\ once.labels = IF s.network = "" THEN svc.labels ELSE G!Merged(entry, svc.labels)
      /\ once.ip = IF s.service.ip # "" THEN s.service.ip ELSE svc.ip
      /\ once.ranges = IF s.service.ranges # {} THEN s.service.ranges ELSE svc.ranges
      /\ once.policy = IF s.service.policy # "" THEN s.service.policy ELSE svc.policy
  BY DEF G!updateServiceSpec, G!PolicySent
<1> HIDE DEF once
<1>2. (IF s.network = "" THEN once.labels ELSE G!Merged(entry, once.labels)) =
        IF s.network = "" THEN svc.labels ELSE G!Merged(entry, svc.labels)
  BY <1>1, MergedTwice
<1>3. (IF s.service.ip # "" THEN s.service.ip ELSE once.ip) =
        IF s.service.ip # "" THEN s.service.ip ELSE svc.ip
  BY <1>1
<1>4. (IF s.service.ranges # {} THEN s.service.ranges ELSE once.ranges) =
        IF s.service.ranges # {} THEN s.service.ranges ELSE svc.ranges
  BY <1>1
<1>5. (IF s.service.policy # "" THEN s.service.policy ELSE once.policy) =
        IF s.service.policy # "" THEN s.service.policy ELSE svc.policy
  BY <1>1
<1>6. G!updateServiceSpec(once, s) = G!updateServiceSpec(svc, s)
  BY <1>2, <1>3, <1>4, <1>5 DEF G!updateServiceSpec, G!PolicySent
<1> QED BY <1>6 DEF once

\* Storing a Service changes nothing but its policy. An external type has one
\* then; another has the one it is sent with, unless the server clears it.
StoredAs(new, old, sent) ==
  /\ new = [sent EXCEPT !.policy = new.policy]
  /\ A!External(sent.type) => new.policy # "" /\ (sent.policy # "" => new.policy = sent.policy)
  /\ ~A!External(sent.type) =>
       IF clearsPolicy /\ old # Absent /\ old.policy = sent.policy THEN new.policy = ""
       ELSE new.policy = sent.policy

LEMMA PolicyStored ==
  ASSUME NEW old, NEW sent, NEW new, "policy" \in DOMAIN sent, new = A!Stored(old, sent, clearsPolicy)
  PROVE  StoredAs(new, old, sent)
<1>1. CASE A!External(sent.type) /\ sent.policy = ""
  BY <1>1 DEF A!Stored, A!StoredPolicy, StoredAs
<1>2. CASE A!External(sent.type) /\ sent.policy # ""
  BY <1>2 DEF A!Stored, A!StoredPolicy, StoredAs
<1>3. CASE ~A!External(sent.type)
  BY <1>3 DEF A!Stored, A!StoredPolicy, StoredAs
<1> QED BY <1>1, <1>2, <1>3

\* A Service is what its spec renders, whatever policy it is stored with.
Renders(svc, s) == svc = [G!updateServiceSpec(svc, s) EXCEPT !.policy = svc.policy]

\* What a pass makes of the Service old.
IsService(new, old, s) ==
  /\ Renders(new, s) /\ new.type = s.service.type
  /\ new.ports = IF s.network # "" THEN G!NetworkPorts ELSE s.service.ports
  /\ new.ranges = IF s.service.ranges # {} THEN s.service.ranges
                  ELSE IF old # Absent THEN old.ranges ELSE {}
  /\ A!External(s.service.type) =>
       new.policy # "" /\ (s.service.policy # "" => new.policy = s.service.policy)
  /\ ~A!External(s.service.type) /\ new.policy # "" => s.service.policy # "" \/ KeptPolicy(old)

\* A gateway's Service is what its spec renders once it is written.
LEMMA ServiceRendered ==
  ASSUME NEW old, NEW s, NEW order
  PROVE  IsService(GatewayObject("service", old, s, order), old, s)
<1> DEFINE new == GatewayObject("service", old, s, order)
           first == G!updateServiceSpec(G!initService(s), s)
           base == Base(old, first)
           sent == G!updateServiceSpec(base, s)
<1>1. new = A!Stored(old, sent, clearsPolicy)
  BY DEF GatewayObject
<1>2. first.ranges = (IF s.service.ranges # {} THEN s.service.ranges ELSE {})
      /\ first.policy = s.service.policy
  <2>1. G!initService(s).ranges = {} /\ G!initService(s).policy = ""
    BY DEF G!initService
  <2>2. \A svc : /\ G!updateServiceSpec(svc, s).ranges =
                      IF s.service.ranges # {} THEN s.service.ranges ELSE svc.ranges
                 /\ G!updateServiceSpec(svc, s).policy =
                      IF s.service.policy # "" THEN s.service.policy ELSE svc.policy
    BY DEF G!updateServiceSpec, G!PolicySent
  <2> QED BY <2>1, <2>2
<1> HIDE DEF first
<1>3. base = IF old # Absent THEN old ELSE first
  BY DEF Base
<1> HIDE DEF base
<1>4. /\ sent.type = s.service.type
      /\ sent.ports = IF s.network # "" THEN G!NetworkPorts ELSE s.service.ports
      /\ sent.ranges = IF s.service.ranges # {} THEN s.service.ranges ELSE base.ranges
      /\ sent.policy = IF s.service.policy # "" THEN s.service.policy ELSE base.policy
      /\ "policy" \in DOMAIN sent
      /\ {"type", "ports", "ranges", "labels", "ip"} \subseteq DOMAIN sent
  BY DEF G!updateServiceSpec, G!PolicySent
<1>5. G!updateServiceSpec(sent, s) = sent
  BY ServiceRenderedTwice
<1> HIDE DEF sent, new
<1>6. StoredAs(new, old, sent)
  BY <1>1, <1>4, PolicyStored, Zenon
<1>7. new.type = sent.type /\ new.ports = sent.ports /\ new.ranges = sent.ranges
  BY <1>4, <1>6 DEF StoredAs
<1>8. Renders(new, s)
  <2>1. ASSUME NEW svc, NEW again, NEW policy,
               again.labels = svc.labels, again.ip = svc.ip, again.ranges = svc.ranges
        PROVE  [G!updateServiceSpec(again, s) EXCEPT !.policy = policy]
                 = [G!updateServiceSpec(svc, s) EXCEPT !.policy = policy]
    <3> DEFINE Labels(v) == IF s.network = "" THEN v.labels
                            ELSE G!Merged(G!Entry("topology.istio.io/network", s.network), v.labels)
               Ip(v) == IF s.service.ip # "" THEN s.service.ip ELSE v.ip
               Ranges(v) == IF s.service.ranges # {} THEN s.service.ranges ELSE v.ranges
               Policy(v) == IF s.service.policy # "" THEN s.service.policy ELSE v.policy
               Sent == IF s.network # "" THEN G!NetworkPorts ELSE s.service.ports
               Rendered(v, p) ==
                 [labels |-> Labels(v), selector |-> s.selectorLabels, ip |-> Ip(v),
                  ranges |-> Ranges(v), policy |-> p, type |-> s.service.type, ports |-> Sent]
    <3>1. \A v : G!updateServiceSpec(v, s) = Rendered(v, Policy(v))
      BY DEF G!updateServiceSpec, G!PolicySent
    <3>2. Labels(again) = Labels(svc) /\ Ip(again) = Ip(svc) /\ Ranges(again) = Ranges(svc)
      BY <2>1
    <3> HIDE DEF Labels, Ip, Ranges, Policy, Sent
    <3>3. \A v, p : [Rendered(v, p) EXCEPT !.policy = policy] = Rendered(v, policy)
      OBVIOUS
    <3>4. Rendered(again, policy) = Rendered(svc, policy)
      BY <3>2
    <3> HIDE DEF Rendered
    <3> QED BY <3>1, <3>3, <3>4
  <2>2. PICK policy : policy = new.policy
    OBVIOUS
  <2>3. new = [sent EXCEPT !.policy = policy]
    BY <1>6, <2>2 DEF StoredAs
  <2>4. [G!updateServiceSpec(new, s) EXCEPT !.policy = policy] = [sent EXCEPT !.policy = policy]
    <3>1. new.labels = sent.labels /\ new.ip = sent.ip /\ new.ranges = sent.ranges
      BY <1>4, <2>3
    <3> QED BY <1>5, <2>1, <3>1
  <2> QED BY <2>2, <2>3, <2>4 DEF Renders
<1>9. new.ranges = IF s.service.ranges # {} THEN s.service.ranges
                   ELSE IF old # Absent THEN old.ranges ELSE {}
  BY <1>2, <1>3, <1>4, <1>7
<1>10. A!External(s.service.type) =>
         new.policy # "" /\ (s.service.policy # "" => new.policy = s.service.policy)
  BY <1>4, <1>6 DEF StoredAs
<1>11. ~A!External(s.service.type) /\ new.policy # "" => s.service.policy # "" \/ KeptPolicy(old)
  <2> SUFFICES ASSUME ~A!External(s.service.type), new.policy # "", s.service.policy = ""
               PROVE  KeptPolicy(old)
    OBVIOUS
  <2>1. sent.policy # "" /\ sent.policy = base.policy
    BY <1>4, <1>6 DEF StoredAs
  <2>2. old # Absent /\ old.policy = sent.policy
    BY <1>2, <1>3, <2>1
  <2>3. ~clearsPolicy
    BY <1>4, <1>6, <2>2 DEF StoredAs
  <2> QED BY <2>1, <2>2, <2>3 DEF KeptPolicy
<1> QED BY <1>4, <1>7, <1>8, <1>9, <1>10, <1>11 DEF new, IsService

\* The operators give their ports names.
LEMMA OwnPortsHaveNames ==
  A!NoName \notin {"status-port", "tls", "tls-istiod", "tls-webhook",
                  "grpc-xds", "https-dns", "https-webhook", "https-monitoring"}
BY Zenon DEF A!NoName

\* The ports of a gateway that joins a network have names and do not repeat.
LEMMA NetworkPortsAdmitted == A!PortsAdmitted(G!NetworkPorts)
<1> DEFINE p == G!NetworkPorts
<1>1. /\ Len(p) = 4
      /\ p[1] = <<"status-port", 15021>> /\ p[2] = <<"tls", 15443>>
      /\ p[3] = <<"tls-istiod", 15012>> /\ p[4] = <<"tls-webhook", 15017>>
  BY DEF G!NetworkPorts
<1>2. /\ p[1][1] = "status-port" /\ p[2][1] = "tls" /\ p[3][1] = "tls-istiod" /\ p[4][1] = "tls-webhook"
      /\ p[1][2] = 15021 /\ p[2][2] = 15443 /\ p[3][2] = 15012 /\ p[4][2] = 15017
  BY <1>1
<1>3. p # <<>>
  BY <1>1
<1> HIDE DEF p
<1>4. ASSUME NEW i \in 1..4, NEW j \in 1..4, i # j
      PROVE  p[i][1] # p[j][1] /\ p[i][2] # p[j][2]
  <2>1. i \in {1, 2, 3, 4} /\ j \in {1, 2, 3, 4}
    BY <1>4
  <2> QED BY <1>2, <1>4, <2>1
<1>5. ASSUME NEW i \in 1..4
      PROVE  p[i][1] # A!NoName
  <2>1. i \in {1, 2, 3, 4}
    BY <1>5
  <2> QED BY <1>2, <2>1, OwnPortsHaveNames
<1> QED BY <1>1, <1>3, <1>4, <1>5 DEF A!PortsAdmitted, p

\* The only reasons for which a gateway's Service is refused.
LEMMA ServiceRefused ==
  ASSUME NEW s, NEW order,
         GatewayFails("service", GatewayObject("service", gwLive.service, s, order), s)
  PROVE  \/ s.network # "" /\ s.labels = Unset
         \/ s.network # "" /\ gwLive.service # Absent /\ gwLive.service.labels = Unset
         \/ s.network = "" /\ ~A!PortsAdmitted(s.service.ports)
         \/ /\ s.service.type # "LoadBalancer"
            /\ \/ s.service.ranges # {}
               \/ gwLive.service # Absent /\ gwLive.service.ranges # {}
         \/ ~A!External(s.service.type) /\ (s.service.policy # "" \/ KeptPolicy(gwLive.service))
<1> DEFINE old == gwLive.service
           new == GatewayObject("service", old, s, order)
<1>1. /\ new.type = s.service.type
      /\ new.ports = IF s.network # "" THEN G!NetworkPorts ELSE s.service.ports
      /\ new.ranges = IF s.service.ranges # {} THEN s.service.ranges
                      ELSE IF old # Absent THEN old.ranges ELSE {}
      /\ ~A!External(s.service.type) /\ new.policy # "" => s.service.policy # "" \/ KeptPolicy(old)
  <2>1. IsService(new, old, s)
    BY ServiceRendered
  <2> QED BY <2>1 DEF IsService
<1> HIDE DEF new
<1>2. \/ G!ServicePanics(G!initService(s), s)
      \/ old # Absent /\ G!ServicePanics(old, s)
      \/ ~(A!PortsAdmitted(new.ports) /\ A!RangesAdmitted(new) /\ A!PolicyAdmitted(new))
  BY DEF GatewayFails, new
<1>3. CASE G!ServicePanics(G!initService(s), s)
  <2>1. G!initService(s).labels = s.labels
    BY DEF G!initService
  <2> QED BY <1>3, <2>1 DEF G!ServicePanics
<1>4. CASE old # Absent /\ G!ServicePanics(old, s)
  BY <1>4 DEF G!ServicePanics
<1>5. CASE ~A!PortsAdmitted(new.ports)
  BY <1>1, <1>5, NetworkPortsAdmitted
<1>6. CASE ~A!RangesAdmitted(new)
  BY <1>1, <1>6 DEF A!RangesAdmitted
<1>7. CASE ~A!PolicyAdmitted(new)
  BY <1>1, <1>7 DEF A!PolicyAdmitted
<1> QED BY <1>2, <1>3, <1>4, <1>5, <1>6, <1>7

\* What is sent to an autoscaler, and whether there is to be one, does not
\* depend on what there is.
LEMMA AutoscalersRendered ==
  ASSUME NEW old, NEW s, NEW order
  PROVE  /\ GatewayObject("hpa", old, s, order) = IF ScaledBy("NativeHPA", s) THEN G!muteHPA(s) ELSE Absent
         /\ GatewayObject("scaledObject", old, s, order) =
              IF ScaledBy("KEDA", s)
              THEN [labels |-> s.labels, max |-> s.autoScaling.max, triggers |-> s.autoScaling.keda,
                    min |-> s.autoScaling.min]
              ELSE Absent
BY DEF GatewayObject, G!muteScaledObject

\* The only reasons for which an HPA is refused.
LEMMA HPARefused ==
  ASSUME NEW s, NEW order, NEW old, GatewayOK(s),
         GatewayFails("hpa", GatewayObject("hpa", old, s, order), s)
  PROVE  LET as == s.autoScaling IN
         (as.min # Unset /\ as.min < 1) \/ as.max < 1 \/ as.cpuTarget < 1
<1> DEFINE as == s.autoScaling
           new == GatewayObject("hpa", old, s, order)
<1>1. new # Absent /\ ~A!HPAAdmitted(new)
  BY DEF GatewayFails
<1>2. ScaledBy("NativeHPA", s) /\ new = G!muteHPA(s)
  BY <1>1, AutoscalersRendered
<1> HIDE DEF new
<1>3. new.min = as.min /\ new.max = as.max /\ new.cpuTarget = as.cpuTarget
  BY <1>2 DEF G!muteHPA
<1>4. G!validateAutoscalingConfig(s) = "" /\ G!getEffectiveScaleMode(s) = "NativeHPA"
  BY <1>2 DEF ScaledBy, G!Valid, G!Accepted
<1>5. as # Unset
  BY <1>4 DEF G!getEffectiveScaleMode
<1>6. G!NativeHPAReason(s) = ""
  BY <1>4 DEF G!validateAutoscalingConfig, G!Accepted
<1>7. as.cpuTarget # Unset
  BY <1>6 DEF G!NativeHPAReason
<1>8. /\ as.min # Unset => as.min \in Int
      /\ as.max \in Int /\ as.cpuTarget \in Int
  BY <1>5, <1>7 DEF GatewayOK, G!AutoScalings
<1> HIDE DEF as
<1>9. ASSUME as.min # Unset => as.min >= 1, as.max >= 1, as.cpuTarget >= 1
      PROVE  FALSE
  BY <1>1, <1>3, <1>9 DEF A!HPAAdmitted
<1> QED BY <1>8, <1>9 DEF as

\* The only reason for which a ScaledObject is refused.
LEMMA ScaledObjectRefused ==
  ASSUME NEW s, NEW order, NEW old,
         GatewayFails("scaledObject", GatewayObject("scaledObject", old, s, order), s)
  PROVE  \E t \in s.autoScaling.keda : ~t.metadata
<1> DEFINE new == GatewayObject("scaledObject", old, s, order)
<1>1. new # Absent /\ ~A!ScaledObjectAdmitted(new)
  BY DEF GatewayFails
<1>2. new = [labels |-> s.labels, max |-> s.autoScaling.max, triggers |-> s.autoScaling.keda,
             min |-> s.autoScaling.min]
  BY <1>1, AutoscalersRendered
<1> HIDE DEF new
<1>3. new.triggers = s.autoScaling.keda
  BY <1>2
<1> QED BY <1>1, <1>3 DEF A!ScaledObjectAdmitted

---------------------------------------------------------------------------
(* The validator. *)

\* The validator's verdict is right of every gateway with its defaults.
LEMMA VerdictIsRight ==
  ASSUME GatewayOK(Gateway)
  PROVE  VerdictMatchesRules
<1> DEFINE s == Gateway
           as == Gateway.autoScaling
           verdict == G!validateAutoscalingConfig(Gateway)
<1>1. as \in G!AutoScalings /\ s.local \in BOOLEAN /\ s.cpuRequest \in {"missing", "zero", "set"}
  BY DEF GatewayOK
<1>2. CASE ~On
  <2>1. G!getEffectiveScaleMode(s) = "Disabled"
    BY <1>2 DEF On, G!getEffectiveScaleMode
  <2>2. G!Valid(Gateway)
    BY <2>1 DEF G!Valid, G!validateAutoscalingConfig
  <2>3. \A r \in Reasons : ~Breaks(r)
    BY <1>2 DEF Breaks, Scaling, Effective
  <2> QED BY <2>2, <2>3 DEF VerdictMatchesRules
<1>3. CASE On
  <2>1. /\ as.enable /\ as # Unset /\ as.mode \in {"Disabled", "NativeHPA", "KEDA", ""}
        /\ as.min # Unset => as.min \in Int
        /\ as.max \in Int
    BY <1>1, <1>3 DEF On, G!AutoScalings, G!AutoScalingModes
  <2> DEFINE mode == G!getEffectiveScaleMode(s)
  <2>2. mode = IF as.mode # "" THEN as.mode ELSE IF as.keda # Unset THEN "KEDA" ELSE "NativeHPA"
    BY <2>1 DEF G!getEffectiveScaleMode
  <2>3. /\ mode \in {"Disabled", "NativeHPA", "KEDA"}
        /\ Effective("NativeHPA") <=> mode = "NativeHPA"
        /\ Effective("KEDA") <=> mode = "KEDA"
    BY <1>3, <2>1, <2>2 DEF Effective
  <2>4. verdict = IF mode = "Disabled" THEN ""
                  ELSE IF s.local THEN "LocalModeUnsupported"
                  ELSE IF G!BoundsCrossed(as) THEN "InvalidReplicaBounds"
                  ELSE IF mode = "NativeHPA" THEN G!NativeHPAReason(s)
                  ELSE IF mode = "KEDA" THEN G!KEDAReason(s)
                  ELSE "UnsupportedAutoscalingMode"
    BY DEF G!validateAutoscalingConfig, G!Accepted
  <2>5. G!BoundsCrossed(as) <=> as.min # Unset /\ as.min > as.max
    BY <2>1 DEF G!BoundsCrossed
  <2> HIDE DEF mode, verdict
  <2>6. CASE mode = "Disabled"
    BY <2>3, <2>4, <2>6 DEF VerdictMatchesRules, Breaks, Reasons, Scaling, G!Valid, G!Accepted, verdict
  <2>7. CASE mode # "Disabled" /\ (s.local \/ G!BoundsCrossed(as))
    <3>1. Scaling
      BY <2>3, <2>7 DEF Scaling
    <3>2. Breaks(verdict)
      BY <2>4, <2>5, <2>7, <3>1 DEF Breaks
    <3>3. verdict \in Reasons
      BY <2>4, <2>7 DEF Reasons
    <3> QED BY <3>2, <3>3 DEF VerdictMatchesRules, verdict
  <2>8. CASE mode = "NativeHPA" /\ ~s.local /\ ~G!BoundsCrossed(as)
    <3>1. verdict = IF as.cpuTarget = Unset THEN "MissingCPUTarget"
                    ELSE IF s.cpuRequest # "set" THEN "MissingCPURequest" ELSE ""
      BY <2>4, <2>8 DEF G!NativeHPAReason, G!Accepted
    <3>2. \A r \in Reasons : Breaks(r) <=>
            \/ r = "MissingCPUTarget" /\ as.cpuTarget = Unset
            \/ r = "MissingCPURequest" /\ s.cpuRequest # "set"
      BY <1>1, <2>3, <2>5, <2>8 DEF Breaks, Reasons
    <3> QED BY <3>1, <3>2 DEF VerdictMatchesRules, Reasons, G!Valid, G!Accepted, verdict
  <2>9. CASE mode = "KEDA" /\ ~s.local /\ ~G!BoundsCrossed(as)
    <3>1. verdict = IF as.keda = Unset THEN "MissingKEDAConfig"
                    ELSE IF as.keda = {} THEN "MissingKEDATriggers"
                    ELSE IF \E t \in as.keda : t.type = "" THEN "InvalidKEDATrigger" ELSE ""
      BY <2>4, <2>9 DEF G!KEDAReason, G!Accepted
    <3>2. \A r \in Reasons : Breaks(r) <=>
            \/ r = "MissingKEDAConfig" /\ as.keda = Unset
            \/ r = "MissingKEDATriggers" /\ as.keda = {}
            \/ r = "InvalidKEDATrigger" /\ as.keda # Unset /\ \E t \in as.keda : t.type = ""
      BY <2>3, <2>5, <2>9 DEF Breaks, Reasons
    <3> QED BY <3>1, <3>2 DEF VerdictMatchesRules, Reasons, G!Valid, G!Accepted, verdict
  <2> QED BY <2>3, <2>6, <2>7, <2>8, <2>9
<1> QED BY <1>2, <1>3

\* What the validator accepts an autoscaler can work with.
LEMMA AcceptedScalerCanWork ==
  ASSUME NEW s, GatewayOK(s), G!Valid(s), G!getEffectiveScaleMode(s) # "Disabled"
  PROVE  LET as == s.autoScaling IN
         /\ ~s.local /\ (as.min # Unset => as.min <= as.max)
         /\ G!getEffectiveScaleMode(s) = "NativeHPA" => s.cpuRequest = "set"
         /\ G!getEffectiveScaleMode(s) = "KEDA" => as.keda # Unset /\ as.keda # {}
<1> DEFINE as == s.autoScaling
           mode == G!getEffectiveScaleMode(s)
<1>1. G!validateAutoscalingConfig(s) = ""
  BY DEF G!Valid, G!Accepted
<1>2. as # Unset
  BY DEF G!getEffectiveScaleMode
<1>3. as.max \in Int /\ (as.min # Unset => as.min \in Int)
  BY <1>2 DEF GatewayOK, G!AutoScalings
<1> HIDE DEF mode
<1>4. /\ ~s.local /\ ~G!BoundsCrossed(as)
      /\ mode = "NativeHPA" => G!NativeHPAReason(s) = ""
      /\ mode = "KEDA" => G!KEDAReason(s) = ""
  BY <1>1 DEF G!validateAutoscalingConfig, G!Accepted, mode
<1>5. mode = "NativeHPA" => s.cpuRequest = "set"
  BY <1>4 DEF G!NativeHPAReason
<1>6. mode = "KEDA" => as.keda # Unset /\ as.keda # {}
  BY <1>4 DEF G!KEDAReason
<1>7. as.min # Unset => as.min <= as.max
  <2> SUFFICES ASSUME as.min # Unset
               PROVE  as.min <= as.max
    OBVIOUS
  <2>1. as.min \in Int /\ as.max \in Int
    BY <1>3
  <2>2. ~(as.max < as.min)
    BY <1>4 DEF G!BoundsCrossed
  <2>3. \A a, b \in Int : ~(b < a) => a <= b
    OBVIOUS
  <2> HIDE DEF as
  <2> QED BY <2>1, <2>2, <2>3, Zenon
<1> QED BY <1>4, <1>5, <1>6, <1>7 DEF mode

---------------------------------------------------------------------------
(* The controller's Service. *)

AllPorts == (STRING \X Int) \cup Members(C!PilotPorts)
Has(ports, name) == \E i \in 1..Len(ports) : ports[i][1] = name
Distinct(ports) ==
  \A i, j \in 1..Len(ports) : i # j => ports[i][1] # ports[j][1] /\ ports[i][2] # ports[j][2]
Apart(p, q) == p[1] # q[1] /\ p[2] # q[2]

\* A port list has a name if one of its ports has it.
LEMMA HasMember ==
  ASSUME NEW ports, NEW name
  PROVE  Has(ports, name) <=> \E p \in Members(ports) : p[1] = name
BY DEF Has, Members

\* What a sequence ranges over is what it holds.
LEMMA RangeIsMembers ==
  ASSUME NEW S, NEW s \in Seq(S)
  PROVE  Range(s) = Members(s)
<1>1. DOMAIN s = 1..Len(s)
  BY LenProperties
<1> QED BY <1>1 DEF Range, Members

\* Joining two lists of ports without repetitions that have no name and no
\* number in common makes one without repetitions.
LEMMA JoinedDistinct ==
  ASSUME NEW S, NEW s \in Seq(S), NEW t \in Seq(S), NEW u, Joins(u, s, t),
         Distinct(s), Distinct(t), \A p \in Members(s), q \in Members(t) : Apart(p, q)
  PROVE  Distinct(u)
<1>1. /\ Len(s) \in Nat /\ Len(t) \in Nat /\ Len(u) = Len(s) + Len(t)
      /\ \A n \in 1..Len(s) : u[n] = s[n]
      /\ \A n \in Len(s) + 1..Len(s) + Len(t) : u[n] = t[n - Len(s)]
  BY LenProperties, ConcatProperties DEF Joins
<1>2. \A n \in 1..Len(u) : \/ n \in 1..Len(s) /\ u[n] = s[n]
                           \/ /\ n \in Len(s) + 1..Len(s) + Len(t)
                              /\ n - Len(s) \in 1..Len(t) /\ u[n] = t[n - Len(s)]
  BY <1>1
<1>3. ASSUME NEW i \in 1..Len(s), NEW j \in 1..Len(t)
      PROVE  Apart(s[i], t[j]) /\ Apart(t[j], s[i])
  <2>1. s[i] \in Members(s) /\ t[j] \in Members(t)
    BY DEF Members
  <2>2. Apart(s[i], t[j])
    BY <2>1
  <2> QED BY <2>2 DEF Apart
<1>4. ASSUME NEW i \in 1..Len(u), NEW j \in 1..Len(u), i # j
      PROVE  Apart(u[i], u[j])
  <2>1. CASE i \in 1..Len(s) /\ j \in 1..Len(s)
    BY <1>1, <1>4, <2>1 DEF Distinct, Apart
  <2>2. CASE i \in 1..Len(s) /\ j \notin 1..Len(s)
    <3>1. u[i] = s[i] /\ j - Len(s) \in 1..Len(t) /\ u[j] = t[j - Len(s)]
      BY <1>2, <2>2
    <3> QED BY <1>3, <2>2, <3>1
  <2>3. CASE i \notin 1..Len(s) /\ j \in 1..Len(s)
    <3>1. u[j] = s[j] /\ i - Len(s) \in 1..Len(t) /\ u[i] = t[i - Len(s)]
      BY <1>2, <2>3
    <3> QED BY <1>3, <2>3, <3>1
  <2>4. CASE i \notin 1..Len(s) /\ j \notin 1..Len(s)
    <3>1. /\ i - Len(s) \in 1..Len(t) /\ u[i] = t[i - Len(s)]
          /\ j - Len(s) \in 1..Len(t) /\ u[j] = t[j - Len(s)]
      BY <1>2, <2>4
    <3>2. i - Len(s) # j - Len(s)
      BY <1>1, <1>4
    <3> QED BY <3>1, <3>2 DEF Distinct, Apart
  <2> QED BY <2>1, <2>2, <2>3, <2>4
<1> QED BY <1>4 DEF Distinct, Apart

\* The pilot's ports differ in their names and their numbers.
LEMMA PilotPortsApart ==
  LET P == C!PilotPorts IN
  /\ Len(P) = 4
  /\ P[1][1] = "grpc-xds" /\ P[2][1] = "https-dns"
  /\ P[3][1] = "https-webhook" /\ P[4][1] = "https-monitoring"
  /\ P[1][2] = 15010 /\ P[2][2] = 15012 /\ P[3][2] = 443 /\ P[4][2] = 15014
  /\ Members(P) = {P[1], P[2], P[3], P[4]}
<1> DEFINE P == C!PilotPorts
<1>1. /\ Len(P) = 4
      /\ P[1] = <<"grpc-xds", 15010>> /\ P[2] = <<"https-dns", 15012>>
      /\ P[3] = <<"https-webhook", 443>> /\ P[4] = <<"https-monitoring", 15014>>
  BY DEF C!PilotPorts
<1> HIDE DEF P
<1>2. /\ P[1][1] = "grpc-xds" /\ P[2][1] = "https-dns"
      /\ P[3][1] = "https-webhook" /\ P[4][1] = "https-monitoring"
      /\ P[1][2] = 15010 /\ P[2][2] = 15012 /\ P[3][2] = 443 /\ P[4][2] = 15014
  BY <1>1
<1>3. 1..Len(P) = {1, 2, 3, 4}
  BY <1>1
<1>4. Members(P) = {P[1], P[2], P[3], P[4]}
  BY <1>3 DEF Members
<1> QED BY <1>1, <1>2, <1>4 DEF P

\* A missing port makes a list of one, a port that is there an empty one.
LEMMA MissingPort ==
  ASSUME NEW ports, NEW p \in AllPorts
  PROVE  /\ C!Missing(p, ports) \in Seq(AllPorts)
         /\ Members(C!Missing(p, ports)) = IF Has(ports, p[1]) THEN {} ELSE {p}
         /\ Distinct(C!Missing(p, ports))
<1>1. CASE Has(ports, p[1])
  <2>1. C!Missing(p, ports) = <<>>
    BY <1>1 DEF C!Missing, Has
  <2> QED BY <1>1, <2>1 DEF Members, Distinct
<1>2. CASE ~Has(ports, p[1])
  <2>1. C!Missing(p, ports) = <<p>>
    BY <1>2 DEF C!Missing, Has
  <2> QED BY <1>2, <2>1 DEF Members, Distinct
<1> QED BY <1>1, <1>2

\* The ports that are appended are the pilot's whose names are free.
LEMMA AppendedPorts ==
  ASSUME NEW ports
  PROVE  /\ C!Appended(ports) \in Seq(AllPorts)
         /\ Members(C!Appended(ports)) = {p \in Members(C!PilotPorts) : ~Has(ports, p[1])}
         /\ Distinct(C!Appended(ports))
<1> DEFINE P == C!PilotPorts
           M(i) == C!Missing(P[i], ports)
           front == M(1) \o M(2)
           back == M(3) \o M(4)
<1>1. /\ Members(P) = {P[1], P[2], P[3], P[4]}
      /\ P[1][1] = "grpc-xds" /\ P[2][1] = "https-dns"
      /\ P[3][1] = "https-webhook" /\ P[4][1] = "https-monitoring"
      /\ P[1][2] = 15010 /\ P[2][2] = 15012 /\ P[3][2] = 443 /\ P[4][2] = 15014
  BY PilotPortsApart
<1>2. ASSUME NEW i \in {1, 2, 3, 4}
      PROVE  /\ M(i) \in Seq(AllPorts) /\ Distinct(M(i))
             /\ Members(M(i)) = IF Has(ports, P[i][1]) THEN {} ELSE {P[i]}
  <2>1. P[i] \in AllPorts
    BY <1>1 DEF AllPorts
  <2> QED BY <2>1, MissingPort
<1>3. Joins(front, M(1), M(2)) /\ Joins(back, M(3), M(4)) /\ Joins(C!Appended(ports), front, back)
  BY DEF Joins, C!Appended
<1> HIDE DEF P, M, front, back
<1>4. /\ front \in Seq(AllPorts) /\ Members(front) = Members(M(1)) \cup Members(M(2))
      /\ back \in Seq(AllPorts) /\ Members(back) = Members(M(3)) \cup Members(M(4))
  BY <1>2, <1>3, ConcatMembers
<1>5. /\ C!Appended(ports) \in Seq(AllPorts)
      /\ Members(C!Appended(ports)) = Members(front) \cup Members(back)
  BY <1>3, <1>4, ConcatMembers
<1>6. Members(C!Appended(ports)) = {p \in Members(P) : ~Has(ports, p[1])}
  BY <1>1, <1>2, <1>4, <1>5
<1>7. /\ Members(M(1)) \subseteq {P[1]} /\ Members(M(2)) \subseteq {P[2]}
      /\ Members(M(3)) \subseteq {P[3]} /\ Members(M(4)) \subseteq {P[4]}
  BY <1>2
<1>8. Distinct(front)
  <2>1. \A p \in Members(M(1)), q \in Members(M(2)) : Apart(p, q)
    BY <1>1, <1>7 DEF Apart
  <2> QED BY <1>2, <1>3, <2>1, JoinedDistinct
<1>9. Distinct(back)
  <2>1. \A p \in Members(M(3)), q \in Members(M(4)) : Apart(p, q)
    BY <1>1, <1>7 DEF Apart
  <2> QED BY <1>2, <1>3, <2>1, JoinedDistinct
<1>10. Distinct(C!Appended(ports))
  <2>1. \A p \in Members(front), q \in Members(back) : Apart(p, q)
    BY <1>1, <1>4, <1>7 DEF Apart
  <2> QED BY <1>3, <1>4, <1>8, <1>9, <2>1, JoinedDistinct
<1> QED BY <1>5, <1>6, <1>10 DEF P

\* The ports of the controller's Service, of the ports that the spec gives or
\* leaves.
FinalPorts(ports, s) == IF s.enableHigressIstio THEN ports ELSE ports \o C!Appended(ports)

\* They hold every name of the pilot's, and appending again appends nothing.
LEMMA PortsAppendedOnce ==
  ASSUME NEW ports \in Seq(AllPorts), NEW s
  PROVE  LET final == FinalPorts(ports, s) IN
         /\ final \in Seq(AllPorts)
         /\ ~s.enableHigressIstio =>
              /\ Members(final) = Members(ports) \cup {p \in Members(C!PilotPorts) : ~Has(ports, p[1])}
              /\ \A p \in Members(C!PilotPorts) : Has(final, p[1])
<1> DEFINE final == FinalPorts(ports, s)
<1>1. CASE s.enableHigressIstio
  BY <1>1 DEF FinalPorts
<1>2. CASE ~s.enableHigressIstio
  <2>1. Joins(final, ports, C!Appended(ports))
    BY <1>2 DEF Joins, FinalPorts
  <2> HIDE DEF final
  <2>2. final \in Seq(AllPorts) /\ Members(final) = Members(ports) \cup Members(C!Appended(ports))
    BY <2>1, AppendedPorts, ConcatMembers
  <2>3. Members(final) = Members(ports) \cup {p \in Members(C!PilotPorts) : ~Has(ports, p[1])}
    BY <2>2, AppendedPorts
  <2>4. \A p \in Members(C!PilotPorts) : Has(final, p[1])
    BY <2>3, HasMember
  <2> QED BY <2>2, <2>3, <2>4 DEF final
<1> QED BY <1>1, <1>2

\* Ports with all names of the pilot's are left as they are.
LEMMA NothingIsAppended ==
  ASSUME NEW ports \in Seq(AllPorts), NEW s,
         ~s.enableHigressIstio => \A p \in Members(C!PilotPorts) : Has(ports, p[1])
  PROVE  FinalPorts(ports, s) = ports
<1>1. CASE s.enableHigressIstio
  BY <1>1 DEF FinalPorts
<1>2. CASE ~s.enableHigressIstio
  <2>1. Members(C!Appended(ports)) = {}
    BY <1>2, AppendedPorts
  <2>2. C!Appended(ports) \in Seq(AllPorts)
    BY AppendedPorts
  <2>3. Len(C!Appended(ports)) = 0
    <3>1. Len(C!Appended(ports)) \in Nat
      BY <2>2, LenProperties
    <3>2. 1 \notin 1..Len(C!Appended(ports))
      BY <2>1 DEF Members
    <3> QED BY <3>1, <3>2
  <2>4. C!Appended(ports) = <<>>
    BY <2>2, <2>3, EmptySeq
  <2>5. ports \o <<>> = ports
    BY ConcatEmptySeq
  <2> QED BY <1>2, <2>4, <2>5 DEF FinalPorts
<1> QED BY <1>1, <1>2

\* The server's rule for ports, in the words of this module.
Named(ports) == \A p \in Members(ports) : p[1] # A!NoName

LEMMA PortsRule ==
  ASSUME NEW ports
  PROVE  A!PortsAdmitted(ports) <=>
           ports # <<>> /\ Distinct(ports) /\ (Len(ports) > 1 => Named(ports))
<1>1. Named(ports) <=> \A i \in 1..Len(ports) : ports[i][1] # A!NoName
  BY DEF Named, Members
<1> QED BY <1>1 DEF A!PortsAdmitted, Distinct

\* The pilot's ports spoil ports that are admitted only by their company, when
\* one has no name, or by a number of theirs under another name.
LEMMA AppendedRefused ==
  ASSUME NEW ports \in Seq(AllPorts), NEW s, ~A!PortsAdmitted(FinalPorts(ports, s))
  PROVE  \/ ports = <<>> /\ s.enableHigressIstio
         \/ ports # <<>> /\ ~A!PortsAdmitted(ports)
         \/ /\ ~s.enableHigressIstio
            /\ \E p \in Range(ports) :
                 p[1] = A!NoName \/ \E q \in Range(C!PilotPorts) : p[2] = q[2] /\ p[1] # q[1]
<1>1. CASE s.enableHigressIstio
  BY <1>1 DEF FinalPorts, A!PortsAdmitted
<1>2. CASE ~s.enableHigressIstio
  <2> SUFFICES ASSUME Distinct(ports), Named(ports),
                      \A p \in Members(ports), q \in Members(C!PilotPorts) : p[2] # q[2] \/ p[1] = q[1]
               PROVE  FALSE
    <3>1. Range(ports) = Members(ports)
      BY RangeIsMembers
    <3>2. Range(C!PilotPorts) = Members(C!PilotPorts)
      <4>1. DOMAIN C!PilotPorts = 1..Len(C!PilotPorts)
        BY DEF C!PilotPorts
      <4> QED BY <4>1 DEF Range, Members
    <3>3. CASE ~Distinct(ports)
      <4>1. ports # <<>>
        BY <3>3 DEF Distinct
      <4> QED BY <3>3, <4>1, PortsRule
    <3>4. CASE ~Named(ports)
      BY <1>2, <3>1, <3>4 DEF Named
    <3>5. CASE \E p \in Members(ports), q \in Members(C!PilotPorts) : p[2] = q[2] /\ p[1] # q[1]
      BY <1>2, <3>1, <3>2, <3>5
    <3> QED BY <3>3, <3>4, <3>5
  <2>1. Joins(FinalPorts(ports, s), ports, C!Appended(ports))
    BY <1>2 DEF Joins, FinalPorts
  <2>2. /\ C!Appended(ports) \in Seq(AllPorts) /\ Distinct(C!Appended(ports))
        /\ Members(C!Appended(ports)) = {p \in Members(C!PilotPorts) : ~Has(ports, p[1])}
    BY AppendedPorts
  <2>3. ASSUME NEW p \in Members(ports), NEW q \in Members(C!Appended(ports))
        PROVE  Apart(p, q)
    <3>1. q \in Members(C!PilotPorts) /\ ~Has(ports, q[1])
      BY <2>2
    <3>2. p[1] # q[1]
      BY <3>1, HasMember
    <3> QED BY <3>1, <3>2 DEF Apart
  <2>4. Distinct(FinalPorts(ports, s))
    BY <2>1, <2>2, <2>3, JoinedDistinct
  <2>5. FinalPorts(ports, s) # <<>>
    <3>1. \A p \in Members(C!PilotPorts) : Has(FinalPorts(ports, s), p[1])
      BY <1>2, PortsAppendedOnce
    <3>2. C!PilotPorts[1] \in Members(C!PilotPorts)
      BY PilotPortsApart
    <3>3. ~Has(<<>>, C!PilotPorts[1][1])
      BY DEF Has
    <3> QED BY <3>1, <3>2, <3>3
  <2>6. Named(FinalPorts(ports, s))
    <3>1. Members(FinalPorts(ports, s)) =
            Members(ports) \cup {p \in Members(C!PilotPorts) : ~Has(ports, p[1])}
      BY <1>2, PortsAppendedOnce
    <3>2. \A p \in Members(C!PilotPorts) : p[1] # A!NoName
      BY PilotPortsApart, OwnPortsHaveNames
    <3> QED BY <3>1, <3>2 DEF Named
  <2> QED BY <2>4, <2>5, <2>6, PortsRule
<1> QED BY <1>1, <1>2

\* The ports a spec may give are among all ports.
LEMMA PortsAreAllPorts == Ports \subseteq Seq(AllPorts)
<1>1. STRING \X Int \subseteq AllPorts
  BY DEF AllPorts
<1>2. \A S, T : S \subseteq T => Seq(S) \subseteq Seq(T)
  OBVIOUS
<1>3. PortNumbers \subseteq Int
  BY DEF PortNumbers
<1>4. STRING \X PortNumbers \subseteq STRING \X Int
  BY <1>3
<1>5. STRING \X PortNumbers \subseteq AllPorts
  BY <1>1, <1>4
<1>6. Seq(STRING \X PortNumbers) \subseteq Seq(AllPorts)
  BY <1>2, <1>5, Zenon
<1> QED BY <1>6 DEF Ports

\* The Service a pass makes of the one that is there, whatever its policy.
IsControllerService(new, given, s) ==
  new = [selector |-> s.selectorLabels, policy |-> new.policy, type |-> C!ServiceType(s),
         ports |-> FinalPorts(given, s)]

\* The policy of the Service that a pass makes of old.
ControllerPolicy(new, old, s) ==
  /\ A!External(C!ServiceType(s)) => new.policy # ""
  /\ ~A!External(C!ServiceType(s)) /\ new.policy # "" => KeptPolicy(old)

\* What is stored of the Service of a controller.
LEMMA ControllerServiceStored ==
  ASSUME NEW old, NEW base, NEW s
  PROVE  LET sent == C!updateServiceSpec(base, s)
             new == A!Stored(old, sent, clearsPolicy)
         IN /\ IsControllerService(new, C!PortsOf(base, s), s)
            /\ base = Absent \/ base = old => ControllerPolicy(new, old, s)
<1> DEFINE sent == C!updateServiceSpec(base, s)
           new == A!Stored(old, sent, clearsPolicy)
<1>1. sent = [selector |-> s.selectorLabels, policy |-> IF base = Absent THEN "" ELSE base.policy,
              type |-> C!ServiceType(s), ports |-> FinalPorts(C!PortsOf(base, s), s)]
  BY DEF C!updateServiceSpec, FinalPorts
<1> HIDE DEF sent, new
<1>2. /\ "policy" \in DOMAIN sent
      /\ sent.type = C!ServiceType(s) /\ sent.policy = IF base = Absent THEN "" ELSE base.policy
  BY <1>1
<1>3. StoredAs(new, old, sent)
  BY <1>2, PolicyStored, Zenon DEF new
<1>4. IsControllerService(new, C!PortsOf(base, s), s)
  <2>1. PICK policy : policy = new.policy
    OBVIOUS
  <2>2. new = [sent EXCEPT !.policy = policy]
    BY <1>3, <2>1 DEF StoredAs
  <2>3. new = [selector |-> s.selectorLabels, policy |-> policy, type |-> C!ServiceType(s),
               ports |-> FinalPorts(C!PortsOf(base, s), s)]
    BY <1>1, <2>2
  <2> QED BY <2>1, <2>3 DEF IsControllerService
<1>5. base = Absent \/ base = old => ControllerPolicy(new, old, s)
  BY <1>2, <1>3 DEF ControllerPolicy, KeptPolicy, StoredAs
<1> QED BY <1>4, <1>5 DEF new, sent

\* Whether it creates or updates the Service, a pass appends the pilot's ports
\* once to those the spec gives or, if it gives none, leaves.
LEMMA ControllerServiceRendered ==
  ASSUME NEW old, NEW s, ControllerOK(s), old # Absent => old.ports \in Seq(AllPorts)
  PROVE  LET new == ControllerObject("service", old, s) IN
         /\ C!PortsOf(old, s) \in Seq(AllPorts)
         /\ IsControllerService(new, C!PortsOf(old, s), s) /\ ControllerPolicy(new, old, s)
<1> DEFINE given == C!PortsOf(old, s)
           first == C!updateServiceSpec(Absent, s)
           new == ControllerObject("service", old, s)
           sent == C!updateServiceSpec(Base(old, first), s)
<1>1. s.service # Unset => s.service.ports \in Seq(AllPorts)
  BY PortsAreAllPorts DEF ControllerOK
<1>2. <<>> \in Seq(AllPorts)
  BY EmptySeq
<1>3. given \in Seq(AllPorts)
  BY <1>1, <1>2 DEF C!PortsOf
<1>4. new = A!Stored(old, sent, clearsPolicy)
  BY DEF ControllerObject
<1>5. CASE old # Absent
  <2>1. Base(old, first) = old
    BY <1>5 DEF Base
  <2> HIDE DEF new, first
  <2> QED BY <1>3, <1>4, <2>1, ControllerServiceStored DEF new
<1>6. CASE old = Absent
  <2>1. Base(old, first) = first
    BY <1>6 DEF Base
  <2>2. first.ports = FinalPorts(given, s) /\ first.policy = ""
    BY <1>6 DEF C!updateServiceSpec, FinalPorts
  <2>3. sent.policy = "" /\ sent.type = C!ServiceType(s) /\ "policy" \in DOMAIN sent
    <3> HIDE DEF first
    <3> QED BY <2>1, <2>2 DEF C!updateServiceSpec
  <2>4. StoredAs(new, old, sent)
    <3> HIDE DEF sent, new
    <3> QED BY <1>4, <2>3, PolicyStored, Zenon
  <2>5. ControllerPolicy(new, old, s)
    <3> HIDE DEF sent, new
    <3> QED BY <2>3, <2>4 DEF ControllerPolicy, StoredAs
  <2> HIDE DEF first, new
  <2>6. C!PortsOf(first, s) = given \/ C!PortsOf(first, s) = FinalPorts(given, s)
    BY <1>6, <2>2 DEF C!PortsOf
  <2>7. FinalPorts(FinalPorts(given, s), s) = FinalPorts(given, s)
    <3>1. FinalPorts(given, s) \in Seq(AllPorts)
      BY <1>3, PortsAppendedOnce
    <3>2. ~s.enableHigressIstio =>
            \A p \in Members(C!PilotPorts) : Has(FinalPorts(given, s), p[1])
      BY <1>3, PortsAppendedOnce
    <3> QED BY <3>1, <3>2, NothingIsAppended
  <2>8. FinalPorts(C!PortsOf(first, s), s) = FinalPorts(given, s)
    BY <2>6, <2>7
  <2>9. IsControllerService(new, C!PortsOf(first, s), s)
    BY <1>4, <2>1, ControllerServiceStored
  <2>10. IsControllerService(new, given, s)
    BY <2>8, <2>9 DEF IsControllerService
  <2> QED BY <1>3, <2>5, <2>10 DEF new
<1> QED BY <1>5, <1>6

\* A Service always has a type, although the spec may give an empty one.
LEMMA ServiceTyped ==
  ASSUME NEW s, ControllerOK(s)
  PROVE  C!ServiceType(s) \in ServiceTypes
<1>1. CASE s.service # Unset /\ s.service.type # ""
  <2>1. s.service \in [type : ServiceTypes \cup {""}, ports : Ports]
    BY <1>1 DEF ControllerOK
  <2>2. s.service.type \in ServiceTypes \cup {""}
    BY <2>1
  <2> QED BY <1>1, <2>2 DEF C!ServiceType
<1>2. CASE ~(s.service # Unset /\ s.service.type # "")
  BY <1>2 DEF C!ServiceType, ServiceTypes
<1> QED BY <1>1, <1>2

---------------------------------------------------------------------------
(* The controller's Deployment. *)

AllMounts ==
  {"log", "config", "local-certs", "cacerts", "istio-kubeconfig", "istio-token", "extracacerts"}
IsContainer(c) == c.role \in {"controller", "pilot"} /\ c.mounts \subseteq AllMounts

\* The containers that a pass may add.
Fresh(s) == {C!Controller(s)} \cup (IF s.enableHigressIstio THEN {} ELSE {C!Pilot(s)})

\* They are containers, and mount only volumes of their pod.
LEMMA FreshContainers ==
  ASSUME NEW s
  PROVE  \A c \in Fresh(s) : IsContainer(c) /\ A!Mountable(c.mounts, C!genVolumes(s))
<1>1. C!Controller(s).role = "controller" /\ C!Controller(s).mounts = {"log"}
  BY DEF C!Controller, C!genControllerVolumeMounts
<1>2. C!Pilot(s).role = "pilot" /\ C!Pilot(s).mounts = C!genPilotVolumeMounts(s)
  BY DEF C!Pilot
<1>3. ASSUME NEW m, \/ m = "log"
                    \/ m \in C!genPilotVolumeMounts(s) /\ ~s.enableHigressIstio
      PROVE  \E source : <<m, source>> \in C!genVolumes(s)
  BY <1>3 DEF C!genPilotVolumeMounts, C!genVolumes, C!When
<1>4. ASSUME NEW m, NEW source, <<m, source>> \in C!genVolumes(s)
      PROVE  m \in {v[1] : v \in C!genVolumes(s)}
  <2>1. <<m, source>>[1] = m
    OBVIOUS
  <2> QED BY <1>4, <2>1
<1>5. {"log"} \subseteq AllMounts /\ C!genPilotVolumeMounts(s) \subseteq AllMounts
  BY DEF AllMounts, C!genPilotVolumeMounts, C!When
<1>6. ASSUME NEW c \in Fresh(s)
      PROVE  IsContainer(c) /\ A!Mountable(c.mounts, C!genVolumes(s))
  <2>1. CASE c = C!Controller(s)
    BY <1>1, <1>3, <1>4, <1>5, <2>1 DEF IsContainer, A!Mountable
  <2>2. CASE c = C!Pilot(s) /\ ~s.enableHigressIstio
    BY <1>2, <1>3, <1>4, <1>5, <2>2 DEF IsContainer, A!Mountable
  <2> QED BY <1>6, <2>1, <2>2 DEF Fresh
<1> QED BY <1>6

\* Volumes that are there whatever the spec says.
LEMMA StandingVolumes ==
  ASSUME NEW s, NEW mounts \in SUBSET AllMounts, ~A!Mountable(mounts, C!genVolumes(s))
  PROVE  \/ "config" \in mounts /\ s.enableHigressIstio
         \/ "istio-token" \in mounts /\ s.jwtPolicy # "third-party-jwt"
         \/ "extracacerts" \in mounts /\ ~s.extraRootCA
<1>1. PICK m \in mounts : m \notin {v[1] : v \in C!genVolumes(s)}
  BY DEF A!Mountable
<1>2. \A source : <<m, source>> \notin C!genVolumes(s)
  <2> SUFFICES ASSUME NEW source, <<m, source>> \in C!genVolumes(s)
               PROVE  m \in {v[1] : v \in C!genVolumes(s)}
    BY <1>1
  <2>1. <<m, source>>[1] = m
    OBVIOUS
  <2> QED BY <2>1
<1>3. m \in AllMounts
  BY <1>1
<1> QED BY <1>1, <1>2, <1>3 DEF AllMounts, C!genVolumes, C!When, C!ThirdParty

\* The containers a pass leaves to those that are there.
Kept(old) == IF old = Absent THEN EmptyMap ELSE old.containers

\* The containers of a Deployment that was rendered over kept ones: those, and
\* fresh ones under the names that were free; the controller's name is there
\* and, unless Istio is Higress's, the pilot's.
RendersContainers(containers, kept, s) ==
  /\ IsMap(containers)
  /\ \A name \in DOMAIN containers :
       \/ name \in DOMAIN kept /\ containers[name] = kept[name]
       \/ containers[name] \in Fresh(s)
  /\ C!genControllerName(s) \in DOMAIN containers
  /\ ~s.enableHigressIstio => C!genPilotName(s) \in DOMAIN containers
  /\ IsMap(kept) /\ C!genControllerName(s) \in DOMAIN kept
     /\ (~s.enableHigressIstio => C!genPilotName(s) \in DOMAIN kept) => containers = kept

\* The Deployment of a controller with these containers.
WithContainers(containers, s) ==
  [selector |-> s.selectorLabels, podLabels |-> s.selectorLabels,
   replicas |-> C!OrDefault(s.replicas, 1), account |-> C!getServiceAccount(s),
   volumes |-> C!genVolumes(s), containers |-> containers]

\* A container is added under a free name, or not at all.
LEMMA AddedContainer ==
  ASSUME NEW m, NEW name, NEW c
  PROVE  LET new == C!AddContainer(m, name, c) IN
         /\ IsMap(new) /\ DOMAIN new = DOMAIN m \cup {name}
         /\ \A n \in DOMAIN m : new[n] = m[n]
         /\ name \notin DOMAIN m => new[name] = c
         /\ name \in DOMAIN m /\ IsMap(m) => new = m
BY DEF C!AddContainer, C!Merged, C!Entry, IsMap

\* One rendering of the Deployment.
LEMMA ContainersRenderedOnce ==
  ASSUME NEW base, NEW s
  PROVE  \E containers :
           /\ RendersContainers(containers, Kept(base), s)
           /\ C!updateDeploymentSpec(base, s) = WithContainers(containers, s)
<1> DEFINE kept == Kept(base)
           cn == C!genControllerName(s)
           pn == C!genPilotName(s)
           one == C!AddContainer(kept, cn, C!Controller(s))
           two == C!AddContainer(one, pn, C!Pilot(s))
           all == IF s.enableHigressIstio THEN one ELSE two
<1>1. C!updateDeploymentSpec(base, s) = WithContainers(all, s)
  BY DEF C!updateDeploymentSpec, WithContainers, Kept, EmptyMap, C!EmptyMap
<1> HIDE DEF kept, cn, pn
<1>2. /\ IsMap(one) /\ DOMAIN one = DOMAIN kept \cup {cn}
      /\ \A n \in DOMAIN kept : one[n] = kept[n]
      /\ cn \notin DOMAIN kept => one[cn] = C!Controller(s)
      /\ cn \in DOMAIN kept /\ IsMap(kept) => one = kept
  BY AddedContainer
<1> HIDE DEF one
<1>3. /\ IsMap(two) /\ DOMAIN two = DOMAIN one \cup {pn}
      /\ \A n \in DOMAIN one : two[n] = one[n]
      /\ pn \notin DOMAIN one => two[pn] = C!Pilot(s)
      /\ pn \in DOMAIN one /\ IsMap(one) => two = one
  BY AddedContainer
<1> HIDE DEF two
<1>4. CASE s.enableHigressIstio
  <2>1. all = one
    BY <1>4
  <2>2. C!Controller(s) \in Fresh(s)
    BY DEF Fresh
  <2>3. RendersContainers(one, kept, s)
    BY <1>2, <1>4, <2>2 DEF RendersContainers, cn
  <2> QED BY <1>1, <2>1, <2>3 DEF kept
<1>5. CASE ~s.enableHigressIstio
  <2>1. all = two
    BY <1>5
  <2>2. C!Controller(s) \in Fresh(s) /\ C!Pilot(s) \in Fresh(s)
    BY <1>5 DEF Fresh
  <2>3. RendersContainers(two, kept, s)
    BY <1>2, <1>3, <1>5, <2>2 DEF RendersContainers, cn, pn
  <2> QED BY <1>1, <2>1, <2>3 DEF kept
<1> QED BY <1>4, <1>5

\* The Deployment that a pass sends.
LEMMA ContainersRendered ==
  ASSUME NEW old, NEW s
  PROVE  \E containers :
           /\ RendersContainers(containers, Kept(old), s)
           /\ ControllerObject("deployment", old, s) = WithContainers(containers, s)
<1> DEFINE first == C!updateDeploymentSpec(Absent, s)
<1>1. ControllerObject("deployment", old, s) = C!updateDeploymentSpec(Base(old, first), s)
  BY DEF ControllerObject
<1>2. CASE old # Absent
  BY <1>1, <1>2, ContainersRenderedOnce DEF Base
<1>3. CASE old = Absent
  <2>1. PICK m : RendersContainers(m, EmptyMap, s) /\ first = WithContainers(m, s)
    BY ContainersRenderedOnce DEF Kept
  <2>2. PICK n : RendersContainers(n, Kept(first), s)
                 /\ ControllerObject("deployment", old, s) = WithContainers(n, s)
    BY <1>1, <1>3, ContainersRenderedOnce DEF Base
  <2> HIDE DEF first
  <2>3. Kept(first) = EmptyMap \/ Kept(first) = m
    BY <2>1 DEF Kept, WithContainers
  <2>4. CASE Kept(first) = EmptyMap
    BY <1>3, <2>2, <2>4 DEF Kept
  <2>5. CASE Kept(first) = m
    <3>1. n = m
      BY <2>1, <2>2, <2>5 DEF RendersContainers
    <3> QED BY <1>3, <2>1, <2>2, <3>1 DEF Kept
  <2> QED BY <2>3, <2>4, <2>5
<1> QED BY <1>2, <1>3

\* What kept containers are.
HoldsContainers(deployment) ==
  deployment # Absent =>
    \A name \in DOMAIN deployment.containers : IsContainer(deployment.containers[name])

\* The fields of a rendered Deployment; its containers are the kept ones and
\* fresh ones.
LEMMA ControllerDeploymentFields ==
  ASSUME NEW containers, NEW s
  PROVE  LET new == WithContainers(containers, s) IN
         /\ new.selector = s.selectorLabels /\ new.podLabels = s.selectorLabels
         /\ new.replicas = C!OrDefault(s.replicas, 1) /\ new.account = C!getServiceAccount(s)
         /\ new.volumes = C!genVolumes(s) /\ new.containers = containers
BY DEF WithContainers

\* The containers of a rendered Deployment are containers if the kept ones are.
LEMMA ContainersTyped ==
  ASSUME NEW containers, NEW old, NEW s, RendersContainers(containers, Kept(old), s),
         HoldsContainers(old)
  PROVE  \A name \in DOMAIN containers : IsContainer(containers[name])
<1>1. ASSUME NEW name \in DOMAIN Kept(old)
      PROVE  old # Absent /\ IsContainer(Kept(old)[name])
  <2>1. DOMAIN EmptyMap = {}
    BY DEF EmptyMap
  <2>2. old # Absent
    BY <1>1, <2>1 DEF Kept
  <2> QED BY <1>1, <2>2 DEF Kept, HoldsContainers
<1> QED BY <1>1, FreshContainers DEF RendersContainers

\* The only reasons for which the server refuses a controller's Deployment.
LEMMA ControllerDeploymentRefused ==
  ASSUME NEW old, NEW s, old = ctlLive.deployment, HoldsContainers(old),
         ControllerFails("deployment", ControllerObject("deployment", old, s), s)
  PROVE  /\ old # Absent
         /\ \/ old.selector # s.selectorLabels
            \/ \E name \in DOMAIN old.containers :
                 LET c == old.containers[name] IN
                 \/ "config" \in c.mounts /\ s.enableHigressIstio
                 \/ "istio-token" \in c.mounts /\ s.jwtPolicy # "third-party-jwt"
                 \/ "extracacerts" \in c.mounts /\ ~s.extraRootCA
<1>1. PICK containers : /\ RendersContainers(containers, Kept(old), s)
                        /\ ControllerObject("deployment", old, s) = WithContainers(containers, s)
  BY ContainersRendered
<1> DEFINE new == ControllerObject("deployment", old, s)
<1>2. /\ new.selector = s.selectorLabels /\ new.podLabels = s.selectorLabels
      /\ new.volumes = C!genVolumes(s) /\ new.containers = containers
  BY <1>1, ControllerDeploymentFields
<1>3. \/ \E name \in DOMAIN new.containers : ~A!Mountable(new.containers[name].mounts, new.volumes)
      \/ ~A!SelectorAdmitted(old, new)
  BY DEF ControllerFails
<1> HIDE DEF new
<1>4. CASE ~A!SelectorAdmitted(old, new)
  <2>1. A!Selects(new.selector, new.podLabels)
    BY <1>2 DEF A!Selects
  <2> QED BY <1>2, <1>4, <2>1 DEF A!SelectorAdmitted
<1>5. CASE \E name \in DOMAIN new.containers : ~A!Mountable(new.containers[name].mounts, new.volumes)
  <2>1. PICK name \in DOMAIN containers : ~A!Mountable(containers[name].mounts, C!genVolumes(s))
    BY <1>2, <1>5
  <2>2. containers[name] \notin Fresh(s)
    BY <2>1, FreshContainers
  <2>3. name \in DOMAIN Kept(old) /\ containers[name] = Kept(old)[name]
    BY <1>1, <2>1, <2>2 DEF RendersContainers
  <2>4. old # Absent
    BY <2>3 DEF Kept, EmptyMap
  <2>5. name \in DOMAIN old.containers /\ containers[name] = old.containers[name]
    BY <2>3, <2>4 DEF Kept
  <2>6. IsContainer(containers[name])
    BY <2>1, <1>1, ContainersTyped
  <2>7. containers[name].mounts \in SUBSET AllMounts
    BY <2>6 DEF IsContainer
  <2>8. LET c == containers[name] IN
        \/ "config" \in c.mounts /\ s.enableHigressIstio
        \/ "istio-token" \in c.mounts /\ s.jwtPolicy # "third-party-jwt"
        \/ "extracacerts" \in c.mounts /\ ~s.extraRootCA
    BY <2>1, <2>7, StandingVolumes
  <2> QED BY <2>4, <2>5, <2>8
<1> QED BY <1>3, <1>4, <1>5

\* The only reasons for which a controller's Service is refused.
LEMMA ControllerServiceRefused ==
  ASSUME NEW old, NEW s, old = ctlLive.service, ControllerOK(s),
         old # Absent => old.ports \in Seq(AllPorts),
         ControllerFails("service", ControllerObject("service", old, s), s)
  PROVE  LET ports == C!PortsOf(old, s) IN
         \/ ports = <<>> /\ s.enableHigressIstio
         \/ ports # <<>> /\ ~A!PortsAdmitted(ports)
         \/ /\ ~s.enableHigressIstio
            /\ \E p \in Range(ports) :
                 p[1] = A!NoName \/ \E q \in Range(C!PilotPorts) : p[2] = q[2] /\ p[1] # q[1]
         \/ ~A!External(C!ServiceType(s)) /\ KeptPolicy(old)
<1> DEFINE ports == C!PortsOf(old, s)
           new == ControllerObject("service", old, s)
<1>1. ports \in Seq(AllPorts) /\ IsControllerService(new, ports, s) /\ ControllerPolicy(new, old, s)
  BY ControllerServiceRendered
<1>2. ~A!PortsAdmitted(new.ports) \/ ~A!PolicyAdmitted(new)
  BY DEF ControllerFails
<1> HIDE DEF ports, new
<1>3. new.ports = FinalPorts(ports, s) /\ new.type = C!ServiceType(s)
  BY <1>1 DEF IsControllerService
<1>4. CASE ~A!PortsAdmitted(new.ports)
  <2>1. ~A!PortsAdmitted(FinalPorts(ports, s))
    BY <1>3, <1>4
  <2> QED BY <1>1, <2>1, AppendedRefused DEF ports
<1>5. CASE ~A!PolicyAdmitted(new)
  BY <1>1, <1>3, <1>5 DEF A!PolicyAdmitted, ControllerPolicy
<1> QED BY <1>2, <1>4, <1>5

---------------------------------------------------------------------------
(* Bindings and the mesh. *)

Bound(account, role) == account \in DOMAIN bindings /\ bindings[account] = role

\* A pass never changes a binding, and grants the account its role unless it
\* has the other.
LEMMA BindingsGrow ==
  ASSUME NEW s, NEW account, NEW role
  PROVE  LET new == Bind(s, account, role) IN
         /\ \A a \in DOMAIN bindings : a \in DOMAIN new /\ new[a] = bindings[a]
         /\ \A a \in DOMAIN new : a \in DOMAIN bindings \/ new[a] = role
         /\ Grants(s) /\ ~BoundElsewhere(account, role) => account \in DOMAIN new /\ new[account] = role
BY DEF Bind, Merged, Entry, BoundElsewhere

\* The mesh of a gateway without an Istio of its own is found at the
\* controller's Service.
LEMMA MeshIsTheController ==
  ASSUME NEW s, GatewayOK(s), ~s.enableHigressIstio
  PROVE  G!createConfigMap(s).discoveryAddress = <<"higress-controller", 15012>>
<1> DEFINE after == G!updateGatewayConfigMapSpec(s).gateway
<1>1. /\ "meshConfig" \in DOMAIN s /\ "discoveryAddress" \in DOMAIN s.meshConfig
      /\ "enableHigressIstio" \in DOMAIN s
  BY DEF GatewayOK, GatewayFields, GatewayTypes
<1>2. after = [s EXCEPT !.meshConfig.discoveryAddress = <<"higress-controller", 15012>>]
  BY DEF G!updateGatewayConfigMapSpec
<1>3. after.meshConfig = [s.meshConfig EXCEPT !.discoveryAddress = <<"higress-controller", 15012>>]
  BY <1>1, <1>2
<1>4. /\ after.meshConfig.discoveryAddress = <<"higress-controller", 15012>>
      /\ "discoveryAddress" \in DOMAIN after.meshConfig
  BY <1>1, <1>3
<1> HIDE DEF after
<1>5. ASSUME NEW g, "discoveryAddress" \in DOMAIN g.meshConfig
      PROVE  G!updateGatewayConfigMapSpec(g).mesh.discoveryAddress = g.meshConfig.discoveryAddress
  <2>1. \A m, root, sources : "discoveryAddress" \in DOMAIN m =>
          [m EXCEPT !.rootNamespace = root, !.configSources = sources].discoveryAddress
            = m.discoveryAddress
    OBVIOUS
  <2> DEFINE root == CASE ~g.enableHigressIstio -> G!Namespace
                       [] g.enableHigressIstio /\ g.meshConfig.rootNamespace = "" -> g.istioNamespace
                       [] OTHER -> g.meshConfig.rootNamespace
             sources == g.meshConfig.configSources \cup IF g.enableIstioAPI THEN {"k8s://"} ELSE {}
  <2>2. G!updateGatewayConfigMapSpec(g).mesh =
          [g.meshConfig EXCEPT !.rootNamespace = root, !.configSources = sources]
    BY DEF G!updateGatewayConfigMapSpec
  <2> HIDE DEF root, sources
  <2> QED BY <1>5, <2>1, <2>2
<1>6. G!updateGatewayConfigMapSpec(after).mesh.discoveryAddress = <<"higress-controller", 15012>>
  BY <1>4, <1>5
<1> QED BY <1>6 DEF G!createConfigMap, after

---------------------------------------------------------------------------
(* The inductive invariant: what the objects are after a pass that has     *)
(* written all of them, and what has stopped a pass that has not.          *)

\* The policy of a settled Service: its type's, and the one that is given if
\* the type has a use for it.
PolicyFits(svc, type) == A!External(type) <=> svc.policy # ""
PolicyGiven(svc, s) ==
  A!External(s.service.type) /\ s.service.policy # "" => svc.policy = s.service.policy

GatewaySettled ==
  gwPass = "settled" =>
    /\ G!Valid(Gateway)
    /\ G!getServiceAccount(Gateway) \in gwLive.serviceAccounts
    /\ Grants(Gateway) => Bound(G!getServiceAccount(Gateway), "higress-gateway")
    /\ gwLive.configMap = G!createConfigMap(Gateway)
    /\ \E order \in EnvOrders(Gateway) :
         LET fresh == GatewayObject("deployment", Absent, Gateway, order) IN
         /\ Proxies = [fresh EXCEPT !.replicas = Proxies.replicas]
         /\ Proxies.replicas = Gateway.replicas \/ G!shouldPreserveReplicas(Gateway)
    /\ \A kind \in {"hpa", "scaledObject"} :
         gwLive[kind] = GatewayObject(kind, Absent, Gateway, <<>>)
    /\ Renders(gwLive.service, Gateway)
    /\ PolicyFits(gwLive.service, Gateway.service.type)
    /\ PolicyGiven(gwLive.service, Gateway)

\* The kinds of object at which a pass may stop.
MayFail ==
  {"clusterRoleBinding", "skywalkingConfigMap", "deployment", "hpa", "scaledObject", "service"}

GatewayStopped ==
  gwPass \in GatewayKinds =>
    /\ gwPass \in MayFail /\ GatewayRefused(gwPass)
    /\ gwPass = "clusterRoleBinding" => G!getServiceAccount(Gateway) \in DOMAIN bindings

GatewayInv == IsMap(gwLive) /\ GatewaySettled /\ GatewayStopped

\* The ports the spec gives or, if it gives none, leaves in the Service.
Given(svc, s) == IF s.service # Unset THEN s.service.ports ELSE svc.ports

\* Every container a pass would add is there.
Complete(containers, s) ==
  /\ IsMap(containers) /\ \A name \in DOMAIN containers : IsContainer(containers[name])
  /\ C!genControllerName(s) \in DOMAIN containers
  /\ ~s.enableHigressIstio => C!genPilotName(s) \in DOMAIN containers

ControllerSettled ==
  ctlPass = "settled" =>
    /\ Controller.serviceAccount.enable => C!getServiceAccount(Controller) \in ctlLive.serviceAccounts
    /\ Grants(Controller) => Bound(C!getServiceAccount(Controller), "higress-controller")
    /\ Complete(ControlPlane.containers, Controller)
    /\ ControlPlane = WithContainers(ControlPlane.containers, Controller)
    /\ Given(ctlLive.service, Controller) \in Seq(AllPorts)
    /\ IsControllerService(ctlLive.service, Given(ctlLive.service, Controller), Controller)
    /\ PolicyFits(ctlLive.service, C!ServiceType(Controller))

ControllerStopped ==
  ctlPass \in ControllerKinds =>
    /\ ControllerRefused(ctlPass)
    /\ ctlPass = "clusterRoleBinding" => C!getServiceAccount(Controller) \in DOMAIN bindings

ControllerInv ==
  /\ IsMap(ctlLive) /\ HoldsContainers(ControlPlane)
  /\ ctlLive.service # Absent => ctlLive.service.ports \in Seq(AllPorts)
  /\ ControllerSettled /\ ControllerStopped

IInv == TypeOK /\ GatewayInv /\ ControllerInv

\* Bindings that no step has changed or taken away.
BindingsKept == \A a \in DOMAIN bindings : a \in DOMAIN bindings' /\ bindings'[a] = bindings[a]

\* The server stays what it is.
LEMMA PolicyStaysKept ==
  ASSUME clearsPolicy' = clearsPolicy
  PROVE  \A svc : KeptPolicy(svc) => KeptPolicy(svc)'
BY Zenon DEF KeptPolicy

\* A gateway whose objects nothing writes stays as settled, or as stopped, as it
\* is, whatever is granted to other accounts.
LEMMA GatewayUntouched ==
  ASSUME GatewayInv, UNCHANGED <<gwVars, clearsPolicy>>, BindingsKept
  PROVE  GatewayInv'
<1> DEFINE account == G!getServiceAccount(Gateway)
<1>1. /\ gw' = gw /\ gwLive' = gwLive /\ gwPass' = gwPass /\ Gateway' = Gateway /\ Proxies' = Proxies
      /\ clearsPolicy' = clearsPolicy
  BY DEF gwVars, Gateway, Proxies
<1>2. Grants(Gateway)' = Grants(Gateway) /\ account' = account
  BY <1>1
<1> HIDE DEF account
<1>3. Bound(account, "higress-gateway") => Bound(account, "higress-gateway")'
  BY <1>2 DEF Bound, BindingsKept
<1>4. GatewaySettled'
  BY <1>1, <1>2, <1>3 DEF GatewayInv, GatewaySettled, GatewayObject, account
<1>5. CASE gwPass = "clusterRoleBinding"
  <2>1. account \in DOMAIN bindings /\ bindings[account] = "higress-controller"
    BY <1>5 DEF GatewayInv, GatewayStopped, GatewayKinds, GatewayRefused, account
  <2>2. account' \in DOMAIN bindings' /\ bindings'[account'] = "higress-controller"
    BY <1>2, <2>1 DEF BindingsKept
  <2>3. GatewayRefused(gwPass)'
    BY <1>1, <1>5, <2>2 DEF GatewayRefused, account
  <2> QED BY <1>1, <1>4, <1>5, <2>2, <2>3 DEF GatewayInv, GatewayStopped, MayFail, account, IsMap
<1>6. CASE gwPass # "clusterRoleBinding"
  <2>1. /\ GatewayRefused("skywalkingConfigMap") => GatewayRefused("skywalkingConfigMap")'
        /\ GatewayRefused("deployment") => GatewayRefused("deployment")'
        /\ GatewayRefused("hpa") => GatewayRefused("hpa")'
        /\ GatewayRefused("scaledObject") => GatewayRefused("scaledObject")'
        /\ GatewayRefused("service") => GatewayRefused("service")'
    BY <1>1, PolicyStaysKept DEF GatewayRefused
  <2> QED BY <1>1, <1>4, <1>6, <2>1 DEF GatewayInv, GatewayStopped, MayFail, IsMap
<1> QED BY <1>5, <1>6

\* The same of a controller.
LEMMA ControllerUntouched ==
  ASSUME ControllerInv, UNCHANGED <<ctlVars, clearsPolicy>>, BindingsKept
  PROVE  ControllerInv'
<1> DEFINE account == C!getServiceAccount(Controller)
<1>1. /\ ctl' = ctl /\ ctlLive' = ctlLive /\ ctlPass' = ctlPass
      /\ Controller' = Controller /\ ControlPlane' = ControlPlane /\ clearsPolicy' = clearsPolicy
  BY DEF ctlVars, Controller, ControlPlane
<1>2. Grants(Controller)' = Grants(Controller) /\ account' = account
  BY <1>1
<1> HIDE DEF account
<1>3. Bound(account, "higress-controller") => Bound(account, "higress-controller")'
  BY <1>2 DEF Bound, BindingsKept
<1>4. ControllerSettled'
  BY <1>1, <1>2, <1>3 DEF ControllerInv, ControllerSettled, account
<1>5. /\ IsMap(ctlLive)' /\ HoldsContainers(ControlPlane)'
      /\ (ctlLive.service # Absent => ctlLive.service.ports \in Seq(AllPorts))'
  BY <1>1 DEF ControllerInv, IsMap, HoldsContainers
<1>6. CASE ctlPass = "clusterRoleBinding"
  <2>1. account \in DOMAIN bindings /\ bindings[account] = "higress-gateway"
    BY <1>6 DEF ControllerInv, ControllerStopped, ControllerKinds, ControllerRefused, account
  <2>2. account' \in DOMAIN bindings' /\ bindings'[account'] = "higress-gateway"
    BY <1>2, <2>1 DEF BindingsKept
  <2>3. ControllerRefused(ctlPass)'
    BY <1>1, <1>6, <2>2 DEF ControllerRefused, account
  <2> QED BY <1>1, <1>4, <1>5, <2>2, <2>3 DEF ControllerInv, ControllerStopped, account
<1>7. CASE ctlPass # "clusterRoleBinding"
  <2>1. /\ ControllerRefused("deployment") => ControllerRefused("deployment")'
        /\ ControllerRefused("service") => ControllerRefused("service")'
    BY <1>1, PolicyStaysKept DEF ControllerRefused
  <2> QED BY <1>1, <1>4, <1>5, <1>7, <2>1 DEF ControllerInv, ControllerStopped, ControllerKinds
<1> QED BY <1>6, <1>7

\* Nothing is rendered in the first state.
LEMMA InitInv == ASSUME Init PROVE IInv
<1>1. /\ gw = DefaultGateway /\ ctl = DefaultController /\ gwPass = "pending" /\ ctlPass = "pending"
      /\ gwLive = Nothing(GatewayKinds) /\ ctlLive = Nothing(ControllerKinds)
      /\ bindings = EmptyMap /\ part \in DOMAIN Parts /\ clearsPolicy \in BOOLEAN
  BY DEF Init
<1>2. /\ IsMap(gwLive) /\ IsMap(ctlLive) /\ DOMAIN bindings = {}
      /\ DOMAIN gwLive = AllGatewayKinds /\ DOMAIN ctlLive = AllControllerKinds
      /\ gwLive.service = Absent /\ Proxies = Absent
      /\ ctlLive.service = Absent /\ ControlPlane = Absent
  BY <1>1 DEF IsMap, EmptyMap, Nothing, AllGatewayKinds, AllControllerKinds, GatewayKinds,
              ControllerKinds, Proxies, ControlPlane
<1>3. TypeOK
  BY <1>1, <1>2, ResourcesAssumption DEF TypeOK, AllGatewayKinds, AllControllerKinds
<1>4. GatewayInv
  BY <1>1, <1>2 DEF GatewayInv, GatewaySettled, GatewayStopped, GatewayKinds
<1>5. ControllerInv
  BY <1>1, <1>2 DEF ControllerInv, HoldsContainers, ControllerSettled, ControllerStopped, ControllerKinds
<1> QED BY <1>3, <1>4, <1>5 DEF IInv

---------------------------------------------------------------------------
(* A pass of the gateway's reconciler. *)

Roles == {"higress-gateway", "higress-controller"}

\* A pass leaves the gateway as it is, takes no binding away, and what it writes
\* is complete.
LEMMA GatewayRunTyped ==
  ASSUME TypeOK, NEW order, GatewayRuns(order)
  PROVE  /\ TypeOK' /\ BindingsKept /\ Gateway' = Gateway /\ UNCHANGED <<ctlVars, clearsPolicy>>
         /\ GatewayOK(Gateway)
<1> DEFINE New(kind) == GatewayObject(kind, gwLive[kind], Gateway, order)
           account == G!getServiceAccount(Gateway)
<1>1. /\ DOMAIN gwLive' = AllGatewayKinds
      /\ \A kind \in AllGatewayKinds : gwLive'[kind] \in {gwLive[kind], New(kind)}
      /\ gwPass' \in {"settled", "rejected"} \cup GatewayKinds
      /\ bindings' \in {bindings, Bind(Gateway, account, "higress-gateway")}
      /\ UNCHANGED <<gw, ctlVars, part, clearsPolicy>>
  BY DEF GatewayRuns
<1>2. GatewayOK(Gateway)
  BY GatewayDefaults DEF TypeOK, Gateway
<1>3. gw' = gw /\ Gateway' = Gateway /\ part' = part /\ clearsPolicy' = clearsPolicy /\ UNCHANGED ctlVars
  BY <1>1 DEF Gateway
<1>4. /\ \A a \in DOMAIN bindings : a \in DOMAIN bindings' /\ bindings'[a] = bindings[a]
      /\ \A a \in DOMAIN bindings' : a \in DOMAIN bindings \/ bindings'[a] = "higress-gateway"
  <2> HIDE DEF account
  <2>1. CASE bindings' = bindings
    BY <2>1
  <2>2. CASE bindings' = Bind(Gateway, account, "higress-gateway")
    BY <2>2, BindingsGrow
  <2> QED BY <1>1, <2>1, <2>2
<1>5. {"service", "deployment"} \subseteq AllGatewayKinds
  BY DEF AllGatewayKinds, GatewayKinds
<1>6. New("service").type \in ServiceTypes
  <2>1. IsService(New("service"), gwLive.service, Gateway)
    BY ServiceRendered
  <2> HIDE DEF New
  <2> QED BY <1>2, <2>1 DEF IsService, GatewayOK
<1>7. Proxies # Absent => Proxies.replicas \in Nat
  BY DEF TypeOK
<1>8. New("deployment").replicas \in Nat
  <2>1. New("deployment").replicas =
          IF G!shouldPreserveReplicas(Gateway) /\ Proxies # Absent THEN Proxies.replicas ELSE Gateway.replicas
    BY DeploymentFields DEF Proxies
  <2> QED BY <1>2, <1>7, <2>1 DEF GatewayOK
<1> HIDE DEF New
<1>9. \A s \in {gwLive'.service, ctlLive'.service} \ {Absent} : s.type \in ServiceTypes
  BY <1>1, <1>3, <1>5, <1>6 DEF TypeOK, ctlVars
<1>10. Proxies' # Absent => Proxies'.replicas \in Nat
  BY <1>1, <1>5, <1>7, <1>8 DEF Proxies
<1>11. \A a \in DOMAIN bindings' : bindings'[a] \in Roles
  BY <1>4 DEF TypeOK, Roles
<1>12. /\ ctl' = ctl /\ ctlLive' = ctlLive /\ ctlPass' = ctlPass /\ ControlPlane' = ControlPlane
  BY <1>3 DEF ctlVars, ControlPlane
<1>13. TypeOK'
  BY <1>1, <1>3, <1>9, <1>10, <1>11, <1>12 DEF TypeOK, AllGatewayKinds, Roles
<1> QED BY <1>2, <1>3, <1>4, <1>13 DEF BindingsKept

\* A pass that has written every kind of object has settled the gateway.
LEMMA GatewayRunSettles ==
  ASSUME TypeOK, NEW order \in EnvOrders(Gateway), GatewayRuns(order), gwPass' = "settled"
  PROVE  GatewaySettled'
<1> DEFINE s == Gateway
           New(kind) == GatewayObject(kind, gwLive[kind], s, order)
           account == G!getServiceAccount(s)
<1>1. /\ Gateway' = s /\ G!Valid(s) /\ bindings' = Bind(s, account, "higress-gateway")
      /\ \A kind \in AllGatewayKinds :
           ~GatewayFails(kind, New(kind), s) /\ gwLive'[kind] = New(kind)
  BY GatewayRunTyped DEF GatewayRuns
<1>2. {"serviceAccounts", "clusterRoleBinding", "configMap", "deployment", "hpa", "scaledObject", "service"}
        \subseteq AllGatewayKinds
  BY DEF AllGatewayKinds, GatewayKinds
<1>3. account \in gwLive'.serviceAccounts
  BY <1>1, <1>2 DEF GatewayObject
<1>4. Grants(s) => Bound(account, "higress-gateway")'
  <2>1. Grants(s) => ~BoundElsewhere(account, "higress-gateway")
    <3>1. ~GatewayFails("clusterRoleBinding", New("clusterRoleBinding"), s)
      BY <1>1, <1>2
    <3> QED BY <3>1 DEF GatewayFails
  <2>2. account' = account
    BY <1>1
  <2> HIDE DEF account, s
  <2> QED BY <1>1, <2>1, <2>2, BindingsGrow DEF Bound
<1>5. gwLive'.configMap = G!createConfigMap(s)
  BY <1>1, <1>2 DEF GatewayObject
<1>6. \A kind \in {"hpa", "scaledObject"} : gwLive'[kind] = GatewayObject(kind, Absent, s, <<>>)
  BY <1>1, <1>2, AutoscalersRendered
<1>7. /\ Renders(gwLive'.service, s)
      /\ PolicyFits(gwLive'.service, s.service.type) /\ PolicyGiven(gwLive'.service, s)
  <2>1. gwLive'.service = New("service")
    BY <1>1, <1>2
  <2>2. IsService(New("service"), gwLive.service, s)
    BY ServiceRendered
  <2>3. A!PolicyAdmitted(New("service"))
    <3>1. ~GatewayFails("service", New("service"), s)
      BY <1>1, <1>2
    <3> HIDE DEF New
    <3> QED BY <3>1 DEF GatewayFails
  <2> HIDE DEF New, s
  <2> QED BY <2>1, <2>2, <2>3 DEF IsService, A!PolicyAdmitted, PolicyFits, PolicyGiven
<1>8. LET fresh == GatewayObject("deployment", Absent, s, order) IN
      /\ Proxies' = [fresh EXCEPT !.replicas = Proxies'.replicas]
      /\ Proxies'.replicas = s.replicas \/ G!shouldPreserveReplicas(s)
  <2> DEFINE fresh == GatewayObject("deployment", Absent, s, order)
             once == G!updateDeploymentSpec(Absent, s, order)
             n == IF G!shouldPreserveReplicas(s) /\ Proxies # Absent THEN Proxies.replicas ELSE s.replicas
  <2>1. Proxies' = [once EXCEPT !.replicas = n]
    BY <1>1, <1>2, DeploymentRendered DEF Proxies
  <2>2. fresh = [once EXCEPT !.replicas = s.replicas]
    BY DeploymentRendered
  <2>3. "replicas" \in DOMAIN once
    BY DEF G!updateDeploymentSpec
  <2> HIDE DEF fresh, once, s
  <2>4. Proxies'.replicas = n /\ Proxies' = [fresh EXCEPT !.replicas = n]
    BY <2>1, <2>2, <2>3
  <2> QED BY <2>4 DEF fresh
<1> HIDE DEF s, New
<1>9. Gateway' = s /\ EnvOrders(Gateway)' = EnvOrders(s) /\ Grants(Gateway)' = Grants(s)
  BY <1>1
<1> QED BY <1>1, <1>3, <1>4, <1>5, <1>6, <1>7, <1>8, <1>9 DEF GatewaySettled, GatewayObject, s

\* A pass that has not is stopped by something in the spec, or left in the
\* objects, that the kind of object it stopped at does not go with.
LEMMA GatewayRunStops ==
  ASSUME TypeOK, NEW order, GatewayRuns(order), gwPass' \in GatewayKinds
  PROVE  GatewayStopped'
<1> DEFINE s == Gateway
           kind == gwPass'
           account == G!getServiceAccount(s)
<1>1. /\ GatewayFails(kind, GatewayObject(kind, gwLive[kind], s, order), s)
      /\ gwLive'[kind] = gwLive[kind]
  BY DEF GatewayRuns
<1>2. s' = s /\ GatewayOK(s) /\ BindingsKept /\ clearsPolicy' = clearsPolicy
  BY GatewayRunTyped
<1>3. kind \in MayFail
  BY <1>1 DEF GatewayFails, MayFail
<1> HIDE DEF s, kind
<1>4. CASE kind = "clusterRoleBinding"
  <2>1. BoundElsewhere(account, "higress-gateway")
    BY <1>1, <1>4 DEF GatewayFails
  <2>2. account \in DOMAIN bindings /\ bindings[account] = "higress-controller"
    BY <2>1 DEF BoundElsewhere, TypeOK
  <2>3. account' = account
    BY <1>2
  <2> HIDE DEF account
  <2>4. account' \in DOMAIN bindings' /\ bindings'[account'] = "higress-controller"
    BY <1>2, <2>2, <2>3 DEF BindingsKept
  <2>5. GatewayRefused("clusterRoleBinding")'
    BY <2>4 DEF GatewayRefused, account, s
  <2> QED BY <1>3, <1>4, <2>4, <2>5 DEF GatewayStopped, kind, account, s
<1>5. CASE kind = "skywalkingConfigMap"
  <2>1. s.skywalking
    BY <1>1, <1>5 DEF GatewayFails
  <2>2. GatewayRefused("skywalkingConfigMap")'
    BY <1>2, <2>1 DEF GatewayRefused, s
  <2> QED BY <1>3, <1>5, <2>2 DEF GatewayStopped, kind
<1>6. CASE kind = "deployment"
  <2>1. \/ s.rolling = [surge |-> 0, unavailable |-> 0]
        \/ gwLive.deployment # Absent /\ gwLive.deployment.selector # s.selectorLabels
    BY <1>1, <1>2, <1>6, DeploymentRefused
  <2>2. gwLive'.deployment = gwLive.deployment
    BY <1>1, <1>6
  <2>3. GatewayRefused("deployment")'
    BY <1>2, <2>1, <2>2 DEF GatewayRefused, Proxies, s
  <2> QED BY <1>3, <1>6, <2>3 DEF GatewayStopped, kind
<1>7. CASE kind = "hpa"
  <2>1. LET as == s.autoScaling IN
        (as.min # Unset /\ as.min < 1) \/ as.max < 1 \/ as.cpuTarget < 1
    BY <1>1, <1>2, <1>7, HPARefused
  <2>2. GatewayRefused("hpa")'
    BY <1>2, <2>1 DEF GatewayRefused, s
  <2> QED BY <1>3, <1>7, <2>2 DEF GatewayStopped, kind
<1>8. CASE kind = "scaledObject"
  <2>1. \E t \in s.autoScaling.keda : ~t.metadata
    BY <1>1, <1>8, ScaledObjectRefused
  <2>2. GatewayRefused("scaledObject")'
    BY <1>2, <2>1 DEF GatewayRefused, s
  <2> QED BY <1>3, <1>8, <2>2 DEF GatewayStopped, kind
<1>9. CASE kind = "service"
  <2>1. \/ s.network # "" /\ s.labels = Unset
        \/ s.network # "" /\ gwLive.service # Absent /\ gwLive.service.labels = Unset
        \/ s.network = "" /\ ~A!PortsAdmitted(s.service.ports)
        \/ /\ s.service.type # "LoadBalancer"
           /\ \/ s.service.ranges # {}
              \/ gwLive.service # Absent /\ gwLive.service.ranges # {}
        \/ ~A!External(s.service.type) /\ (s.service.policy # "" \/ KeptPolicy(gwLive.service))
    BY <1>1, <1>9, ServiceRefused
  <2>2. gwLive'.service = gwLive.service
    BY <1>1, <1>9
  <2>3. GatewayRefused("service")'
    BY <1>2, <2>1, <2>2, PolicyStaysKept DEF GatewayRefused, s
  <2> QED BY <1>3, <1>9, <2>3 DEF GatewayStopped, kind
<1> QED BY <1>3, <1>4, <1>5, <1>6, <1>7, <1>8, <1>9 DEF MayFail

\* So every pass of the gateway's reconciler keeps the invariant.
LEMMA GatewayPassInv == ASSUME IInv, GatewayPass PROVE IInv'
<1>1. TypeOK /\ ControllerInv /\ DOMAIN gwLive = AllGatewayKinds
  BY DEF IInv, TypeOK, AllGatewayKinds
<1>2. PICK order \in EnvOrders(Gateway) : GatewayRuns(order)
  BY <1>1, GatewayPassRuns
<1>3. TypeOK' /\ BindingsKept /\ UNCHANGED <<ctlVars, clearsPolicy>>
  BY <1>1, <1>2, GatewayRunTyped
<1>4. ControllerInv'
  BY <1>1, <1>3, ControllerUntouched
<1>5. IsMap(gwLive)'
  BY <1>2 DEF GatewayRuns, IsMap
<1>6. GatewaySettled'
  BY <1>1, <1>2, GatewayRunSettles DEF GatewaySettled
<1>7. GatewayStopped'
  BY <1>1, <1>2, GatewayRunStops DEF GatewayStopped
<1> QED BY <1>3, <1>4, <1>5, <1>6, <1>7 DEF IInv, GatewayInv

---------------------------------------------------------------------------
(* A pass of the controller's reconciler. *)

\* The objects of a pass: a Deployment of containers, and a Service with a type
\* whose ports the next pass can append to.
LEMMA ControllerObjects ==
  ASSUME TypeOK, ControllerInv
  PROVE  /\ ControllerOK(Controller)
         /\ LET new == ControllerObject("deployment", ControlPlane, Controller) IN
            /\ new.replicas \in Nat /\ HoldsContainers(new)
            /\ \A name \in DOMAIN new.containers : IsContainer(new.containers[name])
            /\ RendersContainers(new.containers, Kept(ControlPlane), Controller)
            /\ new = WithContainers(new.containers, Controller)
         /\ C!PortsOf(ctlLive.service, Controller) \in Seq(AllPorts)
         /\ LET new == ControllerObject("service", ctlLive.service, Controller) IN
            /\ IsControllerService(new, C!PortsOf(ctlLive.service, Controller), Controller)
            /\ ControllerPolicy(new, ctlLive.service, Controller)
            /\ new.type \in ServiceTypes /\ new.ports \in Seq(AllPorts)
<1> DEFINE s == Controller
           deployment == ControllerObject("deployment", ControlPlane, s)
           service == ControllerObject("service", ctlLive.service, s)
           given == C!PortsOf(ctlLive.service, s)
<1>1. ControllerOK(s)
  BY ControllerDefaults DEF TypeOK, Controller
<1>2. /\ HoldsContainers(ControlPlane)
      /\ ctlLive.service # Absent => ctlLive.service.ports \in Seq(AllPorts)
  BY DEF ControllerInv
<1>3. PICK containers : RendersContainers(containers, Kept(ControlPlane), s)
                        /\ deployment = WithContainers(containers, s)
  BY ContainersRendered
<1>4. \A name \in DOMAIN containers : IsContainer(containers[name])
  BY <1>2, <1>3, ContainersTyped
<1>5. /\ given \in Seq(AllPorts) /\ IsControllerService(service, given, s)
      /\ ControllerPolicy(service, ctlLive.service, s)
  BY <1>1, <1>2, ControllerServiceRendered
<1>6. C!OrDefault(s.replicas, 1) \in Nat
  BY <1>1 DEF ControllerOK, C!OrDefault
<1> HIDE DEF s, deployment, service, given
<1>7. deployment.containers = containers /\ deployment.replicas \in Nat
  BY <1>3, <1>6, ControllerDeploymentFields
<1>8. service.type = C!ServiceType(s) /\ service.ports = FinalPorts(given, s)
  BY <1>5 DEF IsControllerService
<1>9. service.type \in ServiceTypes /\ service.ports \in Seq(AllPorts)
  BY <1>1, <1>5, <1>8, ServiceTyped, PortsAppendedOnce
<1>10. HoldsContainers(deployment)
  BY <1>4, <1>7 DEF HoldsContainers
<1> QED BY <1>1, <1>3, <1>4, <1>5, <1>7, <1>9, <1>10 DEF s, deployment, service, given

\* A pass leaves the controller as it is, takes no binding away, and what it
\* writes is complete.
LEMMA ControllerRunTyped ==
  ASSUME TypeOK, ControllerInv, ControllerRuns
  PROVE  /\ TypeOK' /\ BindingsKept /\ Controller' = Controller /\ UNCHANGED <<gwVars, clearsPolicy>>
         /\ HoldsContainers(ControlPlane)'
         /\ (ctlLive.service # Absent => ctlLive.service.ports \in Seq(AllPorts))'
<1> DEFINE New(kind) == ControllerObject(kind, ctlLive[kind], Controller)
           account == C!getServiceAccount(Controller)
<1>1. /\ DOMAIN ctlLive' = AllControllerKinds
      /\ \A kind \in AllControllerKinds : ctlLive'[kind] \in {ctlLive[kind], New(kind)}
      /\ ctlPass' \in {"settled"} \cup ControllerKinds
      /\ bindings' = Bind(Controller, account, "higress-controller")
      /\ UNCHANGED <<ctl, gwVars, part, clearsPolicy>>
  BY DEF ControllerRuns
<1>2. ctl' = ctl /\ Controller' = Controller /\ part' = part /\ clearsPolicy' = clearsPolicy /\ UNCHANGED gwVars
  BY <1>1 DEF Controller
<1>3. {"service", "deployment"} \subseteq AllControllerKinds
  BY DEF AllControllerKinds, ControllerKinds
<1>4. /\ New("deployment").replicas \in Nat /\ HoldsContainers(New("deployment"))
      /\ New("service").type \in ServiceTypes /\ New("service").ports \in Seq(AllPorts)
  BY ControllerObjects DEF ControlPlane
<1>5. /\ ControlPlane # Absent => ControlPlane.replicas \in Nat
      /\ HoldsContainers(ControlPlane)
      /\ ctlLive.service # Absent => ctlLive.service.ports \in Seq(AllPorts)
  BY DEF TypeOK, ControllerInv
<1> HIDE DEF New, account
<1>6. /\ \A a \in DOMAIN bindings : a \in DOMAIN bindings' /\ bindings'[a] = bindings[a]
      /\ \A a \in DOMAIN bindings' : a \in DOMAIN bindings \/ bindings'[a] = "higress-controller"
  BY <1>1, BindingsGrow
<1>7. ControlPlane' = ControlPlane \/ ControlPlane' = New("deployment")
  BY <1>1, <1>3 DEF ControlPlane
<1>8. /\ ControlPlane' # Absent => ControlPlane'.replicas \in Nat
      /\ HoldsContainers(ControlPlane)'
  BY <1>4, <1>5, <1>7 DEF HoldsContainers
<1>9. ctlLive'.service = ctlLive.service \/ ctlLive'.service = New("service")
  BY <1>1, <1>3
<1>10. (ctlLive.service # Absent => ctlLive.service.ports \in Seq(AllPorts))'
  BY <1>4, <1>5, <1>9
<1>11. gw' = gw /\ gwLive' = gwLive /\ gwPass' = gwPass /\ Proxies' = Proxies
  BY <1>2 DEF gwVars, Proxies
<1>12. \A s \in {gwLive'.service, ctlLive'.service} \ {Absent} : s.type \in ServiceTypes
  BY <1>4, <1>9, <1>11 DEF TypeOK
<1>13. \A a \in DOMAIN bindings' : bindings'[a] \in Roles
  BY <1>6 DEF TypeOK, Roles
<1>14. TypeOK'
  BY <1>1, <1>2, <1>8, <1>11, <1>12, <1>13 DEF TypeOK, AllControllerKinds, Roles
<1> QED BY <1>2, <1>6, <1>8, <1>10, <1>14 DEF BindingsKept

\* A pass that has written every kind of object has settled the controller.
LEMMA ControllerRunSettles ==
  ASSUME TypeOK, ControllerInv, ControllerRuns, ctlPass' = "settled"
  PROVE  ControllerSettled'
<1> DEFINE s == Controller
           New(kind) == ControllerObject(kind, ctlLive[kind], s)
           account == C!getServiceAccount(s)
<1>1. /\ Controller' = s /\ bindings' = Bind(s, account, "higress-controller")
      /\ \A kind \in AllControllerKinds :
           ~ControllerFails(kind, New(kind), s) /\ ctlLive'[kind] = New(kind)
  BY ControllerRunTyped DEF ControllerRuns
<1>2. {"serviceAccounts", "clusterRoleBinding", "deployment", "service"} \subseteq AllControllerKinds
  BY DEF AllControllerKinds, ControllerKinds
<1>3. s.serviceAccount.enable => account \in ctlLive'.serviceAccounts
  BY <1>1, <1>2 DEF ControllerObject
<1>4. Grants(s) => Bound(account, "higress-controller")'
  <2>1. Grants(s) => ~BoundElsewhere(account, "higress-controller")
    <3>1. ~ControllerFails("clusterRoleBinding", New("clusterRoleBinding"), s)
      BY <1>1, <1>2
    <3> QED BY <3>1 DEF ControllerFails
  <2>2. account' = account
    BY <1>1
  <2> HIDE DEF account, s
  <2> QED BY <1>1, <2>1, <2>2, BindingsGrow DEF Bound
<1>5. ctlLive'.service = New("service") /\ ControlPlane' = New("deployment")
  BY <1>1, <1>2 DEF ControlPlane
<1>6. /\ \A name \in DOMAIN New("deployment").containers : IsContainer(New("deployment").containers[name])
      /\ RendersContainers(New("deployment").containers, Kept(ControlPlane), s)
      /\ New("deployment") = WithContainers(New("deployment").containers, s)
      /\ C!PortsOf(ctlLive.service, s) \in Seq(AllPorts)
      /\ IsControllerService(New("service"), C!PortsOf(ctlLive.service, s), s)
      /\ ControllerPolicy(New("service"), ctlLive.service, s)
  BY ControllerObjects DEF ControlPlane
<1>7. Complete(New("deployment").containers, s)
  BY <1>6 DEF Complete, RendersContainers
<1> DEFINE given == C!PortsOf(ctlLive.service, s)
<1> HIDE DEF New
<1>8. Given(New("service"), s) \in Seq(AllPorts)
      /\ IsControllerService(New("service"), Given(New("service"), s), s)
  <2>1. CASE s.service # Unset
    <3>1. Given(New("service"), s) = given
      BY <2>1 DEF Given, C!PortsOf
    <3> QED BY <1>6, <3>1
  <2>2. CASE s.service = Unset
    <3>1. Given(New("service"), s) = New("service").ports
      BY <2>2 DEF Given
    <3> HIDE DEF given, s
    <3>2. New("service").ports = FinalPorts(given, s)
      BY <1>6 DEF IsControllerService, given
    <3>3. FinalPorts(given, s) \in Seq(AllPorts)
          /\ FinalPorts(FinalPorts(given, s), s) = FinalPorts(given, s)
      <4>1. given \in Seq(AllPorts)
        BY <1>6 DEF given
      <4>2. /\ FinalPorts(given, s) \in Seq(AllPorts)
            /\ ~s.enableHigressIstio =>
                 \A p \in Members(C!PilotPorts) : Has(FinalPorts(given, s), p[1])
        BY <4>1, PortsAppendedOnce
      <4> QED BY <4>2, NothingIsAppended
    <3> QED BY <1>6, <3>1, <3>2, <3>3 DEF IsControllerService, given
  <2> QED BY <2>1, <2>2
<1>9. PolicyFits(New("service"), C!ServiceType(s))
  <2>1. A!PolicyAdmitted(New("service"))
    <3>1. ~ControllerFails("service", New("service"), s)
      BY <1>1, <1>2
    <3> QED BY <3>1 DEF ControllerFails
  <2>2. New("service").type = C!ServiceType(s)
    <3> HIDE DEF s
    <3> QED BY <1>6 DEF IsControllerService
  <2> QED BY <1>6, <2>1, <2>2 DEF ControllerPolicy, A!PolicyAdmitted, PolicyFits
<1> HIDE DEF s, given
<1>10. Controller' = s /\ Grants(Controller)' = Grants(s)
  BY <1>1
<1> QED BY <1>3, <1>4, <1>5, <1>6, <1>7, <1>8, <1>9, <1>10 DEF ControllerSettled, s

\* One that has not is stopped by the account's other role, the selector or a
\* volume of what is kept, or the ports.
LEMMA ControllerRunStops ==
  ASSUME TypeOK, ControllerInv, ControllerRuns, ctlPass' \in ControllerKinds
  PROVE  ControllerStopped'
<1> DEFINE s == Controller
           kind == ctlPass'
           account == C!getServiceAccount(s)
<1>1. /\ ControllerFails(kind, ControllerObject(kind, ctlLive[kind], s), s)
      /\ ctlLive'[kind] = ctlLive[kind]
  BY DEF ControllerRuns
<1>2. s' = s /\ ControllerOK(s) /\ BindingsKept /\ clearsPolicy' = clearsPolicy
  BY ControllerRunTyped, ControllerObjects
<1>3. /\ HoldsContainers(ctlLive.deployment)
      /\ ctlLive.service # Absent => ctlLive.service.ports \in Seq(AllPorts)
  BY DEF ControllerInv, ControlPlane
<1> HIDE DEF s, kind
<1>4. CASE kind = "clusterRoleBinding"
  <2>1. BoundElsewhere(account, "higress-controller")
    BY <1>1, <1>4 DEF ControllerFails
  <2>2. account \in DOMAIN bindings /\ bindings[account] = "higress-gateway"
    BY <2>1 DEF BoundElsewhere, TypeOK
  <2>3. account' = account
    BY <1>2
  <2> HIDE DEF account
  <2>4. account' \in DOMAIN bindings' /\ bindings'[account'] = "higress-gateway"
    BY <1>2, <2>2, <2>3 DEF BindingsKept
  <2>5. ControllerRefused("clusterRoleBinding")'
    BY <2>4 DEF ControllerRefused, account, s
  <2> QED BY <1>4, <2>4, <2>5 DEF ControllerStopped, kind, account, s
<1>5. CASE kind = "deployment"
  <2>1. /\ ctlLive.deployment # Absent
        /\ \/ ctlLive.deployment.selector # s.selectorLabels
           \/ \E name \in DOMAIN ctlLive.deployment.containers :
                LET c == ctlLive.deployment.containers[name] IN
                \/ "config" \in c.mounts /\ s.enableHigressIstio
                \/ "istio-token" \in c.mounts /\ s.jwtPolicy # "third-party-jwt"
                \/ "extracacerts" \in c.mounts /\ ~s.extraRootCA
    BY <1>1, <1>3, <1>5, ControllerDeploymentRefused
  <2>2. ctlLive'.deployment = ctlLive.deployment
    BY <1>1, <1>5
  <2>3. ControllerRefused("deployment")'
    BY <1>2, <2>1, <2>2 DEF ControllerRefused, ControlPlane, s
  <2> QED BY <1>5, <2>3 DEF ControllerStopped, kind
<1>6. CASE kind = "service"
  <2>1. LET ports == C!PortsOf(ctlLive.service, s) IN
        \/ ports = <<>> /\ s.enableHigressIstio
        \/ ports # <<>> /\ ~A!PortsAdmitted(ports)
        \/ /\ ~s.enableHigressIstio
           /\ \E p \in Range(ports) :
                p[1] = A!NoName \/ \E q \in Range(C!PilotPorts) : p[2] = q[2] /\ p[1] # q[1]
        \/ ~A!External(C!ServiceType(s)) /\ KeptPolicy(ctlLive.service)
    BY <1>1, <1>2, <1>3, <1>6, ControllerServiceRefused
  <2>2. ctlLive'.service = ctlLive.service
    BY <1>1, <1>6
  <2>3. ControllerRefused("service")'
    BY <1>2, <2>1, <2>2, PolicyStaysKept DEF ControllerRefused, s
  <2> QED BY <1>6, <2>3 DEF ControllerStopped, kind
<1> QED BY <1>4, <1>5, <1>6 DEF ControllerKinds, kind

\* So every pass of the controller's reconciler keeps the invariant.
LEMMA ControllerPassInv == ASSUME IInv, ControllerPass PROVE IInv'
<1>1. TypeOK /\ GatewayInv /\ ControllerInv /\ DOMAIN ctlLive = AllControllerKinds
  BY DEF IInv, TypeOK, AllControllerKinds
<1>2. ControllerRuns
  BY <1>1, ControllerPassRuns
<1>3. /\ TypeOK' /\ BindingsKept /\ UNCHANGED <<gwVars, clearsPolicy>> /\ HoldsContainers(ControlPlane)'
      /\ (ctlLive.service # Absent => ctlLive.service.ports \in Seq(AllPorts))'
  BY <1>1, <1>2, ControllerRunTyped
<1>4. GatewayInv'
  BY <1>1, <1>3, GatewayUntouched
<1>5. IsMap(ctlLive)'
  BY <1>2 DEF ControllerRuns, IsMap
<1>6. ControllerSettled'
  BY <1>1, <1>2, ControllerRunSettles DEF ControllerSettled
<1>7. ControllerStopped'
  BY <1>1, <1>2, ControllerRunStops DEF ControllerStopped
<1> QED BY <1>3, <1>4, <1>5, <1>6, <1>7 DEF IInv, ControllerInv

---------------------------------------------------------------------------
(* The invariant of every behaviour. *)

\* Edits change one resource, whose next pass is then awaited.
LEMMA EditsInv == ASSUME IInv, EditGateway \/ EditController PROVE IInv'
<1>1. /\ TypeOK /\ GatewayInv /\ ControllerInv /\ part \in DOMAIN Parts
      /\ WellTyped(gw, GatewayFields, GatewayTypes)
      /\ WellTyped(ctl, ControllerFields, ControllerTypes)
  BY DEF IInv, TypeOK
<1>2. CASE EditGateway
  <2>1. PICK new \in Edited(gw, Parts[part].gateway) : gw' = new
    BY <1>2 DEF EditGateway
  <2>2. /\ gwPass' = "pending" /\ gwLive' = gwLive /\ UNCHANGED ctlVars
        /\ bindings' = bindings /\ part' = part /\ clearsPolicy' = clearsPolicy
    BY <1>2 DEF EditGateway
  <2>3. WellTyped(gw', GatewayFields, GatewayTypes)
    <3>1. Offers(Parts[part].gateway, GatewayFields, GatewayTypes)
      BY <1>1, ResourcesAssumption
    <3> QED BY <1>1, <2>1, <3>1, EditTyped
  <2>4. ControllerInv'
    BY <1>1, <2>2, ControllerUntouched DEF BindingsKept
  <2>5. GatewayInv'
    BY <1>1, <2>2 DEF GatewayInv, GatewaySettled, GatewayStopped, GatewayKinds, IsMap
  <2>6. /\ ctl' = ctl /\ ctlLive' = ctlLive /\ ctlPass' = ctlPass
        /\ Proxies' = Proxies /\ ControlPlane' = ControlPlane
    BY <2>2 DEF ctlVars, Proxies, ControlPlane
  <2>7. TypeOK'
    BY <1>1, <2>2, <2>3, <2>6 DEF TypeOK
  <2> QED BY <2>4, <2>5, <2>7 DEF IInv
<1>3. CASE EditController
  <2>1. PICK new \in Edited(ctl, Parts[part].controller) : ctl' = new
    BY <1>3 DEF EditController
  <2>2. /\ ctlPass' = "pending" /\ ctlLive' = ctlLive /\ UNCHANGED gwVars
        /\ bindings' = bindings /\ part' = part /\ clearsPolicy' = clearsPolicy
    BY <1>3 DEF EditController
  <2>3. WellTyped(ctl', ControllerFields, ControllerTypes)
    <3>1. Offers(Parts[part].controller, ControllerFields, ControllerTypes)
      BY <1>1, ResourcesAssumption
    <3> QED BY <1>1, <2>1, <3>1, EditTyped
  <2>4. GatewayInv'
    BY <1>1, <2>2, GatewayUntouched DEF BindingsKept
  <2>5. ControllerInv'
    BY <1>1, <2>2 DEF ControllerInv, ControllerSettled, ControllerStopped, ControllerKinds,
                      IsMap, HoldsContainers, ControlPlane
  <2>6. /\ gw' = gw /\ gwLive' = gwLive /\ gwPass' = gwPass
        /\ Proxies' = Proxies /\ ControlPlane' = ControlPlane
    BY <2>2 DEF gwVars, Proxies, ControlPlane
  <2>7. TypeOK'
    BY <1>1, <2>2, <2>3, <2>6 DEF TypeOK
  <2> QED BY <2>4, <2>5, <2>7 DEF IInv
<1> QED BY <1>2, <1>3

\* Every step keeps the invariant.
LEMMA StepInv == IInv /\ [Next]_vars => IInv'
<1>1. ASSUME IInv, UNCHANGED vars
      PROVE  IInv'
  <2>1. /\ UNCHANGED gwVars /\ UNCHANGED ctlVars /\ bindings' = bindings /\ part' = part /\ clearsPolicy' = clearsPolicy
    BY <1>1 DEF vars
  <2>2. /\ gw' = gw /\ gwLive' = gwLive /\ gwPass' = gwPass
        /\ ctl' = ctl /\ ctlLive' = ctlLive /\ ctlPass' = ctlPass
        /\ Proxies' = Proxies /\ ControlPlane' = ControlPlane
    BY <2>1 DEF gwVars, ctlVars, Proxies, ControlPlane
  <2>3. GatewayInv' /\ ControllerInv'
    BY <1>1, <2>1, GatewayUntouched, ControllerUntouched DEF IInv, BindingsKept
  <2>4. TypeOK'
    BY <1>1, <2>1, <2>2 DEF IInv, TypeOK
  <2> QED BY <2>3, <2>4 DEF IInv
<1> QED BY <1>1, GatewayPassInv, ControllerPassInv, EditsInv DEF Next

\* The invariant holds in every state of every behaviour.
THEOREM Invariant == Spec => []IInv
<1>1. Init => IInv
  BY InitInv
<1> QED BY <1>1, StepInv, PTL DEF Spec

\* The resources keep their fields, every Service has a type and every
\* Deployment its replicas, whatever the users edit.
THEOREM WorkloadTypes == Spec => []TypeOK
<1>1. IInv => TypeOK
  BY DEF IInv
<1> QED BY <1>1, Invariant, PTL

---------------------------------------------------------------------------
(* What the invariant gives the users. *)

\* The gateway of every state has what the passes look at.
LEMMA GatewayIsOK == IInv => GatewayOK(Gateway)
BY GatewayDefaults DEF IInv, TypeOK, Gateway

\* In every state the validator accepts exactly what breaks no rule, and names
\* a rule that is broken otherwise.
THEOREM VerdictsAreRight == Spec => []VerdictMatchesRules
<1>1. IInv => VerdictMatchesRules
  BY GatewayIsOK, VerdictIsRight
<1> QED BY <1>1, Invariant, PTL

\* The autoscalers of a settled gateway: those of its spec, which has been
\* accepted.
LEMMA ScalersWork == IInv => ScalerCanWork
<1> SUFFICES ASSUME IInv, gwPass = "settled"
             PROVE  ScalerCanWork
  BY DEF ScalerCanWork
<1> DEFINE s == Gateway
           as == s.autoScaling
           mode == G!getEffectiveScaleMode(s)
<1>1. GatewayOK(s) /\ GatewaySettled
  BY GatewayIsOK DEF IInv, GatewayInv
<1>2. G!Valid(s)
  BY <1>1 DEF GatewaySettled
<1>3. /\ gwLive.hpa = IF ScaledBy("NativeHPA", s) THEN G!muteHPA(s) ELSE Absent
      /\ gwLive.scaledObject =
           IF ScaledBy("KEDA", s)
           THEN [labels |-> s.labels, max |-> as.max, triggers |-> as.keda, min |-> as.min]
           ELSE Absent
  BY <1>1, AutoscalersRendered DEF GatewaySettled
<1>4. ~(ScaledBy("NativeHPA", s) /\ ScaledBy("KEDA", s))
  BY DEF ScaledBy
<1>5. G!muteHPA(s).min = as.min /\ G!muteHPA(s).max = as.max
  BY DEF G!muteHPA
<1>6. Absent \in {gwLive.hpa, gwLive.scaledObject}
  BY <1>3, <1>4
<1>7. CASE mode = "Disabled"
  <2>1. gwLive.hpa = Absent /\ gwLive.scaledObject = Absent
    BY <1>3, <1>7 DEF ScaledBy
  <2> QED BY <2>1 DEF ScalerCanWork
<1>8. CASE mode # "Disabled"
  <2>1. /\ ~s.local /\ (as.min # Unset => as.min <= as.max)
        /\ mode = "NativeHPA" => s.cpuRequest = "set"
        /\ mode = "KEDA" => as.keda # Unset /\ as.keda # {}
    BY <1>1, <1>2, <1>8, AcceptedScalerCanWork
  <2>2. PICK order \in EnvOrders(s) :
          Proxies = [GatewayObject("deployment", Absent, s, order) EXCEPT !.replicas = Proxies.replicas]
    BY <1>1 DEF GatewaySettled
  <2>3. Proxies.container = GatewayObject("deployment", Absent, s, order).container
    <3>1. "container" \in DOMAIN GatewayObject("deployment", Absent, s, order)
      <4>1. "container" \in DOMAIN G!updateDeploymentSpec(Absent, s, order)
        BY DEF G!updateDeploymentSpec
      <4> QED BY <4>1, DeploymentRendered
    <3> QED BY <2>2, <3>1
  <2>4. Proxies.container.cpuRequest = IF s.local THEN "missing" ELSE s.cpuRequest
    BY <2>3, DeploymentFields
  <2>5. gwLive.hpa # Absent => Proxies.container.cpuRequest = "set"
    <3>1. gwLive.hpa # Absent => mode = "NativeHPA"
      BY <1>3 DEF ScaledBy
    <3> QED BY <2>1, <2>4, <3>1
  <2>6. gwLive.scaledObject # Absent =>
          mode = "KEDA" /\ gwLive.scaledObject.triggers = as.keda
          /\ gwLive.scaledObject.min = as.min /\ gwLive.scaledObject.max = as.max
    BY <1>3 DEF ScaledBy
  <2>7. gwLive.hpa # Absent => gwLive.hpa.min = as.min /\ gwLive.hpa.max = as.max
    BY <1>3, <1>5
  <2> HIDE DEF as, mode
  <2>8. ASSUME NEW scaler \in {gwLive.hpa, gwLive.scaledObject} \ {Absent}, scaler.min # Unset
        PROVE  scaler.min <= scaler.max
    <3>1. scaler.min = as.min /\ scaler.max = as.max
      BY <2>6, <2>7
    <3>2. as.min # Unset => as.min <= as.max
      BY <2>1
    <3> QED BY <2>8, <3>1, <3>2, Zenon
  <2> QED BY <1>6, <2>1, <2>5, <2>6, <2>8 DEF ScalerCanWork
<1> QED BY <1>7, <1>8

\* A settled gateway's autoscaler has what it needs to work.
THEOREM SettledScalersWork == Spec => []ScalerCanWork
BY ScalersWork, Invariant, PTL

\* A pass fails only for a reason in the spec or in what an earlier one has left.
THEOREM FailuresAreExplained == Spec => []RefusalsExplained
<1>1. IInv => RefusalsExplained
  BY DEF IInv, GatewayInv, GatewayStopped, ControllerInv, ControllerStopped, RefusalsExplained
<1> QED BY <1>1, Invariant, PTL

\* What a settled gateway has is what a new one with its spec would get.
LEMMA SettledIsFresh == IInv => NothingIsLeftOver
<1> SUFFICES ASSUME IInv, gwPass = "settled"
             PROVE  NothingIsLeftOver
  BY DEF NothingIsLeftOver
<1>1. GatewaySettled
  BY DEF IInv, GatewayInv
<1>2. /\ gwLive.configMap = G!createConfigMap(Gateway)
      /\ \A kind \in {"hpa", "scaledObject"} :
           gwLive[kind] = GatewayObject(kind, Absent, Gateway, <<>>)
  BY <1>1 DEF GatewaySettled
<1>3. PICK order \in EnvOrders(Gateway) :
        LET fresh == GatewayObject("deployment", Absent, Gateway, order) IN
        /\ Proxies = [fresh EXCEPT !.replicas = Proxies.replicas]
        /\ Proxies.replicas = Gateway.replicas \/ G!shouldPreserveReplicas(Gateway)
  BY <1>1 DEF GatewaySettled
<1> DEFINE fresh == GatewayObject("deployment", Absent, Gateway, order)
           once == G!updateDeploymentSpec(Absent, Gateway, order)
<1>4. fresh = [once EXCEPT !.replicas = Gateway.replicas]
  BY DeploymentRendered
<1> HIDE DEF fresh, once
<1>5. Proxies.replicas = Gateway.replicas => Proxies = fresh
  BY <1>3, <1>4 DEF fresh
<1>6. \/ Proxies = fresh
      \/ G!shouldPreserveReplicas(Gateway) /\ Proxies = [fresh EXCEPT !.replicas = Proxies.replicas]
  BY <1>3, <1>5 DEF fresh
<1> QED BY <1>2, <1>3, <1>6 DEF NothingIsLeftOver, fresh

\* Whatever specs came before, nothing of them is left in the ConfigMap, the
\* autoscalers and the Deployment of a settled gateway.
THEOREM NothingOldIsLeft == Spec => []NothingIsLeftOver
BY SettledIsFresh, Invariant, PTL

\* The fields of a settled gateway's Deployment.
LEMMA SettledProxies ==
  ASSUME GatewaySettled, gwPass = "settled"
  PROVE  Proxies.account = G!PodAccount(Gateway) /\ Proxies.volumes = G!genVolumes(Gateway)
<1>1. PICK order \in EnvOrders(Gateway) :
        Proxies = [GatewayObject("deployment", Absent, Gateway, order) EXCEPT !.replicas = Proxies.replicas]
  BY DEF GatewaySettled
<1> DEFINE fresh == GatewayObject("deployment", Absent, Gateway, order)
<1>2. {"account", "volumes"} \subseteq DOMAIN fresh
  <2>1. {"account", "volumes"} \subseteq DOMAIN G!updateDeploymentSpec(Absent, Gateway, order)
    BY DEF G!updateDeploymentSpec
  <2> QED BY <2>1, DeploymentRendered
<1>3. fresh.account = G!PodAccount(Gateway) /\ fresh.volumes = G!genVolumes(Gateway)
  BY DeploymentFields
<1> HIDE DEF fresh
<1> QED BY <1>1, <1>2, <1>3 DEF fresh

\* The fields of a settled controller's Deployment.
LEMMA SettledControlPlane ==
  ASSUME ControllerSettled, ctlPass = "settled"
  PROVE  /\ ControlPlane.account = C!getServiceAccount(Controller)
         /\ ControlPlane.podLabels = Controller.selectorLabels
         /\ ControlPlane.volumes = C!genVolumes(Controller)
         /\ Complete(ControlPlane.containers, Controller)
<1>1. /\ Complete(ControlPlane.containers, Controller)
      /\ ControlPlane = WithContainers(ControlPlane.containers, Controller)
  BY DEF ControllerSettled
<1>2. PICK containers : containers = ControlPlane.containers
  OBVIOUS
<1>3. ControlPlane = WithContainers(containers, Controller)
  BY <1>1, <1>2
<1> QED BY <1>1, <1>3, ControllerDeploymentFields

\* The pods of a settled resource run under an account that exists and has
\* their role.
LEMMA PodsGranted == IInv => PodsRunAsGranted
<1> SUFFICES ASSUME IInv PROVE PodsRunAsGranted
  OBVIOUS
<1>1. GatewaySettled /\ ControllerSettled /\ ControllerOK(Controller)
  BY ControllerObjects DEF IInv, GatewayInv, ControllerInv
<1>2. ASSUME gwPass = "settled", Grants(Gateway), Gateway.serviceAccount.name # ""
      PROVE  /\ Proxies.account \in gwLive.serviceAccounts \cap DOMAIN bindings
             /\ bindings[Proxies.account] = "higress-gateway"
  <2>1. Proxies.account = G!getServiceAccount(Gateway)
    BY <1>1, <1>2, SettledProxies DEF G!PodAccount, G!getServiceAccount, Grants
  <2> QED BY <1>1, <1>2, <2>1 DEF GatewaySettled, Bound
<1>3. ASSUME ctlPass = "settled", Grants(Controller)
      PROVE  /\ ControlPlane.account \in ctlLive.serviceAccounts \cap DOMAIN bindings
             /\ bindings[ControlPlane.account] = "higress-controller"
  <2>1. ControlPlane.account = C!getServiceAccount(Controller)
    BY <1>1, <1>3, SettledControlPlane
  <2>2. Controller.serviceAccount.enable
    BY <1>3 DEF Grants
  <2> QED BY <1>1, <1>3, <2>1, <2>2 DEF ControllerSettled, Bound
<1> QED BY <1>2, <1>3 DEF PodsRunAsGranted

\* Through every rename of the accounts, and whoever else asks for them, the
\* pods of settled resources have the permissions that were asked for.
THEOREM PodsHaveTheirRole == Spec => []PodsRunAsGranted
BY PodsGranted, Invariant, PTL

\* The name of the pilot's port is among the ports that are sent.
LEMMA PilotPortNamed ==
  ASSUME NEW ports \in Seq(AllPorts), NEW s, ~s.enableHigressIstio
  PROVE  \E p \in Range(FinalPorts(ports, s)) : p[1] = "https-dns"
<1> DEFINE final == FinalPorts(ports, s)
<1>1. final \in Seq(AllPorts) /\ \A p \in Members(C!PilotPorts) : Has(final, p[1])
  BY PortsAppendedOnce
<1> HIDE DEF final
<1>2. C!PilotPorts[2] \in Members(C!PilotPorts) /\ C!PilotPorts[2][1] = "https-dns"
  BY PilotPortsApart
<1>3. Has(final, "https-dns")
  BY <1>1, <1>2
<1>4. Range(final) = Members(final)
  BY <1>1, RangeIsMembers
<1> QED BY <1>3, <1>4, HasMember DEF final

\* A settled controller's Service offers the pilot's port to the proxies unless
\* the port's name is taken.
LEMMA PilotPortOffered ==
  ASSUME ControllerSettled, ctlPass = "settled", ~Controller.enableHigressIstio,
         ~ \E p \in Range(ctlLive.service.ports) : p[1] = "https-dns" /\ p[2] # 15012
  PROVE  /\ \E p \in Range(ctlLive.service.ports) : p[2] = 15012
         /\ ctlLive.service.selector = Controller.selectorLabels
<1> DEFINE given == Given(ctlLive.service, Controller)
<1>1. given \in Seq(AllPorts) /\ IsControllerService(ctlLive.service, given, Controller)
  BY DEF ControllerSettled
<1> HIDE DEF given
<1>2. /\ ctlLive.service.ports = FinalPorts(given, Controller)
      /\ ctlLive.service.selector = Controller.selectorLabels
  BY <1>1 DEF IsControllerService
<1>3. \E p \in Range(FinalPorts(given, Controller)) : p[1] = "https-dns"
  BY <1>1, PilotPortNamed
<1> QED BY <1>2, <1>3

\* The proxies of settled resources find the control plane.
LEMMA ProxiesFind == IInv => ProxiesFindTheControlPlane
<1> SUFFICES ASSUME IInv, gwPass = "settled", ctlPass = "settled",
                    ~Gateway.enableHigressIstio, ~Controller.enableHigressIstio, ~PilotNameTaken
             PROVE  LET svc == ctlLive.service IN
                    /\ \E p \in Range(svc.ports) :
                         gwLive.configMap.discoveryAddress = <<"higress-controller", p[2]>>
                    /\ A!Selects(svc.selector, ControlPlane.podLabels)
                    /\ \E name \in DOMAIN ControlPlane.containers :
                         ControlPlane.containers[name].role = "pilot"
                    /\ <<"istio-ca-root-cert", "higress-ca-root-cert">> \in Proxies.volumes
                    /\ <<"config", "higress-config">> \in Proxies.volumes \cap ControlPlane.volumes
  BY DEF ProxiesFindTheControlPlane
<1>1. GatewaySettled /\ ControllerSettled /\ GatewayOK(Gateway)
  BY GatewayIsOK DEF IInv, GatewayInv, ControllerInv
<1>2. /\ \E p \in Range(ctlLive.service.ports) : p[2] = 15012
      /\ ctlLive.service.selector = Controller.selectorLabels
  BY <1>1, PilotPortOffered DEF PilotNameTaken
<1>3. gwLive.configMap.discoveryAddress = <<"higress-controller", 15012>>
  BY <1>1, MeshIsTheController DEF GatewaySettled
<1>4. \E p \in Range(ctlLive.service.ports) :
        gwLive.configMap.discoveryAddress = <<"higress-controller", p[2]>>
  BY <1>2, <1>3
<1>5. /\ ControlPlane.podLabels = Controller.selectorLabels
      /\ ControlPlane.volumes = C!genVolumes(Controller)
      /\ Complete(ControlPlane.containers, Controller)
  BY <1>1, SettledControlPlane
<1>6. A!Selects(ctlLive.service.selector, ControlPlane.podLabels)
  BY <1>2, <1>5 DEF A!Selects
<1>7. /\ C!genPilotName(Controller) \in DOMAIN ControlPlane.containers
      /\ ControlPlane.containers[C!genPilotName(Controller)].role = "pilot"
  BY <1>5 DEF Complete, IsContainer, PilotNameTaken
<1>8. /\ <<"istio-ca-root-cert", "higress-ca-root-cert">> \in Proxies.volumes
      /\ <<"config", "higress-config">> \in Proxies.volumes
  BY <1>1, SettledProxies DEF G!genVolumes, G!caRootCertName
<1>9. <<"config", "higress-config">> \in ControlPlane.volumes
  BY <1>5 DEF C!genVolumes, C!When
<1> QED BY <1>4, <1>6, <1>7, <1>8, <1>9

\* Unless the specs give one of the pilot's names to something else, the proxies
\* of a settled gateway find the pilot of a settled controller.
THEOREM TheControlPlaneIsFound == Spec => []ProxiesFindTheControlPlane
BY ProxiesFind, Invariant, PTL

---------------------------------------------------------------------------
(* A pass over an unchanged spec. *)

\* Absent is none of the records that the builders render.
AbsentIsNoObject == DOMAIN Absent = {}

\* No spec of a gateway gives its container two variables: with two, Go's order
\* of iteration may change the Deployment from pass to pass.
OneVariableAtMost ==
  /\ \A x, y \in DefaultGateway.env : x = y
  /\ \A p \in DOMAIN Parts : "env" \in DOMAIN Parts[p].gateway =>
       \A env \in Parts[p].gateway["env"] : \A x, y \in env : x = y

EnvInv == \A x, y \in gw.env : x = y

\* There is one order of one variable.
LEMMA OneOrder ==
  ASSUME NEW S, \A x, y \in S : x = y, NEW f \in SetToSeqs(S), NEW g \in SetToSeqs(S)
  PROVE  f = g
<1>1. PICK D : f \in [D -> S] /\ g \in [D -> S]
  BY DEF SetToSeqs
<1>2. \A i \in D : f[i] = g[i]
  BY <1>1
<1> QED BY <1>1, <1>2

\* An edit of a gateway gives it the environment it had, or one of its part's.
LEMMA EnvEdited ==
  ASSUME NEW values, NEW old, "env" \in DOMAIN old
  PROVE  \A new \in Edited(old, values) :
           new.env = old.env \/ ("env" \in DOMAIN values /\ new.env \in values["env"])
<1>1. ASSUME NEW f \in DOMAIN values, NEW v \in values[f]
      PROVE  LET new == [old EXCEPT ![f] = v] IN
             new.env = old.env \/ ("env" \in DOMAIN values /\ new.env \in values["env"])
  <2>1. CASE f = "env"
    BY <1>1, <2>1
  <2>2. CASE f # "env"
    BY <2>2
  <2> QED BY <2>1, <2>2
<1> QED BY <1>1 DEF Edited

\* So no gateway has two variables.
LEMMA EnvStep ==
  ASSUME OneVariableAtMost, TypeOK, EnvInv, [Next]_vars
  PROVE  EnvInv'
<1>1. CASE EditGateway
  <2>1. PICK new \in Edited(gw, Parts[part].gateway) : gw' = new
    BY <1>1 DEF EditGateway
  <2>2. "env" \in DOMAIN gw /\ part \in DOMAIN Parts
    BY DEF TypeOK, WellTyped, GatewayFields, GatewayTypes
  <2>3. \/ gw'.env = gw.env
        \/ "env" \in DOMAIN Parts[part].gateway /\ gw'.env \in Parts[part].gateway["env"]
    BY <2>1, <2>2, EnvEdited
  <2> QED BY <2>2, <2>3 DEF EnvInv, OneVariableAtMost
<1>2. CASE ~EditGateway
  <2>1. gw' = gw
    BY <1>2 DEF Next, GatewayPass, ControllerPass, EditController, vars, gwVars
  <2> QED BY <2>1 DEF EnvInv
<1> QED BY <1>1, <1>2

\* Maps with the same keys and the same values are the same.
LEMMA SameMap ==
  ASSUME NEW m, NEW n, IsMap(m), IsMap(n), DOMAIN m = DOMAIN n, \A key \in DOMAIN m : m[key] = n[key]
  PROVE  m = n
BY DEF IsMap

\* What a settled gateway has is rendered as it is, or refused: a policy that
\* the server has cleared is sent again, and the second time it is not cleared.
LEMMA SettledGatewayRendered ==
  ASSUME AbsentIsNoObject, EnvInv, IInv, gwPass = "settled", NEW order \in EnvOrders(Gateway)
  PROVE  \A kind \in AllGatewayKinds :
           LET new == GatewayObject(kind, gwLive[kind], Gateway, order) IN
           new = gwLive[kind] \/ GatewayFails(kind, new, Gateway)
<1> DEFINE s == Gateway
<1>1. GatewaySettled
  BY DEF IInv, GatewayInv
<1>2. GatewayObject("serviceAccounts", gwLive.serviceAccounts, s, order) = gwLive.serviceAccounts
  BY <1>1 DEF GatewaySettled, GatewayObject
<1>3. GatewayObject("configMap", gwLive.configMap, s, order) = gwLive.configMap
  BY <1>1 DEF GatewaySettled, GatewayObject
<1>4. \A kind \in {"hpa", "scaledObject"} : GatewayObject(kind, gwLive[kind], s, order) = gwLive[kind]
  BY <1>1, AutoscalersRendered DEF GatewaySettled
<1>5. \A kind \in {"clusterRoleBinding", "skywalkingConfigMap"} :
        GatewayObject(kind, gwLive[kind], s, order) = gwLive[kind]
  BY DEF GatewayObject
<1>6. LET new == GatewayObject("service", gwLive.service, s, order) IN
      new = gwLive.service \/ GatewayFails("service", new, s)
  <2> DEFINE svc == gwLive.service
             new == GatewayObject("service", svc, s, order)
             sent == G!updateServiceSpec(svc, s)
  <2>1. /\ svc = [sent EXCEPT !.policy = svc.policy]
        /\ A!External(s.service.type) <=> svc.policy # ""
        /\ A!External(s.service.type) /\ s.service.policy # "" => svc.policy = s.service.policy
    BY <1>1 DEF GatewaySettled, Renders, PolicyFits, PolicyGiven
  <2>2. /\ sent.policy = IF s.service.policy # "" THEN s.service.policy ELSE svc.policy
        /\ sent.type = s.service.type
        /\ "policy" \in DOMAIN sent
        /\ "type" \in DOMAIN sent
    BY DEF G!updateServiceSpec, G!PolicySent
  <2> HIDE DEF sent
  <2>3. DOMAIN svc # {}
    BY <2>1, <2>2
  <2>4. svc # Absent
    BY <2>3 DEF AbsentIsNoObject
  <2>5. new = A!Stored(svc, sent, clearsPolicy)
    BY <2>4 DEF GatewayObject, Base, sent
  <2> HIDE DEF new
  <2>6. StoredAs(new, svc, sent)
    BY <2>2, <2>5, PolicyStored, Zenon
  <2>7. CASE new.policy = svc.policy
    <3>1. PICK policy : policy = svc.policy
      OBVIOUS
    <3>2. svc = [sent EXCEPT !.policy = policy] /\ new = [sent EXCEPT !.policy = policy]
      BY <2>1, <2>6, <2>7, <3>1 DEF StoredAs
    <3> QED BY <3>2 DEF new
  <2>8. CASE new.policy # svc.policy
    <3>1. ~A!External(s.service.type) /\ new.policy # ""
      BY <2>1, <2>2, <2>6, <2>8 DEF StoredAs
    <3>2. new.type = s.service.type
      BY <2>2, <2>6 DEF StoredAs
    <3>3. ~A!PolicyAdmitted(new)
      BY <3>1, <3>2 DEF A!PolicyAdmitted
    <3> HIDE DEF s
    <3>4. GatewayFails("service", new, s)
      BY <3>3 DEF GatewayFails
    <3> QED BY <3>4 DEF new
  <2> QED BY <2>7, <2>8
<1>7. GatewayObject("deployment", gwLive.deployment, s, order) = gwLive.deployment
  <2> DEFINE once(o) == G!updateDeploymentSpec(Absent, s, o)
             fresh(o) == GatewayObject("deployment", Absent, s, o)
  <2>1. PICK o \in EnvOrders(s) :
          /\ Proxies = [fresh(o) EXCEPT !.replicas = Proxies.replicas]
          /\ Proxies.replicas = s.replicas \/ G!shouldPreserveReplicas(s)
    BY <1>1 DEF GatewaySettled
  <2>2. s.env = gw.env
    BY GatewayDefaults DEF IInv, TypeOK, Gateway
  <2>3. o = order
    <3>1. \A x, y \in s.env : x = y
      BY <2>2 DEF EnvInv
    <3>2. o \in SetToSeqs(s.env) /\ order \in SetToSeqs(s.env)
      BY DEF EnvOrders
    <3> HIDE DEF s
    <3> QED BY <3>1, <3>2, OneOrder
  <2>4. fresh(order) = [once(order) EXCEPT !.replicas = s.replicas]
    BY DeploymentRendered
  <2>5. "replicas" \in DOMAIN once(order)
    BY DEF G!updateDeploymentSpec
  <2>6. GatewayObject("deployment", Proxies, s, order) =
          [once(order) EXCEPT !.replicas =
             IF G!shouldPreserveReplicas(s) /\ Proxies # Absent THEN Proxies.replicas ELSE s.replicas]
    BY DeploymentRendered
  <2> HIDE DEF once, fresh, s
  <2>7. PICK n : n = Proxies.replicas
    OBVIOUS
  <2>8. Proxies = [once(order) EXCEPT !.replicas = n]
    BY <2>1, <2>3, <2>4, <2>7
  <2>9. Proxies # Absent
    BY <2>5, <2>8 DEF AbsentIsNoObject
  <2>10. GatewayObject("deployment", Proxies, s, order) = [once(order) EXCEPT !.replicas = n]
    BY <2>1, <2>6, <2>7, <2>9
  <2> QED BY <2>8, <2>10 DEF Proxies
<1> QED BY <1>2, <1>3, <1>4, <1>5, <1>6, <1>7 DEF AllGatewayKinds, GatewayKinds

\* The same of a controller: what is kept is all there is to render.
LEMMA SettledControllerRendered ==
  ASSUME AbsentIsNoObject, IInv, ctlPass = "settled"
  PROVE  \A kind \in AllControllerKinds : ControllerObject(kind, ctlLive[kind], Controller) = ctlLive[kind]
<1> DEFINE s == Controller
           svc == ctlLive.service
<1>1. TypeOK /\ ControllerInv /\ ControllerSettled
  BY DEF IInv, ControllerInv
<1>2. ControllerObject("serviceAccounts", ctlLive.serviceAccounts, s) = ctlLive.serviceAccounts
  BY <1>1 DEF ControllerSettled, ControllerObject
<1>3. ControllerObject("clusterRoleBinding", ctlLive.clusterRoleBinding, s) = ctlLive.clusterRoleBinding
  BY DEF ControllerObject
<1>4. ControllerObject("deployment", ControlPlane, s) = ControlPlane
  <2> DEFINE new == ControllerObject("deployment", ControlPlane, s)
  <2>1. /\ Complete(ControlPlane.containers, s)
        /\ ControlPlane = WithContainers(ControlPlane.containers, s)
    BY <1>1 DEF ControllerSettled
  <2>2. \A m : DOMAIN WithContainers(m, s) # {}
    BY DEF WithContainers
  <2>3. ControlPlane # Absent
    BY <2>1, <2>2 DEF AbsentIsNoObject
  <2>4. /\ RendersContainers(new.containers, Kept(ControlPlane), s)
        /\ new = WithContainers(new.containers, s)
    BY <1>1, ControllerObjects
  <2> HIDE DEF new, s
  <2>5. Kept(ControlPlane) = ControlPlane.containers
    BY <2>3 DEF Kept
  <2>6. new.containers = ControlPlane.containers
    BY <2>1, <2>4, <2>5 DEF RendersContainers, Complete
  <2>7. new = WithContainers(ControlPlane.containers, s)
    BY <2>4, <2>6
  <2> QED BY <2>1, <2>7 DEF new
<1>5. ControllerObject("service", svc, s) = svc
  <2> DEFINE new == ControllerObject("service", svc, s)
             given == Given(svc, s)
             sent == C!updateServiceSpec(svc, s)
  <2>1. /\ given \in Seq(AllPorts) /\ IsControllerService(svc, given, s)
        /\ A!External(C!ServiceType(s)) <=> svc.policy # ""
    BY <1>1 DEF ControllerSettled, PolicyFits
  <2>2. IsControllerService(new, C!PortsOf(svc, s), s)
    BY <1>1, ControllerObjects
  <2>3. DOMAIN svc # {}
    <3>1. PICK policy : policy = svc.policy
      OBVIOUS
    <3>2. svc = [selector |-> s.selectorLabels, policy |-> policy, type |-> C!ServiceType(s),
                 ports |-> FinalPorts(given, s)]
      BY <2>1, <3>1 DEF IsControllerService
    <3> HIDE DEF given
    <3> QED BY <3>2
  <2>4. svc # Absent
    BY <2>3 DEF AbsentIsNoObject
  <2>5. C!PortsOf(svc, s) = given
    BY <2>4 DEF C!PortsOf, Given
  <2>6. IsControllerService(new, given, s)
    BY <2>2, <2>5
  <2>7. /\ sent.policy = svc.policy /\ sent.type = C!ServiceType(s)
        /\ "policy" \in DOMAIN sent
    BY <2>4 DEF C!updateServiceSpec
  <2>8. new = A!Stored(svc, sent, clearsPolicy)
    BY <2>4 DEF ControllerObject, Base
  <2> HIDE DEF new, given, s, sent
  <2>9. new.policy = svc.policy
    <3>1. StoredAs(new, svc, sent)
      BY <2>7, <2>8, PolicyStored, Zenon
    <3> QED BY <2>1, <2>7, <3>1 DEF StoredAs
  <2>10. PICK policy : policy = svc.policy
    OBVIOUS
  <2>11. svc = [selector |-> s.selectorLabels, policy |-> policy, type |-> C!ServiceType(s),
                ports |-> FinalPorts(given, s)]
    BY <2>1, <2>10 DEF IsControllerService
  <2>12. new = [selector |-> s.selectorLabels, policy |-> policy, type |-> C!ServiceType(s),
                ports |-> FinalPorts(given, s)]
    BY <2>6, <2>9, <2>10 DEF IsControllerService
  <2> QED BY <2>11, <2>12 DEF new
<1> QED BY <1>2, <1>3, <1>4, <1>5 DEF AllControllerKinds, ControllerKinds, ControlPlane

\* A settled resource's objects are left as they are by every step.
LEMMA SettledStep ==
  ASSUME AbsentIsNoObject, EnvInv, IInv, [Next]_vars
  PROVE  /\ gwPass = "settled" => gwLive' = gwLive
         /\ ctlPass = "settled" => ctlLive' = ctlLive
<1>1. /\ TypeOK /\ GatewayInv /\ ControllerInv
      /\ DOMAIN gwLive = AllGatewayKinds /\ DOMAIN ctlLive = AllControllerKinds
      /\ IsMap(gwLive) /\ IsMap(ctlLive)
  BY DEF IInv, TypeOK, AllGatewayKinds, AllControllerKinds, GatewayInv, ControllerInv
<1>2. CASE GatewayPass
  <2>1. PICK order \in EnvOrders(Gateway) : GatewayRuns(order)
    BY <1>1, <1>2, GatewayPassRuns
  <2>2. ctlLive' = ctlLive
    BY <2>1 DEF GatewayRuns, ctlVars
  <2>3. ASSUME gwPass = "settled"
        PROVE  gwLive' = gwLive
    <3>1. DOMAIN gwLive' = AllGatewayKinds /\ IsMap(gwLive')
          /\ \A kind \in AllGatewayKinds :
               LET new == GatewayObject(kind, gwLive[kind], Gateway, order) IN
               gwLive'[kind] = gwLive[kind] \/ (~GatewayFails(kind, new, Gateway) /\ gwLive'[kind] = new)
      BY <2>1 DEF GatewayRuns
    <3>2. \A kind \in AllGatewayKinds :
            LET new == GatewayObject(kind, gwLive[kind], Gateway, order) IN
            new = gwLive[kind] \/ GatewayFails(kind, new, Gateway)
      BY <2>1, <2>3, SettledGatewayRendered
    <3>3. \A kind \in AllGatewayKinds : gwLive'[kind] = gwLive[kind]
      BY <3>1, <3>2
    <3> QED BY <1>1, <3>1, <3>3, SameMap
  <2> QED BY <2>2, <2>3
<1>3. CASE ControllerPass
  <2>1. ControllerRuns
    BY <1>1, <1>3, ControllerPassRuns
  <2>2. gwLive' = gwLive
    BY <2>1 DEF ControllerRuns, gwVars
  <2>3. ASSUME ctlPass = "settled"
        PROVE  ctlLive' = ctlLive
    <3>1. DOMAIN ctlLive' = AllControllerKinds /\ IsMap(ctlLive')
          /\ \A kind \in AllControllerKinds :
               ctlLive'[kind] \in {ctlLive[kind], ControllerObject(kind, ctlLive[kind], Controller)}
      BY <2>1 DEF ControllerRuns
    <3>2. \A kind \in AllControllerKinds : ControllerObject(kind, ctlLive[kind], Controller) = ctlLive[kind]
      BY <2>3, SettledControllerRendered
    <3>3. \A kind \in AllControllerKinds : ctlLive'[kind] = ctlLive[kind]
      BY <3>1, <3>2
    <3> QED BY <1>1, <3>1, <3>3, SameMap
  <2> QED BY <2>2, <2>3
<1>4. CASE EditGateway \/ EditController \/ UNCHANGED vars
  BY <1>4 DEF EditGateway, EditController, vars, gwVars, ctlVars
<1> QED BY <1>2, <1>3, <1>4 DEF Next

\* A pass over an unchanged spec changes no object, so that the passes the
\* objects' own events start come to an end; a gateway's environment is to have
\* one variable at most.
THEOREM PassesComeToRest ==
  ASSUME AbsentIsNoObject, OneVariableAtMost
  PROVE  Spec => SettledPassChangesNothing
<1>1. Init => EnvInv
  BY DEF Init, EnvInv, OneVariableAtMost
<1>2. TypeOK /\ EnvInv /\ [Next]_vars => EnvInv'
  BY EnvStep
<1>3. IInv /\ EnvInv /\ [Next]_vars =>
        [/\ gwPass = "settled" => gwLive' = gwLive
         /\ ctlPass = "settled" => ctlLive' = ctlLive]_vars
  BY SettledStep
<1> QED BY <1>1, <1>2, <1>3, Invariant, WorkloadTypes, PTL DEF Spec, SettledPassChangesNothing
=============================================================================
