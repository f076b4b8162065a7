------------------------------ MODULE Workloads ------------------------------
(***************************************************************************)
(* What the operators make of one HigressGateway and one HigressController *)
(* in a namespace, edit after edit: the rendered objects meet the ones     *)
(* that earlier specs have left and the API server's validation.  A pass   *)
(* of a reconciler is one step here, on caches that are current; its       *)
(* interleavings are the subject of GatewayReconciler and                  *)
(* ControllerReconciler.  The KEDA CRD is installed.                       *)
(***************************************************************************)
EXTENDS Maps, Integers, Sequences, SequencesExt

CONSTANTS
  Absent, Unset,
  DefaultGateway, DefaultController,  \* the resources as they are created
  Parts             \* bound: only the fields of one part of the specs are edited
                    \* in a behaviour; a part maps fields of either resource to
                    \* the values they may take

VARIABLES
  part,             \* the part that is edited
  clearsPolicy,     \* the server clears a traffic policy that is left over from
                    \* a Service's former type; old servers refuse it
  gw, ctl,          \* the resources on the server
  gwLive, ctlLive,  \* the objects made for each, by kind
  bindings,         \* the ClusterRoleBindings: service account -> role granted
  gwPass, ctlPass   \* since the last edit: "pending" before a pass, "settled"
                    \* after one, "rejected" by the validator, or the kind of
                    \* object the last pass failed at

gwVars == <<gw, gwLive, gwPass>>
ctlVars == <<ctl, ctlLive, ctlPass>>
vars == <<gwVars, ctlVars, bindings, part, clearsPolicy>>

G == INSTANCE GatewayBuilders
C == INSTANCE ControllerBuilders
A == INSTANCE Admission

(***************************************************************************)
(* The resources.  What a field of a spec may hold; label maps are         *)
(* functions of any kind, or nil.  Bound: replicas are not negative, and a *)
(* Service's type, policy and numbers are ones a Service can have, or the  *)
(* server refuses them.                                                    *)
(***************************************************************************)
ServiceTypes == {"ClusterIP", "NodePort", "LoadBalancer"}
TrafficPolicies == {"", "Cluster", "Local"}
PortNumbers == 1..65535
Ports == Seq(STRING \X PortNumbers)
ServiceAccounts == {Unset} \cup [enable : BOOLEAN, name : STRING]
JWTPolicies == {"third-party-jwt", "first-party-jwt"}

GatewayTypes ==
  [serviceAccount |-> ServiceAccounts, rbac |-> {Unset} \cup BOOLEAN,
   replicas |-> {Unset} \cup Nat, jwtPolicy |-> JWTPolicies,
   skywalking |-> {Unset} \cup BOOLEAN, env |-> SUBSET STRING, network |-> STRING,
   local |-> BOOLEAN, hostNetwork |-> BOOLEAN, wasmPlugins |-> BOOLEAN,
   ports |-> SUBSET PortNumbers,
   cpuRequest |-> {"missing", "zero", "set"}, rolling |-> [surge : Nat, unavailable : Nat],
   enableHigressIstio |-> BOOLEAN, enableIstioAPI |-> BOOLEAN, istioNamespace |-> STRING,
   meshConfig |-> [rootNamespace : STRING, configSources : SUBSET STRING,
                   discoveryAddress : {<<>>} \cup (STRING \X Int)],
   service |-> {Unset} \cup [type : ServiceTypes, ip : STRING, ranges : SUBSET STRING,
                             policy : TrafficPolicies, ports : Ports],
   autoScaling |-> G!AutoScalings]

ControllerTypes ==
  [serviceAccount |-> ServiceAccounts, rbac |-> {Unset} \cup BOOLEAN,
   replicas |-> {Unset} \cup Nat, jwtPolicy |-> JWTPolicies,
   enableHigressIstio |-> BOOLEAN, extraRootCA |-> BOOLEAN,
   controllerName |-> STRING, pilotName |-> STRING, image |-> STRING,
   service |-> {Unset} \cup [type : ServiceTypes \cup {""}, ports : Ports]]

GatewayFields == DOMAIN GatewayTypes \cup {"labels", "selectorLabels", "schedulingLabels"}
ControllerFields == DOMAIN ControllerTypes \cup {"selectorLabels"}

WellTyped(resource, fields, types) ==
  DOMAIN resource = fields /\ \A f \in DOMAIN types : resource[f] \in types[f]

\* The values that a part offers.
Offers(values, fields, types) ==
  /\ DOMAIN values \subseteq fields
  /\ \A f \in DOMAIN values \cap DOMAIN types : values[f] \subseteq types[f]

ASSUME ResourcesAssumption ==
  /\ WellTyped(DefaultGateway, GatewayFields, GatewayTypes)
  /\ WellTyped(DefaultController, ControllerFields, ControllerTypes)
  /\ \A p \in DOMAIN Parts :
       /\ Offers(Parts[p].gateway, GatewayFields, GatewayTypes)
       /\ Offers(Parts[p].controller, ControllerFields, ControllerTypes)

(***************************************************************************)
(* The ClusterRoleBindings.                                                *)
(***************************************************************************)
\* createRBAC binds role to the account; the role of a binding never changes.
Grants(s) == s.rbac /\ s.serviceAccount.enable
BoundElsewhere(account, role) == account \in DOMAIN bindings /\ bindings[account] # role
Bind(s, account, role) ==
  IF Grants(s) /\ ~BoundElsewhere(account, role) THEN Merged(bindings, Entry(account, role)) ELSE bindings

(***************************************************************************)
(* The objects of a pass.  s is the resource with its defaults, old what   *)
(* the server holds.                                                       *)
(***************************************************************************)
\* CreateOrUpdate sends the mutated object, which was initialised anew or read.
Base(old, initial) == IF old = Absent THEN initial ELSE old

ScaledBy(mode, s) == G!Valid(s) /\ G!getEffectiveScaleMode(s) = mode

\* The object kind is to be when the server has stored it, or Absent if it is
\* to go; bindings are not here.
GatewayObject(kind, old, s, order) ==
  CASE kind = "serviceAccounts" -> old \cup {G!getServiceAccount(s)}
    [] kind = "configMap" -> G!createConfigMap(s)
    [] kind = "deployment" ->
         G!updateDeploymentSpec(Base(old, G!updateDeploymentSpec(Absent, s, order)), s, order)
    [] kind = "hpa" -> IF ScaledBy("NativeHPA", s) THEN G!muteHPA(s) ELSE Absent
    [] kind = "scaledObject" ->
         IF ScaledBy("KEDA", s) THEN G!muteScaledObject(old, s) ELSE Absent
    [] kind = "service" ->
         A!Stored(old, G!updateServiceSpec(Base(old, G!updateServiceSpec(G!initService(s), s)), s),
                  clearsPolicy)
    [] OTHER -> old

\* The pass stops here: the server refuses new, or the builder fails.
GatewayFails(kind, new, s) ==
  LET old == gwLive[kind] IN
  CASE kind = "clusterRoleBinding" ->
         Grants(s) /\ BoundElsewhere(G!getServiceAccount(s), "higress-gateway")
    [] kind = "deployment" ->
         ~ /\ A!Mountable(new.container.mounts, new.volumes)
           /\ A!SelectorAdmitted(old, new)
           /\ A!RollingAdmitted(new.rolling)
    [] kind = "hpa" -> new # Absent /\ ~A!HPAAdmitted(new)
    [] kind = "scaledObject" -> new # Absent /\ ~A!ScaledObjectAdmitted(new)
    [] kind = "service" ->
         \/ G!ServicePanics(G!initService(s), s)
         \/ old # Absent /\ G!ServicePanics(old, s)
         \/ ~(A!PortsAdmitted(new.ports) /\ A!RangesAdmitted(new) /\ A!PolicyAdmitted(new))
    [] kind = "skywalkingConfigMap" -> s.skywalking
    [] OTHER -> FALSE

ControllerObject(kind, old, s) ==
  CASE kind = "serviceAccounts" ->
         IF s.serviceAccount.enable THEN old \cup {C!getServiceAccount(s)} ELSE old
    [] kind = "deployment" ->
         C!updateDeploymentSpec(Base(old, C!updateDeploymentSpec(Absent, s)), s)
    [] kind = "service" ->
         A!Stored(old, C!updateServiceSpec(Base(old, C!updateServiceSpec(Absent, s)), s),
                  clearsPolicy)
    [] OTHER -> old

ControllerFails(kind, new, s) ==
  CASE kind = "clusterRoleBinding" ->
         Grants(s) /\ BoundElsewhere(C!getServiceAccount(s), "higress-controller")
    [] kind = "deployment" ->
         ~ /\ \A name \in DOMAIN new.containers :
                A!Mountable(new.containers[name].mounts, new.volumes)
           /\ A!SelectorAdmitted(ctlLive[kind], new)
    [] kind = "service" -> ~(A!PortsAdmitted(new.ports) /\ A!PolicyAdmitted(new))
    [] OTHER -> FALSE

(***************************************************************************)
(* Passes.                                                                 *)
(***************************************************************************)
\* How many of the kinds it asks for, in this order, a pass writes: all of
\* them, or those before the first at which it fails.
Stops(kinds, failing) ==
  {n \in 0..Len(kinds) : /\ \A i \in 1..n : kinds[i] \notin failing
                         /\ n < Len(kinds) => kinds[n + 1] \in failing}
FirstOf(kinds, n) == {kinds[i] : i \in 1..n}

\* Faulty variant: the other autoscaler is only deleted with autoscaling off.
AutoscalersWanted(s) ==
  CASE ScaledBy("NativeHPA", s) -> <<"hpa">>
    [] ScaledBy("KEDA", s) -> <<"scaledObject">>
    [] OTHER -> <<"hpa", "scaledObject">>

\* In every mode the autoscaler that is not wanted is deleted first.
Autoscalers(s) ==
  IF ScaledBy("NativeHPA", s) THEN <<"scaledObject", "hpa">> ELSE <<"hpa", "scaledObject">>

GatewayCalls(s) ==
  IF ~G!Valid(s) THEN Autoscalers(s)
  ELSE <<"serviceAccounts", "clusterRoleBinding", "configMap", "skywalkingConfigMap", "deployment">>
       \o Autoscalers(s) \o <<"service">>

\* Faulty variant: the variables the operator sets are put in the same map.
EnvOrdersOfAll(s) == SetToSeqs(s.env \cup {"JWT_POLICY"})

\* The orders in which Go may iterate over the map spec.env.
EnvOrders(s) == SetToSeqs(s.env)

\* HigressGatewayReconciler.Reconcile.
GatewayPass ==
  LET s == G!setDefaultValues(gw)
      calls == GatewayCalls(s) IN
  \E order \in EnvOrders(s) :
    LET New(kind) == GatewayObject(kind, gwLive[kind], s, order) IN
    \E n \in Stops(calls, {kind \in DOMAIN gwLive : GatewayFails(kind, New(kind), s)}) :
      /\ gwLive' = [kind \in DOMAIN gwLive |->
                     IF kind \in FirstOf(calls, n) THEN New(kind) ELSE gwLive[kind]]
      /\ gwPass' = IF n < Len(calls) THEN calls[n + 1]
                   ELSE IF G!Valid(s) THEN "settled" ELSE "rejected"
      /\ bindings' = IF G!Valid(s) THEN Bind(s, G!getServiceAccount(s), "higress-gateway")
                     ELSE bindings
      /\ UNCHANGED <<gw, ctlVars, part, clearsPolicy>>

ControllerCalls == <<"serviceAccounts", "clusterRoleBinding", "deployment", "service">>

\* HigressControllerReconciler.Reconcile.
ControllerPass ==
  LET s == C!setDefaultValues(ctl)
      New(kind) == ControllerObject(kind, ctlLive[kind], s) IN
  \E n \in Stops(ControllerCalls, {kind \in DOMAIN ctlLive : ControllerFails(kind, New(kind), s)}) :
    /\ ctlLive' = [kind \in DOMAIN ctlLive |->
                    IF kind \in FirstOf(ControllerCalls, n) THEN New(kind) ELSE ctlLive[kind]]
    /\ ctlPass' = IF n < Len(ControllerCalls) THEN ControllerCalls[n + 1] ELSE "settled"
    /\ bindings' = Bind(s, C!getServiceAccount(s), "higress-controller")
    /\ UNCHANGED <<ctl, gwVars, part, clearsPolicy>>

(***************************************************************************)
(* The users' edits.                                                       *)
(***************************************************************************)
\* One field at a time; of the autoscaling configuration, one of its fields.
SmallStep(f, old, new) ==
  f = "autoScaling" /\ old # Unset /\ new # Unset =>
    \E g \in DOMAIN new : \A h \in DOMAIN new \ {g} : new[h] = old[h]

Edited(resource, values) ==
  UNION {{[resource EXCEPT ![f] = v] : v \in {w \in values[f] : SmallStep(f, resource[f], w)}} :
         f \in DOMAIN values}

EditGateway ==
  \E new \in Edited(gw, Parts[part].gateway) \ {gw} :
    /\ gw' = new /\ gwPass' = "pending"
    /\ UNCHANGED <<gwLive, ctlVars, bindings, part, clearsPolicy>>

EditController ==
  \E new \in Edited(ctl, Parts[part].controller) \ {ctl} :
    /\ ctl' = new /\ ctlPass' = "pending"
    /\ UNCHANGED <<ctlLive, gwVars, bindings, part, clearsPolicy>>

GatewayKinds ==
  {"clusterRoleBinding", "configMap", "skywalkingConfigMap", "deployment", "hpa",
   "scaledObject", "service"}
ControllerKinds == {"clusterRoleBinding", "deployment", "service"}
Nothing(kinds) ==
  [kind \in kinds \cup {"serviceAccounts"} |-> IF kind \in kinds THEN Absent ELSE {}]

Init ==
  /\ gw = DefaultGateway /\ gwLive = Nothing(GatewayKinds) /\ gwPass = "pending"
  /\ ctl = DefaultController /\ ctlLive = Nothing(ControllerKinds) /\ ctlPass = "pending"
  /\ bindings = EmptyMap /\ part \in DOMAIN Parts /\ clearsPolicy \in BOOLEAN

Next == GatewayPass \/ ControllerPass \/ EditGateway \/ EditController

Spec == Init /\ [][Next]_vars
=============================================================================
