-------------------------- MODULE WorkloadProperties --------------------------
(***************************************************************************)
(* What the rendered objects owe the users of a HigressGateway and a       *)
(* HigressController.                                                      *)
(***************************************************************************)
EXTENDS Workloads

\* The resources with their defaults, and their Deployments.
Gateway == G!setDefaultValues(gw)
Controller == C!setDefaultValues(ctl)
Proxies == gwLive.deployment
ControlPlane == ctlLive.deployment

\* Type invariant: the resources keep their fields, each pass ends in one of
\* its ways, a Service has a type and every object is absent or complete.
TypeOK ==
  /\ WellTyped(gw, GatewayFields, GatewayTypes)
  /\ WellTyped(ctl, ControllerFields, ControllerTypes)
  /\ part \in DOMAIN Parts /\ clearsPolicy \in BOOLEAN
  /\ DOMAIN gwLive = GatewayKinds \cup {"serviceAccounts"}
  /\ DOMAIN ctlLive = ControllerKinds \cup {"serviceAccounts"}
  /\ gwPass \in {"pending", "settled", "rejected"} \cup GatewayKinds
  /\ ctlPass \in {"pending", "settled"} \cup ControllerKinds
  /\ \A s \in {gwLive.service, ctlLive.service} \ {Absent} : s.type \in ServiceTypes
  /\ Proxies # Absent => Proxies.replicas \in Nat
  /\ ControlPlane # Absent => ControlPlane.replicas \in Nat
  /\ \A account \in DOMAIN bindings : bindings[account] \in {"higress-gateway", "higress-controller"}

---------------------------------------------------------------------------
(* The validator. *)

On == Gateway.autoScaling # Unset /\ Gateway.autoScaling.enable
Effective(mode) ==
  /\ On
  /\ \/ Gateway.autoScaling.mode = mode
     \/ /\ Gateway.autoScaling.mode = ""
        /\ mode = "KEDA" <=> Gateway.autoScaling.keda # Unset
        /\ mode \in {"KEDA", "NativeHPA"}
Scaling == Effective("NativeHPA") \/ Effective("KEDA")

Breaks(reason) ==
  CASE reason = "LocalModeUnsupported" -> Scaling /\ Gateway.local
    [] reason = "InvalidReplicaBounds" ->
         /\ Scaling /\ Gateway.autoScaling.min # Unset
         /\ Gateway.autoScaling.min > Gateway.autoScaling.max
    [] reason = "MissingCPUTarget" ->
         Effective("NativeHPA") /\ Gateway.autoScaling.cpuTarget = Unset
    [] reason = "MissingCPURequest" ->
         Effective("NativeHPA") /\ Gateway.cpuRequest \in {"missing", "zero"}
    [] reason = "MissingKEDAConfig" -> Effective("KEDA") /\ Gateway.autoScaling.keda = Unset
    [] reason = "MissingKEDATriggers" -> Effective("KEDA") /\ Gateway.autoScaling.keda = {}
    [] reason = "InvalidKEDATrigger" ->
         /\ Effective("KEDA") /\ Gateway.autoScaling.keda # Unset
         /\ \E t \in Gateway.autoScaling.keda : t.type = ""
    [] OTHER -> FALSE

Reasons == {"LocalModeUnsupported", "InvalidReplicaBounds", "MissingCPUTarget",
            "MissingCPURequest", "MissingKEDAConfig", "MissingKEDATriggers",
            "InvalidKEDATrigger"}

\* validateAutoscalingConfig accepts exactly the configurations that break no
\* rule, and the reason it gives is a rule the configuration breaks, although
\* it tests the rules in sequence and on a mode computed once per test.
VerdictMatchesRules ==
  IF \E r \in Reasons : Breaks(r)
  THEN Breaks(G!validateAutoscalingConfig(Gateway))
  ELSE G!Valid(Gateway)

\* A settled gateway's autoscaler can work: there is one at most, the container
\* an HPA measures carries the cpu request its utilization is a ratio of
\* (validateAutoscalingConfig, although updateDeploymentSpec leaves the
\* resources out of a local deployment), a ScaledObject has triggers, and the
\* bounds are not crossed whatever an earlier configuration has left.
ScalerCanWork ==
  gwPass = "settled" =>
    /\ Absent \in {gwLive.hpa, gwLive.scaledObject}
    /\ gwLive.hpa # Absent => Proxies.container.cpuRequest = "set"
    /\ gwLive.scaledObject # Absent => gwLive.scaledObject.triggers \notin {{}, Unset}
    /\ \A scaler \in {gwLive.hpa, gwLive.scaledObject} \ {Absent} :
         scaler.min # Unset => scaler.min <= scaler.max

---------------------------------------------------------------------------
(* Passes that fail, and why. *)

\* A policy of the Service's former type that the server does not clear.
KeptPolicy(svc) == ~clearsPolicy /\ svc # Absent /\ svc.policy # ""

GatewayRefused(kind) ==
  CASE kind = "clusterRoleBinding" -> bindings[G!getServiceAccount(Gateway)] = "higress-controller"
    [] kind = "skywalkingConfigMap" -> Gateway.skywalking
    [] kind = "deployment" ->
         \/ Gateway.rolling = [surge |-> 0, unavailable |-> 0]
         \/ Proxies # Absent /\ Proxies.selector # Gateway.selectorLabels
    [] kind = "hpa" ->
         LET as == Gateway.autoScaling IN
         (as.min # Unset /\ as.min < 1) \/ as.max < 1 \/ as.cpuTarget < 1
    [] kind = "scaledObject" -> \E t \in Gateway.autoScaling.keda : ~t.metadata
    [] kind = "service" ->
         \/ Gateway.network # "" /\ Unset \in {Gateway.labels} \cup
              (IF gwLive.service = Absent THEN {} ELSE {gwLive.service.labels})
         \/ Gateway.network = "" /\ ~A!PortsAdmitted(Gateway.service.ports)
         \/ /\ Gateway.service.type # "LoadBalancer"
            /\ \/ Gateway.service.ranges # {}
               \/ gwLive.service # Absent /\ gwLive.service.ranges # {}
         \/ /\ ~A!External(Gateway.service.type)
            /\ Gateway.service.policy # "" \/ KeptPolicy(gwLive.service)

ControllerRefused(kind) ==
  CASE kind = "clusterRoleBinding" -> bindings[C!getServiceAccount(Controller)] = "higress-gateway"
    [] kind = "deployment" ->
         /\ ControlPlane # Absent
         /\ \/ ControlPlane.selector # Controller.selectorLabels
            \/ \E name \in DOMAIN ControlPlane.containers :
                 LET c == ControlPlane.containers[name] IN
                 \/ "config" \in c.mounts /\ Controller.enableHigressIstio
                 \/ "istio-token" \in c.mounts /\ Controller.jwtPolicy # "third-party-jwt"
                 \/ "extracacerts" \in c.mounts /\ ~Controller.extraRootCA
    [] kind = "service" ->
         LET ports == C!PortsOf(ctlLive.service, Controller) IN
         \/ ports = <<>> /\ Controller.enableHigressIstio
         \/ ports # <<>> /\ ~A!PortsAdmitted(ports)
         \/ /\ ~Controller.enableHigressIstio
            /\ \E p \in Range(ports) :
                 p[1] = A!NoName \/ \E q \in Range(C!PilotPorts) : p[2] = q[2] /\ p[1] # q[1]
         \/ ~A!External(C!ServiceType(Controller)) /\ KeptPolicy(ctlLive.service)

\* A pass fails only for one of these reasons, all of them in the spec or in
\* what an earlier spec has left: a binding that grants the account another
\* role, the skywalking ConfigMap, no rolling budget, an edited selector, an
\* HPA's bound or target below one, a ScaledObject's trigger without metadata, a
\* network without labels, a Service whose ports are none, repeat, lack a name
\* beside others or hold a pilot's port under another name, source ranges or a
\* traffic policy that do not go with the Service's type, and, in the
\* controller's Deployment, a container that is kept and mounts a volume that is
\* not rendered any more.
\* The fields modelled are given no other reason, whatever was edited before.
RefusalsExplained ==
  /\ gwPass \in GatewayKinds => GatewayRefused(gwPass)
  /\ ctlPass \in ControllerKinds => ControllerRefused(ctlPass)

---------------------------------------------------------------------------
(* Passes that succeed. *)

\* A pass over an unchanged spec changes no object: what the builders keep of
\* the live object, append to it or render in an order of their own is a fixed
\* point, or every pass would start the next one (Owns in SetupWithManager).
SettledPassChangesNothing ==
  [][/\ gwPass = "settled" => gwLive' = gwLive
     /\ ctlPass = "settled" => ctlLive' = ctlLive]_vars

\* After a pass, what the spec no longer gives is gone from the ConfigMap, the
\* autoscalers and the gateway's Deployment but for the replicas an autoscaler
\* sets: they are what a new gateway with this spec would get, whatever specs
\* came before.
NothingIsLeftOver ==
  gwPass = "settled" =>
    /\ gwLive.configMap = G!createConfigMap(Gateway)
    /\ \E order \in EnvOrders(Gateway) :
         LET fresh == GatewayObject("deployment", Absent, Gateway, order) IN
         \/ Proxies = fresh
         \/ /\ G!shouldPreserveReplicas(Gateway)
            /\ Proxies = [fresh EXCEPT !.replicas = Proxies.replicas]
    /\ \A kind \in {"hpa", "scaledObject"} :
         gwLive[kind] = GatewayObject(kind, Absent, Gateway, <<>>)

\* A spec has given a name of the pilot's to something else: its port, or its
\* container.  What has the name stays, and what the pilot needs is not added.
PilotNameTaken ==
  \/ \E p \in Range(ctlLive.service.ports) : p[1] = "https-dns" /\ p[2] # 15012
  \/ ControlPlane.containers[C!genPilotName(Controller)].role = "controller"

\* With both resources settled and the mesh's own control plane in use, the
\* gateway's proxies find it unless one of its names is taken: they are
\* configured with the controller's address and a port that its Service offers,
\* the Service selects pods that run the pilot, and both sides use one
\* certificate authority and one mesh ConfigMap.
ProxiesFindTheControlPlane ==
  /\ gwPass = "settled" /\ ctlPass = "settled"
  /\ ~Gateway.enableHigressIstio /\ ~Controller.enableHigressIstio /\ ~PilotNameTaken
  => LET svc == ctlLive.service IN
     /\ \E p \in Range(svc.ports) :
          gwLive.configMap.discoveryAddress = <<"higress-controller", p[2]>>
     /\ A!Selects(svc.selector, ControlPlane.podLabels)
     /\ \E name \in DOMAIN ControlPlane.containers :
          ControlPlane.containers[name].role = "pilot"
     /\ <<"istio-ca-root-cert", "higress-ca-root-cert">> \in Proxies.volumes
     /\ <<"config", "higress-config">> \in Proxies.volumes \cap ControlPlane.volumes

\* With RBAC and service accounts enabled the pods of a settled resource run
\* under an account that exists and is bound to their role, through renames of
\* the account; excepted is a gateway that enables an account without naming
\* it, whose pods run as the namespace's default account.
PodsRunAsGranted ==
  /\ gwPass = "settled" /\ Grants(Gateway) /\ Gateway.serviceAccount.name # "" =>
       /\ Proxies.account \in gwLive.serviceAccounts \cap DOMAIN bindings
       /\ bindings[Proxies.account] = "higress-gateway"
  /\ ctlPass = "settled" /\ Grants(Controller) =>
       /\ ControlPlane.account \in ctlLive.serviceAccounts \cap DOMAIN bindings
       /\ bindings[ControlPlane.account] = "higress-controller"

---------------------------------------------------------------------------
(* What the code does not keep. *)

\* An edit of a HigressController reaches its Deployment: after a pass the
\* containers are those a new resource with this spec would get.
EditsReachTheDeployment ==
  ctlPass # "pending" /\ ControlPlane # Absent =>
    ControlPlane.containers = ControllerObject("deployment", Absent, Controller).containers

\* A gateway that gives only what the schema requires gets its Deployment.
SchemaAcceptedIsDeployed == gwPass # "deployment"
=============================================================================
