--------------------------- MODULE GatewayBuilders ---------------------------
(***************************************************************************)
(* The objects a HigressGateway renders: deployment.go, service.go,        *)
(* configmap.go, hpa.go and keda.go of internal/controller/higressgateway, *)
(* each as an operator from the object the server holds and the gateway to *)
(* the object CreateOrUpdate sends.                                        *)
(*                                                                         *)
(* A gateway is a record of its metadata.labels and the fields of its      *)
(* spec; name and namespace are fixed.  Label maps are functions, volumes  *)
(* pairs of a name and a source, mounts the names of volumes, ports        *)
(* sequences of pairs of a name and a number.                              *)
(***************************************************************************)
EXTENDS AutoscalingConfig, Maps, Sequences

CONSTANT Absent

Name == "higress-gateway"
Namespace == "higress-system"

DefaultSelector == [app |-> "higress-gateway", higress |-> "higress-system-higress-gateway"]
DefaultService == [type |-> "LoadBalancer", ip |-> "", ranges |-> {}, policy |-> "",
                   ports |-> <<<<"http2", 80>>, <<"https", 443>>>>]
OrDefault(v, default) == IF v = Unset THEN default ELSE v
setDefaultValues(gw) ==
  [gw EXCEPT !.rbac = OrDefault(@, TRUE),
             !.serviceAccount = OrDefault(@, [enable |-> TRUE, name |-> "higress-gateway"]),
             !.replicas = OrDefault(@, 1),
             !.selectorLabels = IF DOMAIN @ = {} THEN DefaultSelector ELSE @,
             !.service = OrDefault(@, DefaultService),
             !.skywalking = OrDefault(@, FALSE)]

getServiceAccount(gw) ==
  IF gw.serviceAccount.name # "" THEN gw.serviceAccount.name ELSE Name

(***************************************************************************)
(* The gateway's ConfigMap.                                                *)
(***************************************************************************)
\* The data, and the gateway as it is left behind: the copy of the mesh
\* configuration that is marshalled is taken before the discovery address is
\* written to the gateway's own.
updateGatewayConfigMapSpec(gw) ==
  LET istiod == IF gw.enableHigressIstio THEN "istiod" ELSE "higress-controller"
      root == CASE ~gw.enableHigressIstio -> Namespace
                [] gw.enableHigressIstio /\ gw.meshConfig.rootNamespace = "" -> gw.istioNamespace
                [] OTHER -> gw.meshConfig.rootNamespace
  IN [mesh |-> [gw.meshConfig EXCEPT !.rootNamespace = root,
                  !.configSources = @ \cup IF gw.enableIstioAPI THEN {"k8s://"} ELSE {}],
      gateway |-> [gw EXCEPT !.meshConfig.discoveryAddress = <<istiod, 15012>>]]

\* Faulty variant: what initGatewayConfigMap has rendered is sent.
configMapOfInit(gw) == updateGatewayConfigMapSpec(gw).mesh

\* initGatewayConfigMap renders it once, the MutateFn of CreateOrUpdate again.
createConfigMap(gw) == updateGatewayConfigMapSpec(updateGatewayConfigMapSpec(gw).gateway).mesh

(***************************************************************************)
(* The Deployment.                                                         *)
(***************************************************************************)
\* Faulty variant: a scheduling label overrides the selector's.
buildPodTemplateLabelsOverridden(gw) == Merged(gw.schedulingLabels, gw.selectorLabels)

buildPodTemplateLabels(gw) == Merged(gw.selectorLabels, gw.schedulingLabels)

ThirdParty(gw) == gw.jwtPolicy = "third-party-jwt"
When(condition, set) == IF condition THEN set ELSE {}

genVolumeMounts(gw) ==
  {"config", "istio-ca-root-cert", "istio-data", "podinfo", "proxy-socket"}
  \cup When(ThirdParty(gw), {"istio-token"})
  \cup When(gw.skywalking, {"custom-bootstrap-volume"})

caRootCertName(gw) ==
  IF gw.enableHigressIstio THEN "istio-ca-root-cert" ELSE "higress-ca-root-cert"
genVolumes(gw) ==
  {<<"config", "higress-config">>, <<"istio-ca-root-cert", caRootCertName(gw)>>,
   <<"istio-data", "emptyDir">>, <<"proxy-socket", "emptyDir">>, <<"podinfo", "downwardAPI">>}
  \cup When(ThirdParty(gw), {<<"istio-token", "serviceAccountToken">>})
  \cup When(gw.skywalking, {<<"custom-bootstrap-volume", "higress-custom-bootstrap">>})
  \cup When(gw.wasmPlugins, {<<"local-wasmplugins-volume", "/opt/plugins">>})

genPorts(gw) ==
  IF gw.ports # {} THEN gw.ports ELSE {15090} \cup When(gw.local, {80, 443})

\* order is the order in which Go happens to iterate over the map spec.env.
genEnv(gw, order) ==
  <<<<"JWT_POLICY", gw.jwtPolicy>>>>
  \o (IF gw.skywalking THEN <<<<"ISTIO_BOOTSTRAP_OVERRIDE", "custom_bootstrap.json">>>> ELSE <<>>)
  \o (IF gw.network # "" THEN <<<<"ISTIO_META_REQUESTED_NETWORK_VIEW", gw.network>>>> ELSE <<>>)
  \o [i \in 1..Len(order) |-> <<order[i], "given">>]

\* Faulty variant: the account is taken to be named after the instance.
PodAccountInstance(gw) == IF gw.serviceAccount.enable THEN Name ELSE ""

PodAccount(gw) == IF gw.serviceAccount.enable THEN gw.serviceAccount.name ELSE ""

updateDeploymentSpec(old, gw, order) ==
  [replicas |-> IF shouldPreserveReplicas(gw) /\ old # Absent THEN old.replicas ELSE gw.replicas,
   selector |-> gw.selectorLabels,
   rolling |-> gw.rolling,
   podLabels |-> buildPodTemplateLabels(gw),
   account |-> PodAccount(gw),
   hostNetwork |-> gw.hostNetwork,
   volumes |-> genVolumes(gw),
   container |-> [env |-> genEnv(gw, order), ports |-> genPorts(gw), mounts |-> genVolumeMounts(gw),
                  cpuRequest |-> IF gw.local THEN "missing" ELSE gw.cpuRequest]]

(***************************************************************************)
(* The Service.                                                            *)
(***************************************************************************)
initService(gw) ==
  [labels |-> gw.labels, selector |-> EmptyMap, ip |-> "", ranges |-> {}, policy |-> "",
   type |-> "", ports |-> <<>>]

\* The network's label is written to the map of labels, which may be nil.
ServicePanics(svc, gw) == gw.network # "" /\ svc.labels = Unset

NetworkPorts ==
  <<<<"status-port", 15021>>, <<"tls", 15443>>, <<"tls-istiod", 15012>>, <<"tls-webhook", 15017>>>>

\* Faulty variant: the policy gets its default whatever the type.
PolicySentAlways(svc, gw) ==
  IF gw.service.policy # "" THEN gw.service.policy
  ELSE IF svc.policy # "" THEN svc.policy ELSE "Cluster"

PolicySent(svc, gw) == IF gw.service.policy # "" THEN gw.service.policy ELSE svc.policy

updateServiceSpec(svc, gw) ==
  [labels |-> IF gw.network = "" THEN svc.labels
              ELSE Merged(Entry("topology.istio.io/network", gw.network), svc.labels),
   selector |-> gw.selectorLabels,
   ip |-> IF gw.service.ip # "" THEN gw.service.ip ELSE svc.ip,
   ranges |-> IF gw.service.ranges # {} THEN gw.service.ranges ELSE svc.ranges,
   policy |-> PolicySent(svc, gw),
   type |-> gw.service.type,
   ports |-> IF gw.network # "" THEN NetworkPorts ELSE gw.service.ports]

(***************************************************************************)
(* The autoscalers.                                                        *)
(***************************************************************************)
muteHPA(gw) ==
  [labels |-> gw.labels, min |-> gw.autoScaling.min, max |-> gw.autoScaling.max,
   cpuTarget |-> gw.autoScaling.cpuTarget]

\* Faulty variant: what the spec no longer gives stays in the map.
muteScaledObjectMerged(old, gw) ==
  [labels |-> gw.labels, max |-> gw.autoScaling.max, triggers |-> gw.autoScaling.keda,
   min |-> IF gw.autoScaling.min = Unset /\ old # Absent THEN old.min ELSE gw.autoScaling.min]

muteScaledObject(old, gw) ==
  [labels |-> gw.labels, max |-> gw.autoScaling.max, triggers |-> gw.autoScaling.keda,
   min |-> gw.autoScaling.min]
=============================================================================
