-------------------------- MODULE ControllerBuilders --------------------------
(***************************************************************************)
(* The Deployment and the Service of a HigressController: deployment.go    *)
(* and service.go of internal/controller/higresscontroller, in the terms   *)
(* of module GatewayBuilders.  containers maps a container's name to what  *)
(* it was made from.                                                       *)
(***************************************************************************)
EXTENDS Maps, Integers, Sequences

CONSTANTS Absent, Unset

Name == "higress-controller"

OrDefault(v, default) == IF v = Unset THEN default ELSE v
setDefaultValues(ctl) ==
  [ctl EXCEPT !.rbac = OrDefault(@, TRUE),
              !.serviceAccount = OrDefault(@, [enable |-> TRUE, name |-> "higress-controller"]),
              !.selectorLabels = IF DOMAIN @ = {} THEN [app |-> "higress-controller"] ELSE @]

getServiceAccount(ctl) ==
  IF ctl.serviceAccount.name # "" THEN ctl.serviceAccount.name ELSE Name

(***************************************************************************)
(* The Deployment.                                                         *)
(***************************************************************************)
ThirdParty(ctl) == ctl.jwtPolicy = "third-party-jwt"
When(condition, set) == IF condition THEN set ELSE {}

genControllerName(ctl) == IF ctl.controllerName # "" THEN ctl.controllerName ELSE "higress-core"
genControllerVolumeMounts(ctl) == {"log"}
Controller(ctl) ==
  [role |-> "controller", image |-> ctl.image, mounts |-> genControllerVolumeMounts(ctl)]

genPilotName(ctl) == IF ctl.pilotName # "" THEN ctl.pilotName ELSE "discovery"
genPilotVolumeMounts(ctl) ==
  {"config", "local-certs", "cacerts", "istio-kubeconfig"}
  \cup When(ThirdParty(ctl), {"istio-token"})
  \cup When(ctl.extraRootCA, {"extracacerts"})
Pilot(ctl) == [role |-> "pilot", image |-> ctl.image, mounts |-> genPilotVolumeMounts(ctl)]

genVolumes(ctl) ==
  {<<"log", "emptyDir">>, <<"local-certs", "emptyDir">>, <<"cacerts", "secret">>,
   <<"istio-kubeconfig", "secret">>}
  \cup When(~ctl.enableHigressIstio, {<<"config", "higress-config">>})
  \cup When(ThirdParty(ctl), {<<"istio-token", "serviceAccountToken">>})
  \cup When(ctl.extraRootCA, {<<"extracacerts", "pilot-jwks-extra-cacerts">>})

\* A container is added only if none of its name is there.
AddContainer(containers, name, container) == Merged(containers, Entry(name, container))

updateDeploymentSpec(old, ctl) ==
  LET kept == IF old = Absent THEN EmptyMap ELSE old.containers
      withController == AddContainer(kept, genControllerName(ctl), Controller(ctl))
  IN [selector |-> ctl.selectorLabels,
      podLabels |-> ctl.selectorLabels,
      replicas |-> OrDefault(ctl.replicas, 1),
      account |-> getServiceAccount(ctl),
      volumes |-> genVolumes(ctl),
      containers |-> IF ctl.enableHigressIstio THEN withController
                     ELSE AddContainer(withController, genPilotName(ctl), Pilot(ctl))]

(***************************************************************************)
(* The Service.                                                            *)
(***************************************************************************)
PilotPorts ==
  <<<<"grpc-xds", 15010>>, <<"https-dns", 15012>>, <<"https-webhook", 443>>,
    <<"https-monitoring", 15014>>>>

PortsOf(old, ctl) ==
  CASE ctl.service # Unset -> ctl.service.ports
    [] ctl.service = Unset /\ old # Absent -> old.ports
    [] OTHER -> <<>>

\* A port of the pilot's is appended unless one is there under its name.
Missing(port, ports) ==
  IF \E i \in 1..Len(ports) : ports[i][1] = port[1] THEN <<>> ELSE <<port>>
Appended(ports) ==
  (Missing(PilotPorts[1], ports) \o Missing(PilotPorts[2], ports))
  \o (Missing(PilotPorts[3], ports) \o Missing(PilotPorts[4], ports))

\* Faulty variant: an empty type is passed on.
ServiceTypeGiven(ctl) == IF ctl.service # Unset THEN ctl.service.type ELSE "ClusterIP"

ServiceType(ctl) ==
  IF ctl.service # Unset /\ ctl.service.type # "" THEN ctl.service.type ELSE "ClusterIP"

updateServiceSpec(old, ctl) ==
  LET ports == PortsOf(old, ctl) IN
  [selector |-> ctl.selectorLabels,
   policy |-> IF old = Absent THEN "" ELSE old.policy,
   type |-> ServiceType(ctl),
   ports |-> IF ctl.enableHigressIstio THEN ports ELSE ports \o Appended(ports)]
=============================================================================
