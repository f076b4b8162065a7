------------------------------ MODULE MCWorkloads ------------------------------
(***************************************************************************)
(* Instances of Workloads for TLC.                                         *)
(***************************************************************************)
EXTENDS WorkloadProperties

Labels == "team" :> "edge"
NewSelector == "app" :> "gw"

SampleGateway ==
  [labels |-> Labels, selectorLabels |-> EmptyMap, schedulingLabels |-> EmptyMap,
   serviceAccount |-> Unset, rbac |-> Unset, replicas |-> Unset, jwtPolicy |-> "third-party-jwt",
   skywalking |-> Unset, env |-> {}, network |-> "", local |-> FALSE, hostNetwork |-> FALSE,
   wasmPlugins |-> FALSE, ports |-> {}, cpuRequest |-> "missing",
   rolling |-> [surge |-> 1, unavailable |-> 0],
   enableHigressIstio |-> FALSE, enableIstioAPI |-> FALSE, istioNamespace |-> "istio-system",
   meshConfig |-> [rootNamespace |-> "", configSources |-> {}, discoveryAddress |-> <<>>],
   service |-> Unset, autoScaling |-> Unset]

\* The rolling budget left out: the zero value of IntOrString, twice.
MinimalGateway == [SampleGateway EXCEPT !.rolling = [surge |-> 0, unavailable |-> 0]]

SampleController ==
  [selectorLabels |-> EmptyMap, serviceAccount |-> Unset, rbac |-> Unset, replicas |-> Unset,
   jwtPolicy |-> "third-party-jwt", enableHigressIstio |-> FALSE, extraRootCA |-> FALSE,
   controllerName |-> "", pilotName |-> "", image |-> "v1", service |-> Unset]

Part(gateway, controller) == [gateway |-> gateway, controller |-> controller]
None == [f \in {} |-> {}]

Accounts == {Unset, [enable |-> FALSE, name |-> ""]} \cup [enable : {TRUE}, name : {"", "mesh"}]

\* Who the pods run as.
AccountPart ==
  Part([serviceAccount |-> Accounts, rbac |-> {Unset, FALSE}],
       [serviceAccount |-> Accounts, rbac |-> {Unset, FALSE}])

\* The control plane the proxies look for.
MeshPart ==
  Part([enableHigressIstio |-> BOOLEAN, enableIstioAPI |-> BOOLEAN],
       [enableHigressIstio |-> BOOLEAN,
        service |-> {Unset} \cup [type : {"", "LoadBalancer"},
                                  ports : {<<>>, <<<<"", 8888>>>>, <<<<"https-dns", 15012>>>>,
                                           <<<<"https-dns", 53>>>>, <<<<"dns", 15012>>>>,
                                           <<<<"http", 8888>>>>,
                                           <<<<"http", 80>>, <<"http2", 80>>>>}]])
\* The gateway's Deployment.
GatewayLabelPart ==
  Part([selectorLabels |-> {EmptyMap, NewSelector},
        schedulingLabels |-> {EmptyMap, "app" :> "batch", "zone" :> "a"},
        skywalking |-> {Unset, TRUE}, env |-> {{}, {"A"}},
        rolling |-> {[surge |-> 1, unavailable |-> 0], [surge |-> 0, unavailable |-> 0]}],
       None)
GatewayPodPart ==
  Part([jwtPolicy |-> {"third-party-jwt", "first-party-jwt"}, wasmPlugins |-> BOOLEAN,
        ports |-> {{}, {8080}}, local |-> BOOLEAN, hostNetwork |-> BOOLEAN],
       None)

\* The controller's Deployment.
ContainerPart ==
  Part(None,
       [jwtPolicy |-> {"third-party-jwt", "first-party-jwt"}, enableHigressIstio |-> BOOLEAN,
        controllerName |-> {"", "core", "discovery"}, pilotName |-> {"", "pilot"}])
ImagePart ==
  Part(None,
       [selectorLabels |-> {EmptyMap, NewSelector}, replicas |-> {Unset, 2},
        extraRootCA |-> BOOLEAN, enableHigressIstio |-> BOOLEAN, image |-> {"v1", "v2"}])

\* The gateway's Service.
ServicePart ==
  Part([labels |-> {Unset, Labels}, network |-> {"", "net1"},
        service |-> {Unset} \cup [type : {"LoadBalancer", "ClusterIP"}, ip : {"", "10.0.0.1"},
                                  ranges : {{}, {"10.0.0.0/8"}}, policy : {"", "Local"},
                                  ports : {<<>>, <<<<"http2", 80>>>>, <<<<"http2", 80>>, <<"http", 80>>>>}]],
       None)

\* Triggers of a ScaledObject.
CPU == [type |-> "cpu", metadata |-> TRUE]
Bare == [CPU EXCEPT !.metadata = FALSE]
Untyped == [CPU EXCEPT !.type = ""]

\* Autoscaling: the bounds, and the choice of a mode.
BoundsPart ==
  Part([cpuRequest |-> {"missing", "set"},
        autoScaling |-> {Unset} \cup
          [enable : BOOLEAN, mode : {"NativeHPA", "KEDA"}, min : {Unset, 0, 1}, max : {0, 1},
           cpuTarget : {0, 80}, keda : {{CPU}}]],
       None)
ModePart ==
  Part([local |-> BOOLEAN, cpuRequest |-> {"missing", "zero", "set"},
        autoScaling |-> {Unset} \cup
          [enable : BOOLEAN, mode : {"", "Disabled", "NativeHPA", "KEDA"}, min : {Unset},
           max : {1}, cpuTarget : {Unset, 80}, keda : {Unset, {}, {Untyped}, {Bare}, {CPU}}]],
       None)
ReplicasPart ==
  Part([replicas |-> {Unset, 2, 3},
        autoScaling |-> {Unset} \cup
          [enable : BOOLEAN, mode : {"KEDA"}, min : {Unset}, max : {1}, cpuTarget : {Unset},
           keda : {{CPU}}]],
       None)

AllParts ==
  <<AccountPart, MeshPart, GatewayLabelPart, GatewayPodPart, ContainerPart, ImagePart,
    ServicePart, BoundsPart, ModePart, ReplicasPart>>

\* Two variables in the environment of the gateway's container.
EnvParts == <<Part([env |-> SUBSET {"A", "B"}], None)>>
\* Edits of a HigressController.
ContainerParts == <<ContainerPart, ImagePart>>
\* No edits.
NoParts == <<Part(None, None)>>
=============================================================================
