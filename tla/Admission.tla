------------------------------ MODULE Admission ------------------------------
(***************************************************************************)
(* The API server's validation of what the operators render, as far as a   *)
(* HigressGateway or a HigressController can fail it.  old is the object   *)
(* the server holds, or Absent.  External: written from what the builders  *)
(* in internal/controller send, by the rules of the Kubernetes API.        *)
(***************************************************************************)
EXTENDS Integers, Sequences

CONSTANTS Absent, \* there is no such object
          Unset   \* a nil pointer, or a field that is not given

\* The mounts of a container name volumes of the pod.
Mountable(mounts, volumes) == mounts \subseteq {v[1] : v \in volumes}

\* A label map is a function; one selects another if it is a part of it.
Selects(selector, labels) ==
  \A key \in DOMAIN selector : key \in DOMAIN labels /\ labels[key] = selector[key]

\* The selector matches the pods and never changes (apps/v1).
SelectorAdmitted(old, new) ==
  /\ Selects(new.selector, new.podLabels)
  /\ old # Absent => new.selector = old.selector

\* A rolling update must be allowed to add or to remove a pod.
RollingAdmitted(rolling) == rolling.surge # 0 \/ rolling.unavailable # 0

\* A port whose name is left out.
NoName == ""

\* Ports are a sequence of <<name, number>>; there is one at least, names and
\* numbers do not repeat, and only a port that is alone may go without a name.
PortsAdmitted(ports) ==
  /\ ports # <<>>
  /\ Len(ports) > 1 => \A i \in 1..Len(ports) : ports[i][1] # NoName
  /\ \A i, j \in 1..Len(ports) : i # j => ports[i][1] # ports[j][1] /\ ports[i][2] # ports[j][2]

\* Source ranges are for load balancers, and are not cleared with the type.
RangesAdmitted(service) == service.ranges # {} => service.type = "LoadBalancer"

\* Traffic from outside the cluster reaches these; the server gives them a
\* policy for it if they have none.
External(type) == type \in {"NodePort", "LoadBalancer"}

\* The policy of new when it is stored.  clears: the server clears a policy that
\* is left over from the Service's former type; old servers refuse it.
StoredPolicy(old, new, clears) ==
  CASE External(new.type) /\ new.policy = "" -> "Cluster"
    [] ~External(new.type) /\ clears /\ old # Absent /\ old.policy = new.policy -> ""
    [] OTHER -> new.policy
Stored(old, new, clears) == [new EXCEPT !.policy = StoredPolicy(old, new, clears)]

\* Other types must not have one.
PolicyAdmitted(service) == service.policy # "" => External(service.type)

HPAAdmitted(hpa) ==
  /\ hpa.min # Unset => hpa.min >= 1
  /\ hpa.max >= 1
  /\ hpa.cpuTarget >= 1

\* The metadata of a trigger is an object, and null is none.
ScaledObjectAdmitted(scaledObject) == \A t \in scaledObject.triggers : t.metadata
=============================================================================
