-------------------------- MODULE AutoscalingConfig --------------------------
(***************************************************************************)
(* The decisions higressgateway_controller.go takes from the autoscaling   *)
(* part of a HigressGateway's spec: which mode is in effect, and why a     *)
(* configuration is refused.                                               *)
(*                                                                         *)
(* spec.autoScaling is Unset (a nil pointer) or a record with enable, mode *)
(* ("" when it is not given), min, max, cpuTarget and keda; keda is Unset  *)
(* or the set of the triggers, each with its type and whether it has any   *)
(* metadata.  spec.cpuRequest says whether resources.requests.cpu is       *)
(* "missing", "zero" or "set".                                             *)
(***************************************************************************)
EXTENDS Integers

CONSTANT Unset    \* a nil pointer in the spec

AutoScalingModes == {"Disabled", "NativeHPA", "KEDA"}

Triggers == [type : STRING, metadata : BOOLEAN]
AutoScalings ==
  {Unset} \cup [enable : BOOLEAN, mode : AutoScalingModes \cup {""},
                min : Int \cup {Unset}, max : Int, cpuTarget : Int \cup {Unset},
                keda : {Unset} \cup SUBSET Triggers]

getEffectiveScaleMode(spec) ==
  IF spec.autoScaling = Unset \/ ~spec.autoScaling.enable THEN "Disabled"
  ELSE IF spec.autoScaling.mode # "" THEN spec.autoScaling.mode
  ELSE IF spec.autoScaling.keda # Unset THEN "KEDA"
  ELSE "NativeHPA"

\* The reason recorded for a configuration that passes.
Accepted == ""

\* Faulty variant: a request of zero counts as a request.
NativeHPAReasonPresence(spec) ==
  IF spec.autoScaling.cpuTarget = Unset THEN "MissingCPUTarget"
  ELSE IF spec.cpuRequest = "missing" THEN "MissingCPURequest"
  ELSE Accepted

NativeHPAReason(spec) ==
  IF spec.autoScaling.cpuTarget = Unset THEN "MissingCPUTarget"
  ELSE IF spec.cpuRequest # "set" THEN "MissingCPURequest"
  ELSE Accepted

KEDAReason(spec) ==
  IF spec.autoScaling.keda = Unset THEN "MissingKEDAConfig"
  ELSE IF spec.autoScaling.keda = {} THEN "MissingKEDATriggers"
  ELSE IF \E t \in spec.autoScaling.keda : t.type = "" THEN "InvalidKEDATrigger"
  ELSE Accepted

BoundsCrossed(as) == as.min # Unset /\ as.max < as.min

\* Accepted, or the reason of the first rule the spec breaks.
validateAutoscalingConfig(spec) ==
  LET mode == getEffectiveScaleMode(spec) IN
  IF mode = "Disabled" THEN Accepted
  ELSE IF spec.local THEN "LocalModeUnsupported"
  ELSE IF BoundsCrossed(spec.autoScaling) THEN "InvalidReplicaBounds"
  ELSE IF mode = "NativeHPA" THEN NativeHPAReason(spec)
  ELSE IF mode = "KEDA" THEN KEDAReason(spec)
  ELSE "UnsupportedAutoscalingMode"

Valid(spec) == validateAutoscalingConfig(spec) = Accepted

\* The mode under which the Deployment's replicas belong to an autoscaler.
shouldPreserveReplicas(spec) == getEffectiveScaleMode(spec) # "Disabled"
=============================================================================
