------------------------ MODULE MCGatewayReconciler ------------------------
(* Small instances of GatewayReconciler for TLC. *)
EXTENDS GatewayProperties

Plain == [rev |-> "a", replicas |-> Unset, rbac |-> Unset, skywalking |-> Unset,
          local |-> FALSE, cpuRequest |-> "set", autoScaling |-> Unset]

Autoscaled == [enable |-> TRUE, mode |-> "", min |-> 1, max |-> 3,
               cpuTarget |-> 80, keda |-> Unset]

WithHPA == [Plain EXCEPT !.autoScaling = Autoscaled]
WithKEDA == [Plain EXCEPT !.rev = "b", !.autoScaling = [Autoscaled EXCEPT !.keda = {[type |-> "cpu", metadata |-> TRUE]}]]
Invalid == [WithHPA EXCEPT !.autoScaling.cpuTarget = Unset]
NoRbac == [Plain EXCEPT !.rbac = FALSE]
Traced == [Plain EXCEPT !.skywalking = "scripts"]
TracedEmpty == [Plain EXCEPT !.skywalking = "empty"]

OnlyPlain == {Plain}
OnlyTraced == {Traced}
PlainOrHPA == {Plain, WithHPA}
PlainNoRbacOrKEDA == {Plain, NoRbac, WithKEDA}
PlainOrTraced == {Plain, Traced, TracedEmpty}
InvalidHPAOrKEDA == {Invalid, WithHPA, WithKEDA}
=============================================================================
