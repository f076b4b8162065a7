----------------------- MODULE MCControllerReconciler -----------------------
(* Small instances of ControllerReconciler for TLC. *)
EXTENDS ControllerProperties, TLC

CONSTANTS n1, n2   \* two namespaces

Default == [rev |-> "a", rbac |-> Unset, serviceAccount |-> Unset]
NoRbac == [Default EXCEPT !.rbac = FALSE]
NoAccount == [Default EXCEPT !.serviceAccount = [enable |-> FALSE, name |-> ""]]
Renamed == [Default EXCEPT !.serviceAccount = [enable |-> TRUE, name |-> ""]]
Upgraded == [Default EXCEPT !.rev = "b"]

OneInstance == {<<n1, "c">>}
TwoNamespaces == {<<n1, "c">>, <<n2, "c">>}
OnlyDefault == {Default}
EditedSpecs == {Default, NoRbac, NoAccount, Renamed, Upgraded}
UpgradedSpecs == {Default, Upgraded}
RenamedSpecs == {Default, Renamed}
OneCRD == <<"wasmplugins">>
TwoCRDs == <<"wasmplugins", "mcpbridges">>
Namespaces == Permutations({n1, n2})
LaggingBindings == Resources \cup Bindings
=============================================================================
