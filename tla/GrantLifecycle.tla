---------------------------- MODULE GrantLifecycle ----------------------------
(***************************************************************************)
(* What the finalizer protocol of a HigressGateway promises, without       *)
(* caches, passes or conflicts: the grant in the ClusterRoleBinding is     *)
(* given only while the resource is protected by the finalizer, and a      *)
(* protected resource goes only after the grant is taken back.             *)
(***************************************************************************)
VARIABLES
  life,     \* "none", "created", "protected" or "deleting"
  granted   \* the service account is a subject of the binding

Init == life = "none" /\ granted = FALSE

Create == life = "none" /\ life' = "created" /\ UNCHANGED granted

\* The finalizer is added.
Protect == life = "created" /\ life' = "protected" /\ UNCHANGED granted

\* A pass that began before the deletion may still grant after it.
Grant == life \in {"protected", "deleting"} /\ granted' = TRUE /\ UNCHANGED life

\* By the finalizer's handler, or by anybody who deletes the binding.
Revoke == granted' = FALSE /\ UNCHANGED life

\* Without the finalizer nothing holds the resource.
Discard == life = "created" /\ life' = "none" /\ UNCHANGED granted

MarkDeleted == life = "protected" /\ life' = "deleting" /\ UNCHANGED granted

Remove == life = "deleting" /\ ~granted /\ life' = "none" /\ UNCHANGED granted

Next == Create \/ Protect \/ Grant \/ Revoke \/ Discard \/ MarkDeleted \/ Remove

Spec == Init /\ [][Next]_<<life, granted>>
=============================================================================
