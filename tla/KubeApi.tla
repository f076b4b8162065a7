------------------------------- MODULE KubeApi -------------------------------
(***************************************************************************)
(* The API server as a controller sees it through controller-runtime's     *)
(* default client: writes go to the server, reads of structured objects    *)
(* come from an informer's cache, which trails the server.                 *)
(*                                                                         *)
(* server[k] is the object of kind k (each kind here is one object, named  *)
(* by the code), past[k] the versions of it that the server has replaced   *)
(* and the informer has not moved past, oldest first.  The cached copy is  *)
(* the oldest of them.  Kinds outside Lagging are delivered at once.       *)
(***************************************************************************)
EXTENDS Naturals, Sequences

CONSTANTS
  Lagging,   \* the kinds whose informer may trail the server
  Absent     \* the value of an object that does not exist

VARIABLES server, past

\* The informer has delivered the last version, so a resourceVersion read now
\* is the one the server would accept in an Update.
Current(k) == past[k] = <<>>

Cached(k) == IF Current(k) THEN server[k] ELSE Head(past[k])

\* A write of the value the server already holds makes no new version.
Put(k, obj) ==
  /\ server' = [server EXCEPT ![k] = obj]
  /\ past' = IF k \in Lagging /\ obj # server[k]
             THEN [past EXCEPT ![k] = Append(@, server[k])]
             ELSE past

\* The version that follows the cached one.
NextVersion(k) == IF Len(past[k]) = 1 THEN server[k] ELSE past[k][2]

\* The informer moves on by one version.
Advance(k) ==
  /\ ~Current(k)
  /\ past' = [past EXCEPT ![k] = Tail(@)]
  /\ UNCHANGED server

\* A restarted process lists every kind afresh.
Relist ==
  /\ past' = [k \in DOMAIN past |-> <<>>]
  /\ UNCHANGED server
=============================================================================
