--------------------------- MODULE GitspaceLifecycle ---------------------------
(***************************************************************************)
(* What the lifecycle orchestrator promises its scheduler (spec sections  *)
(* 3, 4.3, 4.5, 7), with every stage folded into one step.  A requested    *)
(* operation completes by setting the persisted instance state either to  *)
(* Error or to the operation's own success state, and to the success      *)
(* state only when the infrastructure status it was handed is one the     *)
(* operation accepts.                                                      *)
(***************************************************************************)
VARIABLES
  state,        \* the persisted instance state
  requested,    \* the operation in flight, or "none"
  infraStatus   \* the infrastructure status handed to that operation

Statuses == {"provisioned", "stopped", "destroyed", "pending"}

\* The infrastructure statuses each operation accepts as success.
AcceptedBy(o) ==
  CASE o = "start"   -> {"provisioned"}
    [] o = "stop"    -> {"destroyed", "stopped"}
    [] o = "delete"  -> {"destroyed"}
    [] o = "cleanup" -> {"destroyed", "stopped"}

\* The instance state each operation reports on success.
SuccessOf(o) ==
  CASE o = "start"   -> "running"
    [] o = "stop"    -> "deleted"
    [] o = "delete"  -> "deleted"
    [] o = "cleanup" -> "cleaned"

\* The states a completed operation may leave behind.
Outcomes(o, s) ==
  {"error"} \cup (IF s \in AcceptedBy(o) THEN {SuccessOf(o)} ELSE {})

Init ==
  /\ state = "uninitialized"
  /\ requested = "none"
  /\ infraStatus \in Statuses

Request(o) ==
  /\ requested = "none"
  /\ requested' = o
  /\ infraStatus' \in Statuses
  /\ UNCHANGED state

Complete ==
  /\ requested # "none"
  /\ state' \in Outcomes(requested, infraStatus)
  /\ requested' = "none"
  /\ UNCHANGED infraStatus

Next ==
  \/ \E o \in {"start", "stop", "delete", "cleanup"} : Request(o)
  \/ Complete

Spec == Init /\ [][Next]_<<state, requested, infraStatus>>

=============================================================================
