------------------------- MODULE GitspaceOrchestrator -------------------------
(***************************************************************************)
(* The gitspace lifecycle orchestrator of                                  *)
(* src/app/gitspace/orchestrator/orchestrator_resume.go:                   *)
(* ResumeStartGitspace, ResumeStopGitspace, ResumeDeleteGitspace and       *)
(* ResumeCleanupInstanceResources, invoked one at a time for one gitspace  *)
(* by an external scheduler that persists what each call returns.          *)
(*                                                                         *)
(* ResumeStartGitspace blocks on a collaborator at each stage (secret      *)
(* resolver, infrastructure adapter, SCM client, container orchestrator);  *)
(* each stage is one action.  The three teardown operations make a single  *)
(* adapter call and are one action each.  Collaborator results are        *)
(* nondeterministic.  The infrastructure descriptor is passed BY VALUE     *)
(* (types.Infrastructure), so the status the orchestrator checks is the    *)
(* status the scheduler handed in; the adapter's own record of the         *)
(* infrastructure is the separate variable `infra`.                        *)
(***************************************************************************)
EXTENDS Naturals, Sequences, SequencesExt, FiniteSets

CONSTANTS
  AccessTypes,            \* access types a gitspace may be configured with
  RegisteredSecretTypes,  \* secret schemes the resolver factory knows
  IDETypes,               \* IDE types a gitspace may be configured with
  RegisteredIDEs,         \* IDE types the IDE factory knows
  MaxCalls                \* bound on the number of orchestrator invocations

SecretTypes == {"password", "jwt", "ssh"}
VSCodeWeb == "vs_code_web"
VSCode == "vs_code"

ASSUME RegisteredSecretTypes \subseteq SecretTypes
ASSUME RegisteredIDEs \subseteq IDETypes
ASSUME MaxCalls \in Nat \ {0}

InfraStatus == {"provisioned", "stopped", "destroyed", "pending"}
InstanceStates == {"uninitialized", "error", "running", "deleted", "cleaned"}
Ops == {"start", "stop", "delete", "cleanup"}
TeardownOps == {"stop", "delete", "cleanup"}
Collaborators == {"secret", "infra", "scm", "agent_status", "agent_create"}
CallResults == {"no", "ok", "err"}
Errors == {"none", "resolver_not_found", "space_path", "secret_resolution",
           "unsupported_ide", "infra_operation", "infra_state_mismatch",
           "scm", "agent_unreachable", "container_start"}
StartStages == {"resolve", "ide", "provision", "scm", "agent", "create"}
PCs == {"idle", "returned"} \cup StartStages \cup TeardownOps

\* An IDE access URL, abstracted to where each of its parts comes from.
NoURL == [scheme |-> "", host |-> "", port |-> "", user |-> ""]
URLs == [scheme : {"infra_scheme", "vscode-remote"},
         host   : {"gitspace_host", "proxy_host"},
         port   : {"infra_forwarded", "start_published"},
         user   : {"", "harness"}] \cup {NoURL}

\* The infrastructure descriptor handed to a call: its status, whether a
\* proxy host is set, and the published port of the IDE's port mapping.
Descriptors == [status : InfraStatus, proxy : BOOLEAN, published : {0, 9999}]

VARIABLES
  cfg,      \* the gitspace config: access type, IDE, space path validity
  inst,     \* the GitspaceInstance the config points to (mutated in place)
  stored,   \* the instance state the scheduler last persisted
  infra,    \* the adapter's own record of the infrastructure status
  desc,     \* the descriptor passed by value to the in-flight call
  op,       \* the operation in flight, or "none"
  pc,       \* the stage of the operation in flight
  trail,    \* events emitted by the in-flight call, in order
  called,   \* collaborator -> result of its call in the in-flight call
  ret,      \* what the call returned: state and error
  calls     \* invocations so far

vars == <<cfg, inst, stored, infra, desc, op, pc, trail, called, ret, calls>>

-----------------------------------------------------------------------------
(***************************************************************************)
(* Pure helpers translated from the code.                                  *)
(***************************************************************************)

\* getSecretResolver: the secret scheme of an access type; unknown types
\* fall back to the password scheme.
SecretTypeOf(a) ==
  CASE a = "user_credentials" -> "password"
    [] a = "jwt_token"        -> "jwt"
    [] a = "ssh_key"          -> "ssh"
    [] OTHER                  -> "password"

\* Mutant of ForwardedPortOf: the mapping's zero published port is used.
ForwardedPortOfPublished(d) ==
  IF d.published = 0 THEN "infra_published_zero" ELSE "infra_forwarded"

\* The port in the URL: the start response's port when the infrastructure
\* mapping has published port 0, else the mapping's forwarded port.
ForwardedPortOf(d) ==
  IF d.published = 0 THEN "start_published" ELSE "infra_forwarded"

\* The proxy host, when set, overrides the gitspace host.
HostOf(d) == IF d.proxy THEN "proxy_host" ELSE "gitspace_host"

\* generateIDEURL: a web URL for VS Code Web, a vscode-remote URI with the
\* static user for VS Code, and the empty url.URL{} for any other IDE.
GenerateIDEURL(d, ide) ==
  CASE ide = VSCodeWeb -> [scheme |-> "infra_scheme", host |-> HostOf(d),
                           port |-> ForwardedPortOf(d), user |-> ""]
    [] ide = VSCode    -> [scheme |-> "vscode-remote", host |-> HostOf(d),
                           port |-> ForwardedPortOf(d), user |-> "harness"]
    [] OTHER           -> NoURL

\* Mutant of StartAccepted: a transient status also passes the check.
StartAcceptedPending(s) == s \in {"provisioned", "pending"}

\* ResumeStartGitspace's check of the descriptor after ResumeProvision.
StartAccepted(s) == s = "provisioned"

\* Mutant of CleanupAccepted: a transient status also passes the check.
CleanupAcceptedAny == {"destroyed", "stopped", "pending"}

\* The statuses ResumeStop / ResumeDelete / ResumeCleanup accept.
StopAccepted == {"destroyed", "stopped"}
DeleteAccepted == {"destroyed"}
CleanupAccepted == {"destroyed", "stopped"}
Accepted(o) ==
  CASE o = "start"  -> {s \in InfraStatus : StartAccepted(s)}
    [] o = "stop"   -> StopAccepted
    [] o = "delete" -> DeleteAccepted
    [] o = "cleanup" -> CleanupAccepted

\* The state each teardown returns on success (stop reuses "deleted").
TeardownSuccess(o) ==
  CASE o = "stop" -> "deleted" [] o = "delete" -> "deleted" [] o = "cleanup" -> "cleaned"

\* The events a teardown emits: on failure, and on success in order.
TeardownFailed(o) ==
  CASE o = "stop"    -> "InfraStopFailed"
    [] o = "delete"  -> "InfraDeprovisioningFailed"
    [] o = "cleanup" -> "InfraCleanupFailed"
TeardownCompleted(o) ==
  CASE o = "stop"    -> <<"InfraStopCompleted", "GitspaceActionStopCompleted">>
    [] o = "delete"  -> <<"InfraDeprovisioningCompleted", "GitspaceActionStopCompleted">>
    [] o = "cleanup" -> <<"InfraCleanupCompleted">>

-----------------------------------------------------------------------------
(***************************************************************************)
(* The scheduler (outside src/): invoke an operation, persist its result.  *)
(***************************************************************************)

Init ==
  /\ cfg \in [accessType : AccessTypes, ide : IDETypes, spacePathOK : BOOLEAN]
  /\ inst = [state |-> "uninitialized", accessKey |-> FALSE, url |-> NoURL,
             lastUsed |-> FALSE]
  /\ stored = "uninitialized"
  /\ infra \in InfraStatus
  /\ desc = [status |-> "pending", proxy |-> FALSE, published |-> 0]
  /\ op = "none"
  /\ pc = "idle"
  /\ trail = <<>>
  /\ called = [c \in Collaborators |-> "no"]
  /\ ret = [state |-> "uninitialized", err |-> "none"]
  /\ calls = 0

\* The scheduler hands the orchestrator the adapter's current descriptor.
Invoke(o) ==
  /\ pc = "idle"
  /\ calls < MaxCalls
  /\ \E d \in Descriptors :
       /\ d.status = infra
       /\ desc' = d
  /\ op' = o
  /\ pc' = IF o = "start" THEN "resolve" ELSE o
  /\ trail' = <<>>
  /\ called' = [c \in Collaborators |-> "no"]
  /\ calls' = calls + 1
  /\ UNCHANGED <<cfg, inst, stored, infra, ret>>

Persist ==
  /\ pc = "returned"
  /\ stored' = ret.state
  /\ pc' = "idle"
  /\ op' = "none"
  /\ UNCHANGED <<cfg, inst, infra, desc, trail, called, ret, calls>>

\* A return of ResumeStartGitspace: the instance, with state st, and err.
ReturnStart(st, err) ==
  /\ pc' = "returned"
  /\ ret' = [state |-> st, err |-> err]

-----------------------------------------------------------------------------
(***************************************************************************)
(* ResumeStartGitspace, one action per blocking stage.                     *)
(***************************************************************************)

\* Lines 41-65: state := Error; select the resolver, find the root space,
\* resolve the secret.
ResolveSecret ==
  /\ pc = "resolve"
  /\ LET pre == [inst EXCEPT !.state = "error"]
     IN \/ /\ SecretTypeOf(cfg.accessType) \notin RegisteredSecretTypes
           /\ inst' = pre
           /\ ReturnStart("error", "resolver_not_found")
           /\ UNCHANGED called
        \/ /\ SecretTypeOf(cfg.accessType) \in RegisteredSecretTypes
           /\ ~cfg.spacePathOK
           /\ inst' = pre
           /\ ReturnStart("error", "space_path")
           /\ UNCHANGED called
        \/ /\ SecretTypeOf(cfg.accessType) \in RegisteredSecretTypes
           /\ cfg.spacePathOK
           /\ \E r \in {"ok", "err"} :
                /\ called' = [called EXCEPT !["secret"] = r]
                /\ IF r = "err"
                     THEN /\ inst' = pre
                          /\ ReturnStart("error", "secret_resolution")
                     ELSE /\ inst' = [pre EXCEPT !.accessKey = TRUE]
                          /\ pc' = "ide"
                          /\ UNCHANGED ret
  /\ UNCHANGED <<cfg, stored, infra, desc, op, trail, calls>>

\* Lines 67-72: select the IDE service and read its port.
GetIDEService ==
  /\ pc = "ide"
  /\ IF cfg.ide \in RegisteredIDEs
       THEN /\ pc' = "provision"
            /\ UNCHANGED ret
       ELSE ReturnStart("error", "unsupported_ide")
  /\ UNCHANGED <<cfg, inst, stored, infra, desc, op, trail, called, calls>>

\* Lines 74-93: ResumeProvision, then the status check of the descriptor.
\* The adapter may leave its own record in any status (spec section 6).
ResumeProvision ==
  /\ pc = "provision"
  /\ \E r \in {"ok", "err"}, s \in InfraStatus :
       /\ called' = [called EXCEPT !["infra"] = r]
       /\ infra' = s
       /\ IF r = "ok" /\ StartAccepted(desc.status)
            THEN /\ trail' = Append(trail, "InfraProvisioningCompleted")
                 /\ pc' = "scm"
                 /\ UNCHANGED ret
            ELSE /\ trail' = Append(trail, "InfraProvisioningFailed")
                 /\ ReturnStart("error", IF r = "err" THEN "infra_operation"
                                         ELSE "infra_state_mismatch")
  /\ UNCHANGED <<cfg, inst, stored, desc, op, calls>>

\* Mutant of GetSCMRepoDetails: AgentConnectStart emitted before the call.
GetSCMRepoDetailsEventFirst ==
  /\ pc = "scm"
  /\ \E r \in {"ok", "err"} :
       /\ called' = [called EXCEPT !["scm"] = r]
       /\ trail' = Append(trail, "AgentConnectStart")
       /\ IF r = "err"
            THEN ReturnStart("error", "scm")
            ELSE /\ pc' = "agent"
                 /\ UNCHANGED ret
  /\ UNCHANGED <<cfg, inst, stored, infra, desc, op, calls>>

\* Lines 95-100: fetch SCM details; failure returns with no event.
GetSCMRepoDetails ==
  /\ pc = "scm"
  /\ \E r \in {"ok", "err"} :
       /\ called' = [called EXCEPT !["scm"] = r]
       /\ IF r = "err"
            THEN /\ ReturnStart("error", "scm")
                 /\ UNCHANGED trail
            ELSE /\ trail' = Append(trail, "AgentConnectStart")
                 /\ pc' = "agent"
                 /\ UNCHANGED ret
  /\ UNCHANGED <<cfg, inst, stored, infra, desc, op, calls>>

\* Mutant of AgentStatus: the creation-start event emitted first.
AgentStatusSwapped ==
  /\ pc = "agent"
  /\ \E r \in {"ok", "err"} :
       /\ called' = [called EXCEPT !["agent_status"] = r]
       /\ IF r = "err"
            THEN /\ trail' = Append(trail, "AgentConnectFailed")
                 /\ ReturnStart("error", "agent_unreachable")
            ELSE /\ trail' = trail \o <<"AgentGitspaceCreationStart",
                                        "AgentConnectCompleted">>
                 /\ pc' = "create"
                 /\ UNCHANGED ret
  /\ UNCHANGED <<cfg, inst, stored, infra, desc, op, calls>>

\* Lines 102-111: the agent health check.
AgentStatus ==
  /\ pc = "agent"
  /\ \E r \in {"ok", "err"} :
       /\ called' = [called EXCEPT !["agent_status"] = r]
       /\ IF r = "err"
            THEN /\ trail' = Append(trail, "AgentConnectFailed")
                 /\ ReturnStart("error", "agent_unreachable")
            ELSE /\ trail' = trail \o <<"AgentConnectCompleted",
                                        "AgentGitspaceCreationStart">>
                 /\ pc' = "create"
                 /\ UNCHANGED ret
  /\ UNCHANGED <<cfg, inst, stored, infra, desc, op, calls>>

\* Lines 113-136: create and start the container, build the URL, mark the
\* instance running.
CreateAndStartGitspace ==
  /\ pc = "create"
  /\ \E r \in {"ok", "err"} :
       /\ called' = [called EXCEPT !["agent_create"] = r]
       /\ IF r = "err"
            THEN /\ trail' = Append(trail, "AgentGitspaceCreationFailed")
                 /\ ReturnStart("error", "container_start")
                 /\ UNCHANGED inst
            ELSE /\ trail' = trail \o <<"AgentGitspaceCreationCompleted",
                                        "GitspaceActionStartCompleted">>
                 /\ inst' = [inst EXCEPT !.url = GenerateIDEURL(desc, cfg.ide),
                                         !.lastUsed = TRUE,
                                         !.state = "running"]
                 /\ ReturnStart("running", "none")
  /\ UNCHANGED <<cfg, stored, infra, desc, op, calls>>

-----------------------------------------------------------------------------
(***************************************************************************)
(* ResumeStopGitspace, ResumeDeleteGitspace, ResumeCleanupInstanceResources *)
(* (lines 199-299): one adapter call, then the status check.               *)
(***************************************************************************)
ResumeTeardown(o) ==
  /\ pc = o
  /\ \E r \in {"ok", "err"}, s \in InfraStatus :
       /\ called' = [called EXCEPT !["infra"] = r]
       /\ infra' = s
       /\ pc' = "returned"
       /\ IF r = "ok" /\ desc.status \in Accepted(o)
            THEN /\ trail' = TeardownCompleted(o)
                 /\ ret' = [state |-> TeardownSuccess(o), err |-> "none"]
            ELSE /\ trail' = <<TeardownFailed(o)>>
                 /\ ret' = [state |-> "error",
                            err |-> IF r = "err" THEN "infra_operation"
                                    ELSE "infra_state_mismatch"]
  /\ UNCHANGED <<cfg, inst, stored, desc, op, calls>>

-----------------------------------------------------------------------------
Next ==
  \/ \E o \in Ops : Invoke(o)
  \/ Persist
  \/ ResolveSecret
  \/ GetIDEService
  \/ ResumeProvision
  \/ GetSCMRepoDetails
  \/ AgentStatus
  \/ CreateAndStartGitspace
  \/ \E o \in TeardownOps : ResumeTeardown(o)

Spec == Init /\ [][Next]_vars

-----------------------------------------------------------------------------
(***************************************************************************)
(* Properties.  The reference trails and accepted statuses below are      *)
(* taken from the spec (sections 4.3, 4.5, 8), not from the code.          *)
(***************************************************************************)

TypeOK ==
  /\ cfg \in [accessType : AccessTypes, ide : IDETypes, spacePathOK : BOOLEAN]
  /\ inst \in [state : InstanceStates, accessKey : BOOLEAN, url : URLs,
               lastUsed : BOOLEAN]
  /\ stored \in InstanceStates
  /\ infra \in InfraStatus
  /\ desc \in Descriptors
  /\ op \in Ops \cup {"none"}
  /\ pc \in PCs
  /\ trail \in Seq(STRING)
  /\ called \in [Collaborators -> CallResults]
  /\ ret \in [state : InstanceStates, err : Errors]
  /\ calls \in 0..MaxCalls

\* The events of a successful call, in the order spec section 8 gives.
SpecSuccessTrail(o) ==
  CASE o = "start" -> <<"InfraProvisioningCompleted", "AgentConnectStart",
                        "AgentConnectCompleted", "AgentGitspaceCreationStart",
                        "AgentGitspaceCreationCompleted",
                        "GitspaceActionStartCompleted">>
    [] o = "stop"    -> <<"InfraStopCompleted", "GitspaceActionStopCompleted">>
    [] o = "delete"  -> <<"InfraDeprovisioningCompleted", "GitspaceActionStopCompleted">>
    [] o = "cleanup" -> <<"InfraCleanupCompleted">>

\* The failure event a stage emits, by how many success events precede it.
SpecFailureAt(o) ==
  CASE o = "start" -> (0 :> "InfraProvisioningFailed") @@ (2 :> "AgentConnectFailed")
                        @@ (4 :> "AgentGitspaceCreationFailed")
    [] o = "stop"    -> (0 :> "InfraStopFailed")
    [] o = "delete"  -> (0 :> "InfraDeprovisioningFailed")
    [] o = "cleanup" -> (0 :> "InfraCleanupFailed")

\* The event trail of the call in flight is always a prefix of the
\* operation's success trail, or such a prefix followed by the one failure
\* event of the stage that stopped it, after which the call has returned:
\* no stage emits out of order, a failed stage emits exactly one *Failed
\* event, and nothing is emitted after it (ResumeStartGitspace and the
\* three teardown functions).
TrailFollowsStages ==
  op # "none" =>
    \/ IsPrefix(trail, SpecSuccessTrail(op))
    \/ /\ trail # <<>>
       /\ IsPrefix(Front(trail), SpecSuccessTrail(op))
       /\ Len(trail) - 1 \in DOMAIN SpecFailureAt(op)
       /\ Last(trail) = SpecFailureAt(op)[Len(trail) - 1]
       /\ pc = "returned"

\* When a call returns, its error names the stage that failed and agrees
\* with the trail and with the collaborators it called: a call returns no
\* error exactly when it emitted the whole success trail; a selector or
\* secret failure returns before any event and before any adapter, SCM or
\* container call; an infrastructure failure ends the trail with that
\* operation's infrastructure *Failed event, and is an operation error
\* exactly when the adapter call failed; an SCM failure leaves the trail
\* ending on InfraProvisioningCompleted; every error leaves state Error.
StageAttributedFailure ==
  pc = "returned" =>
    /\ (ret.err = "none") = (trail = SpecSuccessTrail(op))
    /\ ret.err \in {"resolver_not_found", "space_path", "secret_resolution",
                    "unsupported_ide"} =>
         /\ trail = <<>>
         /\ \A c \in Collaborators \ {"secret"} : called[c] = "no"
    /\ ret.err \in {"infra_operation", "infra_state_mismatch"} =>
         /\ Last(trail) = SpecFailureAt(op)[0]
         /\ (ret.err = "infra_operation") = (called["infra"] = "err")
    /\ ret.err = "scm" => Last(trail) = "InfraProvisioningCompleted"
    /\ ret.err # "none" => ret.state = "error"

\* Spec section 3: ResumeStartGitspace reports Running only if the
\* descriptor status was Provisioned and the secret resolution, adapter,
\* SCM, agent health and container start calls all succeeded, and the
\* instance it returns then carries the secret, a last-used time and the
\* Running state.
RunningRequiresAllStages ==
  (pc = "returned" /\ op = "start" /\ ret.state = "running") =>
    /\ desc.status = "provisioned"
    /\ \A c \in Collaborators : called[c] = "ok"
    /\ inst.state = "running" /\ inst.accessKey /\ inst.lastUsed

\* The orchestrator, seen by its scheduler, implements GitspaceLifecycle:
\* each call leaves the persisted state Error or its own success state,
\* and success only for an accepted descriptor status.
Lifecycle == INSTANCE GitspaceLifecycle
               WITH state <- stored, requested <- op, infraStatus <- desc.status
RefinesLifecycle == Lifecycle!Spec

\* Spec sections 3 and 6: the adapter's post-call status is what success
\* is checked against, so a call that returns success leaves the adapter's
\* infrastructure in a status the operation accepts.
SuccessMatchesInfraRecord ==
  (pc = "returned" /\ ret.err = "none") => infra \in Lifecycle!AcceptedBy(op)

\* Spec section 4.4: an IDE type the URL construction does not know must
\* fail with UnsupportedIDEError, so a Running instance has an access URL.
RunningHasIDEURL ==
  (pc = "returned" /\ op = "start" /\ ret.state = "running") => inst.url # NoURL

=============================================================================
