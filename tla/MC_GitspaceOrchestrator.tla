----------------------- MODULE MC_GitspaceOrchestrator -----------------------
(***************************************************************************)
(* Instantiates GitspaceOrchestrator for TLC: every access type of the     *)
(* getSecretResolver switch plus an unknown one, a resolver registry       *)
(* without the SSH scheme (so ResolverNotFoundError is reachable, spec     *)
(* section 8), the two IDE types generateIDEURL knows plus an unregistered *)
(* one, and three invocations so that a call runs after a failed or a      *)
(* successful one.                                                         *)
(***************************************************************************)
EXTENDS GitspaceOrchestrator

MCAccessTypes == {"user_credentials", "jwt_token", "ssh_key", "unknown_access"}
MCRegisteredSecretTypes == {"password", "jwt"}
MCIDETypes == {"vs_code_web", "vs_code", "unknown_ide"}
MCRegisteredIDEs == {"vs_code_web", "vs_code"}

\* The IDE factory of the violation run also registers a third IDE type.
MCRegisteredIDEsWithThird == {"vs_code_web", "vs_code", "unknown_ide"}

=============================================================================
