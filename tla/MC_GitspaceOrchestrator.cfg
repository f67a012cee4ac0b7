\* The orchestrator's stage contract and its refinement of GitspaceLifecycle.
CONSTANTS
  AccessTypes <- MCAccessTypes
  RegisteredSecretTypes <- MCRegisteredSecretTypes
  IDETypes <- MCIDETypes
  RegisteredIDEs <- MCRegisteredIDEs
  MaxCalls = 3
SPECIFICATION Spec
\* The scheduler may stop invoking: after the last call nothing is enabled.
CHECK_DEADLOCK FALSE
INVARIANTS
  TypeOK
  TrailFollowsStages
  StageAttributedFailure
  RunningRequiresAllStages
PROPERTIES
  RefinesLifecycle
