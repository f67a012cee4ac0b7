\* A registered IDE type that generateIDEURL does not know.
CONSTANTS
  AccessTypes <- MCAccessTypes
  RegisteredSecretTypes <- MCRegisteredSecretTypes
  IDETypes <- MCIDETypes
  RegisteredIDEs <- MCRegisteredIDEsWithThird
  MaxCalls = 1
SPECIFICATION Spec
CHECK_DEADLOCK FALSE
INVARIANT RunningHasIDEURL
