\* Success is checked against the descriptor copy, not the adapter's record.
CONSTANTS
  AccessTypes <- MCAccessTypes
  RegisteredSecretTypes <- MCRegisteredSecretTypes
  IDETypes <- MCIDETypes
  RegisteredIDEs <- MCRegisteredIDEs
  MaxCalls = 2
SPECIFICATION Spec
CHECK_DEADLOCK FALSE
INVARIANT SuccessMatchesInfraRecord
