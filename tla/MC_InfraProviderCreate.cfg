CONSTANTS
  r1 = r1
  r2 = r2
  InputResources <- MCInputResources
  ProviderTypes <- MCProviderTypes
  TemplatedTypes <- MCTemplatedTypes
  RegisteredTypes <- MCRegisteredTypes
  MaxRequests = 3
  StoreUniqueIdentifier = TRUE
SPECIFICATION Spec
INVARIANTS
  TypeOK
  SuccessIsCleanCreate
