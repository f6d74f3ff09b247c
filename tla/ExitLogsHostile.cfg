SPECIFICATION Spec
CONSTANTS
  a = a
  b = b
  c = c
  v = v
  w = w
  o1 = o1
  o2 = o2
  o3 = o3
  Events <- MCEvents
  Validators <- MCValidators
  Operators <- MCOperators
  EjectorScope <- MCEjectorScope
  ScopeSize = 2
  Genuine <- HostileGenuine
  KeyOk <- HostileKeyOk
  ValidatorOf <- HostileValidatorOf
  OperatorOf <- HostileOperatorOf
  Preload = 2
  Step = 2
  TrustMode = FALSE
  HeadLag = 1
  LogsLag = 1
  LateValidators <- MCValidators
  VerifyFaults = TRUE
  MaxBlock = 4
  MaxFaults = 2
INVARIANTS
  NoDuplicates
  CacheAuthentic
  LostToNodesOnly
PROPERTIES
  IntakeSpec
