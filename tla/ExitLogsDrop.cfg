SPECIFICATION Spec
CONSTANTS
  a = a
  b = b
  c = c
  v = v
  w = w
  o1 = o1
  o2 = o2
  o3 = o3
  Events <- MCEvents
  Validators <- MCValidators
  Operators <- MCOperators
  EjectorScope <- MCEjectorScope
  ScopeSize = 2
  Genuine <- WorkGenuine
  KeyOk <- WorkKeyOk
  ValidatorOf <- WorkValidatorOf
  OperatorOf <- WorkOperatorOf
  Preload = 2
  Step = 2
  TrustMode = FALSE
  HeadLag = 0
  LogsLag = 0
  LateValidators = {}
  VerifyFaults = TRUE
  MaxBlock = 3
  MaxFaults = 0
INVARIANTS
  NoRequestLost
