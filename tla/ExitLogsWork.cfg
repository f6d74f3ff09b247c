SPECIFICATION FairSpec
CONSTANTS
  a = a
  b = b
  c = c
  v = v
  w = w
  o1 = o1
  o2 = o2
  o3 = o3
  Events <- MCEvents
  Validators <- MCValidators
  Operators <- MCOperators
  EjectorScope <- MCEjectorScope
  ScopeSize = 2
  Genuine <- WorkGenuine
  KeyOk <- WorkKeyOk
  ValidatorOf <- WorkValidatorOf
  OperatorOf <- WorkOperatorOf
  Preload = 2
  Step = 2
  TrustMode = FALSE
  HeadLag = 1
  LogsLag = 0
  LateValidators = {}
  VerifyFaults = FALSE
  MaxBlock = 4
  MaxFaults = 2
INVARIANTS
  TypeOK
  NoRequestLost
PROPERTIES
  RequestsTaken
