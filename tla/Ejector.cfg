SPECIFICATION Spec
CONSTANTS
  v1 = v1
  v2 = v2
  Events <- MCEvents
  Validators <- MCValidators
  ValidatorOf <- MCValidatorOf
  Preload = 1
  AckAge = 0
  HeadLag = 1
  Configs <- MCConfigs
  MaxBlock = 2
  MaxReorgs = 2
  MaxFaults = 1
SYMMETRY MCSymmetry
INVARIANTS
  TypeOK
  YoungAckIsFinal
PROPERTIES
  SentOnRequest
  RunnerSpec
