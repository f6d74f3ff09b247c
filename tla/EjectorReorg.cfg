SPECIFICATION Spec
CONSTANTS
  v1 = v1
  v2 = v2
  Events <- MCEvents
  Validators <- MCValidators
  ValidatorOf <- MCValidatorOf
  Preload = 2
  AckAge = 0
  HeadLag = 0
  Configs <- MessagesConfigs
  MaxBlock = 2
  MaxReorgs = 1
  MaxFaults = 0
INVARIANTS
  NoMissedReorg
