SPECIFICATION FairSpec
CONSTANTS
  v1 = v1
  v2 = v2
  Events <- LiveEvents
  Validators <- LiveValidators
  ValidatorOf <- LiveValidatorOf
  Preload = 2
  AckAge = 1
  HeadLag = 1
  Configs <- LiveConfigs
  MaxBlock = 3
  MaxReorgs = 2
  MaxFaults = 2
PROPERTIES
  RequestsFulfilled
  FulfilledIsAcked
