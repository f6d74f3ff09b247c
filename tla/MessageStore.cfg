SPECIFICATION Spec
CONSTANTS
  f1 = f1
  f2 = f2
  m1 = m1
  m2 = m2
  m3 = m3
  junk = junk
  number = number
  none = none
  v1 = v1
  v2 = v2
  Files <- MCFiles
  Messages <- MCMessages
  Garbage <- MCGarbage
  Poison <- MCPoison
  NoFile = none
  Validators <- MCValidators
  Known <- MCKnown
  ValidatorOf <- MCValidatorOf
  SignedFor <- MCSignedFor
  Capella = 1
  ForceDencun = FALSE
  ForkLag = 1
  ClockSteps = FALSE
  MaxFork = 2
  MaxClock = 3
  MaxFaults = 2
INVARIANTS
  TypeOK
  DencunOnlyCapella
  StoredFromFolder
  NoFileSkipped
PROPERTIES
  LostForCause
  ReloadExact
