SPECIFICATION FairSpec
CONSTANTS
  r1 = r1
  r2 = r2
  r3 = r3
  ejector = ejector
  reload = reload
  Runners <- MCRunners
  Names <- MCNames
  NameOf <- MCNameOf
INVARIANTS
  TypeOK
  MutualExclusion
  LockIsHeld
PROPERTIES
  JobsKeepRunning
