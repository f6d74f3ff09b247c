SPECIFICATION Spec
CONSTANTS
  Last = 2
  NodeTries = 2
  WebhookMaxRetries = 2
  Chains = {1, 2}
  NaN = NaN
  Ids <- MCIds
  parsedId <- MCParsedId
  NotAnId = NotAnId
  Unset = Unset
  Malformed = Malformed
  DefaultStep = 3
  Environments <- MCEnvironments
INVARIANTS
  TypeOK
  BackupWhenSpent
  FailureIsTotal
  SuccessIsReal
  RunsOnOneChain
  ConfigServes
PROPERTIES
  OnlyBodiesHang
  StartDecides
