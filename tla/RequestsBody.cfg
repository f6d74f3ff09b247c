SPECIFICATION Spec
CONSTANTS
  Last = 2
  NodeTries = 2
  WebhookMaxRetries = 1
  Chains = {1, 2}
  NaN = NaN
  Ids <- MCIds
  parsedId <- MCParsedId
  NotAnId = NotAnId
  Unset = Unset
  Malformed = Malformed
  DefaultStep = 3
  Environments <- MCEnvironments
INVARIANT NetworkErrorMovesOn
